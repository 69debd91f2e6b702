--------------------------- MODULE FinalizeProofs ---------------------------
(***************************************************************************)
(* Proofs about Finalize for every committee, ledger, set of clients and   *)
(* list of contacts, and any number of calls and faults, and about the     *)
(* controller of PhaseA, in the second half.                               *)
(*                                                                         *)
(* The steps of the clients are steps of Node, so what NodeProofs shows of *)
(* arbitrary clients holds here.  The returned certificates form a chain   *)
(* because the call's record is at every stage backed by shares that were  *)
(* issued, and shares are never withdrawn.  Those of the campaign are      *)
(* steps of Node because its script is: by the time it shows the honest    *)
(* nodes a certificate nobody signed, all of them are locked against it.   *)
(***************************************************************************)
EXTENDS Finalize, PhaseA, NodeProofs, SequenceTheorems

-----------------------------------------------------------------------------
(* Type correctness of the clients                                         *)

\* An outstanding request asks what the call's record says, of a member, and for a
\* vote only of an honest one.
LEMMA OutstandingTypes ==
  ASSUME CallsTypeOK, NEW c \in Clients, NEW m \in Outstanding(c)
  PROVE  /\ call[c] \in Call
         /\ m = RequestTo(c, m.node)
         /\ m \in Request
         /\ m.kind \in Phases => m.node \in Honest
         /\ m.kind = "apply" => m.node \in call[c].todo
<1>1. call[c] \in Call \cup {NoCall}
  BY DEF CallsTypeOK
<1>2. call[c].stage \in Kinds
  BY DEF Outstanding, Kinds
<1>3. call[c] \in Call
  BY <1>1, <1>2 DEF NoCall, Kinds, Phases
<1>4. CASE call[c].stage = "apply"
  <2>1. PICK v \in call[c].todo : m = RequestTo(c, v)
    BY <1>4 DEF Outstanding, Phases
  <2> QED
    BY <1>3, <1>4, <2>1 DEF RequestTo, Request, Call, Kinds, Phases
<1>5. CASE call[c].stage \in Phases
  <2> DEFINE n == call[c].asked + 1
  <2>1. call[c].asked < Len(call[c].contacts) /\ m = RequestTo(c, call[c].contacts[n])
    BY <1>5 DEF Outstanding, Phases
  <2>2. call[c].contacts \in Seq(Honest) /\ call[c].asked \in Nat
    BY <1>3, FinalizeAssumption DEF Call, FinalizeAssumption
  <2>3. n \in 1..Len(call[c].contacts)
    BY <2>1, <2>2
  <2>4. call[c].contacts[n] \in Honest
    BY <2>2, <2>3
  <2> QED
    BY <1>3, <1>5, <2>1, <2>4 DEF RequestTo, Request, Call, Kinds, Phases, Honest
<1> QED
  BY <1>2, <1>3, <1>4, <1>5 DEF Kinds

\* Nobody has called anything at first ...
LEMMA CallsTypeInit ==
  ASSUME FInit
  PROVE  CallsTypeOK
BY FinalizeAssumption DEF FinalizeAssumption, FInit, CallsTypeOK

\* What each change of a call's record leaves of it.
LEMMA AnsweredCall ==
  ASSUME NEW k \in Call, NEW W \in SUBSET Validators
  PROVE  /\ Answered(k, W) \in Call
         /\ Answered(k, W).stage = k.stage /\ Answered(k, W).round = k.round
         /\ Answered(k, W).intent = k.intent /\ Answered(k, W).qc = k.qc
         /\ Answered(k, W).signers = k.signers \cup W
<1>1. k.asked + 1 \in Nat /\ k.signers \cup W \in SUBSET Validators
  BY DEF Call
<1>2. ASSUME NEW n \in Nat, NEW S \in SUBSET Validators
      PROVE  /\ [k EXCEPT !.asked = n, !.signers = S] \in Call
             /\ \A f \in {"stage", "round", "intent", "qc"} :
                  [k EXCEPT !.asked = n, !.signers = S][f] = k[f]
             /\ [k EXCEPT !.asked = n, !.signers = S].signers = S
  BY DEF Call
<1> QED
  BY <1>1, <1>2 DEF Answered

\* A certified prevote round leaves a call with a certificate and no precommits.
LEMMA WithQcCall ==
  ASSUME NEW k \in Call
  PROVE  /\ WithQc(k) \in Call
         /\ WithQc(k).stage = "precommit" /\ WithQc(k).round = k.round
         /\ WithQc(k).intent = k.intent /\ WithQc(k).qc = k.signers
         /\ WithQc(k).signers = {}
BY DEF WithQc, Call, Kinds, Phases

\* A finalised call has its transfer still to apply.
LEMMA FinalizedCall ==
  ASSUME NEW k \in Call
  PROVE  /\ Finalized(k) \in Call
         /\ Finalized(k).stage = "apply" /\ Finalized(k).round = k.round
         /\ Finalized(k).intent = k.intent /\ Finalized(k).qc = k.qc
BY DEF Finalized, Call, Kinds, Phases

\* A call a node has answered is the same call, or is over.
LEMMA AppliedAtCall ==
  ASSUME NEW k \in Call, NEW v
  PROVE  \/ AppliedAt(k, v) = NoCall
         \/ /\ AppliedAt(k, v) \in Call
            /\ AppliedAt(k, v).stage = k.stage /\ AppliedAt(k, v).round = k.round
            /\ AppliedAt(k, v).intent = k.intent /\ AppliedAt(k, v).qc = k.qc
BY DEF AppliedAt, Call

\* Every step of the clients keeps the type of the calls.
LEMMA CallsTypeStep ==
  ASSUME CallsTypeOK, [FNext]_fvars
  PROVE  CallsTypeOK'
<1>1. ASSUME NEW c \in Clients, Start(c)
      PROVE  CallsTypeOK'
  <2>1. PICK i \in Authorized, r \in Rounds, contacts \in ContactLists :
          call' = [call EXCEPT ![c] = NewCall(r, i, contacts)]
    BY <1>1 DEF Start
  <2>2. NewCall(r, i, contacts) \in Call
    BY NodeAssumption DEF NewCall, Call, Kinds, Phases, NodeAssumption
  <2> QED
    BY <1>1, <2>1, <2>2, FinalizeAssumption DEF FinalizeAssumption, Start, CallsTypeOK
<1>2. ASSUME NEW c \in Clients, AskForVote(c)
      PROVE  CallsTypeOK'
  <2>1. PICK m \in Outstanding(c), W \in SUBSET Validators :
          call' = [call EXCEPT ![c] = Answered(call[c], W)]
    BY <1>2, OutstandingTypes DEF AskForVote, Request
  <2>2. Answered(call[c], W) \in Call
    BY OutstandingTypes, AnsweredCall
  <2> QED
    BY <1>2, <2>1, <2>2 DEF AskForVote, CallsTypeOK
<1>3. ASSUME NEW c \in Clients, Assemble(c)
      PROVE  CallsTypeOK'
  <2>1. call[c] \in Call
    BY <1>3 DEF Assemble, CallsTypeOK, NoCall, Phases
  <2>2. WithQc(call[c]) \in Call /\ Finalized(call[c]) \in Call
    BY <2>1, WithQcCall, FinalizedCall
  <2> QED
    BY <1>3, <2>2 DEF Assemble, CallsTypeOK
<1>4. ASSUME NEW c \in Clients, AskToApply(c)
      PROVE  CallsTypeOK'
  <2>1. PICK m \in Outstanding(c) :
          \/ call' = [call EXCEPT ![c] = AppliedAt(call[c], m.node)]
          \/ call' = [call EXCEPT ![c] = NoCall]
    BY <1>4 DEF AskToApply
  <2>2. AppliedAt(call[c], m.node) \in Call \cup {NoCall}
    BY OutstandingTypes, AppliedAtCall
  <2> QED
    BY <1>4, <2>1, <2>2 DEF AskToApply, CallsTypeOK
<1>5. ASSUME NEW c \in Clients, RpcFails(c)
      PROVE  CallsTypeOK'
  <2>1. PICK m \in Outstanding(c) : late' = late \cup {m}
    BY <1>5 DEF RpcFails
  <2>2. late' \subseteq {x \in Request : x.kind \in Phases => x.node \in Honest}
    BY <2>1, OutstandingTypes DEF CallsTypeOK
  <2> QED
    BY <1>5, <2>2, FinalizeAssumption DEF FinalizeAssumption, RpcFails, CallsTypeOK
<1>6. ASSUME NEW m \in late, ServeLate(m)
      PROVE  CallsTypeOK'
  BY <1>6 DEF ServeLate, CallsTypeOK
<1>7. CASE UNCHANGED fvars
  BY <1>7 DEF fvars, CallsTypeOK
<1> QED
  BY <1>1, <1>2, <1>3, <1>4, <1>5, <1>6, <1>7 DEF FNext, Proceed

-----------------------------------------------------------------------------
(* The clients do nothing Node does not allow                              *)

\* Serving a well-formed request is a step of the node, or changes nothing.
LEMMA ServingIsAStep ==
  ASSUME NEW m \in Request, m.kind \in Phases => m.node \in Honest,
         Grants(m) \/ Refuses(m)
  PROVE  [Next]_vars
<1>1. /\ m.node \in Validators /\ m.round \in Rounds /\ m.intent \in Intents
      /\ m.qc \in SUBSET Validators
  BY DEF Request
<1>2. CASE m.kind = "prevote" /\ Prevote(m.node, m.round, m.intent)
  BY <1>1, <1>2 DEF Next, Phases
<1>3. CASE m.kind = "precommit" /\ Precommit(m.node, m.round, m.intent, m.qc)
  BY <1>1, <1>3 DEF Next, Phases
<1>4. CASE m.kind = "apply" /\ Apply(m.node, m.intent)
  BY <1>1, <1>4 DEF Next
<1> QED
  BY <1>2, <1>3, <1>4 DEF Grants, Refuses, Handles

\* Every step of the system is a step of one node, or leaves all nodes alone.
LEMMA ClientStepIsNodeStep ==
  ASSUME CallsTypeOK, [FNext]_fvars
  PROVE  [Next]_vars
<1>1. ASSUME NEW c \in Clients, Start(c) \/ RpcFails(c) \/ Assemble(c)
      PROVE  UNCHANGED vars
  BY <1>1 DEF Start, RpcFails, Assemble
<1>2. ASSUME NEW c \in Clients, AskForVote(c) \/ AskToApply(c)
      PROVE  [Next]_vars
  <2>1. PICK m \in Outstanding(c) : Grants(m) \/ Refuses(m)
    BY <1>2 DEF AskForVote, AskToApply
  <2> QED
    BY <2>1, OutstandingTypes, ServingIsAStep
<1>3. ASSUME NEW m \in late, ServeLate(m)
      PROVE  [Next]_vars
  BY <1>3, ServingIsAStep DEF ServeLate, CallsTypeOK
<1>4. CASE UNCHANGED fvars
  BY <1>4 DEF fvars
<1> QED
  BY <1>1, <1>2, <1>3, <1>4 DEF FNext, Proceed

-----------------------------------------------------------------------------
(* Every call's record is backed by shares that were issued                *)

\* What the votes and certificates of a call's record stand for.
Backed(k) ==
  /\ k.stage = "prevote" =>
       \A v \in k.signers : Obtainable(v, "prevote", k.round, k.intent, {})
  /\ k.stage = "precommit" =>
       /\ PrevoteQc(k.round, k.intent, k.qc)
       /\ k.signers \subseteq Precommitters(k.round, k.intent, k.qc)
  /\ k.stage = "apply" => FinalityChain(k.round, k.intent, k.qc)

CallsBacked == \A c \in Clients : Backed(call[c])

\* Nodes only ever add shares.
LEMMA SharesRemain ==
  ASSUME [Next]_vars
  PROVE  shares \subseteq shares'
BY DEF Next, vars, Prevote, Precommit, Apply, Issue

\* So what backs a record goes on backing it.
LEMMA BackedRemains ==
  ASSUME shares \subseteq shares', NEW CONSTANT k, Backed(k)
  PROVE  Backed(k)'
<1>1. ASSUME NEW CONSTANT v, NEW CONSTANT p, NEW CONSTANT J,
             Obtainable(v, p, k.round, k.intent, J)
      PROVE  Obtainable(v, p, k.round, k.intent, J)'
  BY <1>1 DEF Obtainable, ShareOf
<1>2. PrevoteQc(k.round, k.intent, k.qc) => PrevoteQc(k.round, k.intent, k.qc)'
  BY <1>1 DEF PrevoteQc, IsQuorum
<1>3. /\ Precommitters(k.round, k.intent, k.qc)
           \subseteq Precommitters(k.round, k.intent, k.qc)'
      /\ Precommitters(k.round, k.intent, k.qc)' \subseteq Validators
  BY <1>1 DEF Precommitters
<1>4. FinalityChain(k.round, k.intent, k.qc) => FinalityChain(k.round, k.intent, k.qc)'
  <2> SUFFICES ASSUME FinalityChain(k.round, k.intent, k.qc)
               PROVE  FinalityChain(k.round, k.intent, k.qc)'
    OBVIOUS
  <2>1. IsQuorum(Precommitters(k.round, k.intent, k.qc)')
    BY <1>3, LargerSignerSet DEF FinalityChain
  <2> QED
    BY <1>2, <2>1 DEF FinalityChain, IsQuorum
<1> QED
  BY <1>1, <1>2, <1>3, <1>4 DEF Backed

\* A vote a contact grants is a share it has issued.
LEMMA GrantedVoteIsIssued ==
  ASSUME NEW m, Grants(m), m.kind \in Phases
  PROVE  Obtainable(m.node, m.kind, m.round, m.intent,
                    IF m.kind = "prevote" THEN {} ELSE m.qc)'
<1>1. CASE m.kind = "prevote"
  BY <1>1 DEF Grants, Handles, Repeats, Prevote, Issue, Obtainable, Phases
<1>2. CASE m.kind = "precommit"
  BY <1>2 DEF Grants, Handles, Repeats, Precommit, Issue, Obtainable, Phases
<1> QED
  BY <1>1, <1>2 DEF Phases

\* No call, no claim.
LEMMA NoCallIsBacked == Backed(NoCall) /\ Backed(NoCall)'
BY DEF Backed, NoCall

\* One call's record changes to a backed one, and the others stay backed.
LEMMA OneCallChanges ==
  ASSUME CallsTypeOK, CallsBacked, [Next]_vars, NEW CONSTANT c \in Clients,
         NEW CONSTANT n, call' = [call EXCEPT ![c] = n], Backed(n)'
  PROVE  CallsBacked'
<1> SUFFICES ASSUME NEW CONSTANT d \in Clients
             PROVE  Backed(call[d])'
  BY DEF CallsBacked
<1>1. PICK k : k = call[d]
  OBVIOUS
<1>2. Backed(k)'
  BY <1>1, SharesRemain, BackedRemains DEF CallsBacked
<1>3. call'[d] = IF d = c THEN n ELSE k
  BY <1>1 DEF CallsTypeOK
<1>4. CASE d = c
  BY <1>3, <1>4 DEF Backed
<1>5. CASE d # c
  BY <1>2, <1>3, <1>5 DEF Backed
<1> QED
  BY <1>4, <1>5

\* Nothing is claimed at first ...
LEMMA CallsBackedInit == FInit => CallsBacked
BY DEF FInit, CallsBacked, Backed, NoCall

\* ... and every step of a client only claims what it has.
LEMMA CallsBackedStep ==
  ASSUME CallsTypeOK, CallsBacked, [FNext]_fvars
  PROVE  CallsBacked'
<1>1. [Next]_vars
  BY ClientStepIsNodeStep
<1>2. \A c \in Clients : call[c] \in Call \cup {NoCall} /\ Backed(call[c])
  BY DEF CallsTypeOK, CallsBacked
<1>3. \A k : Backed(k) => Backed(k)'
  BY <1>1, SharesRemain, BackedRemains
<1>4. ASSUME NEW CONSTANT c \in Clients, Start(c)
      PROVE  CallsBacked'
  <2>1. PICK i \in Authorized, r \in Rounds, contacts \in ContactLists :
          call' = [call EXCEPT ![c] = NewCall(r, i, contacts)]
    BY <1>4 DEF Start
  <2>2. Backed(NewCall(r, i, contacts))'
    BY DEF Backed, NewCall
  <2> QED
    BY <1>1, <2>1, <2>2, OneCallChanges
<1>5. ASSUME NEW CONSTANT c \in Clients, AskForVote(c)
      PROVE  CallsBacked'
  <2>1. PICK m \in Outstanding(c) :
          \/ Grants(m) /\ call' = [call EXCEPT ![c] = Answered(call[c], {m.node})]
          \/ call' = [call EXCEPT ![c] = Answered(call[c], {})]
    BY <1>5 DEF AskForVote
  <2>2. PICK k : k = call[c]
    OBVIOUS
  <2>3. /\ k \in Call /\ Backed(k)' /\ k.stage \in Phases
        /\ m = RequestTo(c, m.node) /\ m.node \in Validators
    BY <1>2, <1>3, <1>5, <2>2, OutstandingTypes DEF AskForVote, Request
  <2>4. m.kind = k.stage /\ m.round = k.round /\ m.intent = k.intent /\ m.qc = k.qc
    BY <2>2, <2>3 DEF RequestTo
  <2>5. CASE Grants(m) /\ call' = [call EXCEPT ![c] = Answered(k, {m.node})]
    <3> DEFINE n == Answered(k, {m.node})
    <3>1. /\ n.stage = k.stage /\ n.round = k.round /\ n.intent = k.intent
          /\ n.qc = k.qc /\ n.signers = k.signers \cup {m.node}
      BY <2>3, AnsweredCall
    <3>2. Obtainable(m.node, k.stage, k.round, k.intent,
                     IF k.stage = "prevote" THEN {} ELSE k.qc)'
      BY <2>3, <2>4, <2>5, GrantedVoteIsIssued
    <3>3. Backed(n)'
      BY <2>3, <3>1, <3>2 DEF Backed, Phases, Precommitters
    <3> QED
      BY <1>1, <2>5, <3>3, OneCallChanges
  <2>6. CASE call' = [call EXCEPT ![c] = Answered(k, {})]
    <3>1. Backed(Answered(k, {}))'
      BY <2>3, AnsweredCall DEF Backed
    <3> QED
      BY <1>1, <2>6, <3>1, OneCallChanges
  <2> QED
    BY <2>1, <2>2, <2>5, <2>6
<1>6. ASSUME NEW CONSTANT c \in Clients, Assemble(c)
      PROVE  CallsBacked'
  <2>1. PICK k : k = call[c]
    OBVIOUS
  <2>2. k \in Call /\ Backed(k)' /\ k.stage \in Phases
    BY <1>2, <1>3, <1>6, <2>1 DEF Assemble, NoCall, Phases
  <2>3. CASE ~ IsQuorum(k.signers)
    <3>1. call' = [call EXCEPT ![c] = NoCall]
      BY <1>6, <2>1, <2>3 DEF Assemble
    <3> QED
      BY <1>1, <3>1, NoCallIsBacked, OneCallChanges
  <2>4. CASE IsQuorum(k.signers) /\ k.stage = "prevote"
    <3>1. call' = [call EXCEPT ![c] = WithQc(k)]
      BY <1>6, <2>1, <2>4 DEF Assemble
    <3>2. PrevoteQc(k.round, k.intent, k.signers)'
      BY <2>2, <2>4 DEF Backed, PrevoteQc
    <3>3. Backed(WithQc(k))'
      BY <2>2, <3>2, WithQcCall DEF Backed
    <3> QED
      BY <1>1, <3>1, <3>3, OneCallChanges
  <2>5. CASE IsQuorum(k.signers) /\ k.stage = "precommit"
    <3>1. call' = [call EXCEPT ![c] = Finalized(k)]
      BY <1>6, <2>1, <2>5 DEF Assemble
    <3>2. /\ PrevoteQc(k.round, k.intent, k.qc)'
          /\ k.signers \subseteq Precommitters(k.round, k.intent, k.qc)'
          /\ Precommitters(k.round, k.intent, k.qc)' \subseteq Validators
      BY <2>2, <2>5 DEF Backed, Precommitters
    <3>3. IsQuorum(Precommitters(k.round, k.intent, k.qc)')
      BY <2>5, <3>2, LargerSignerSet
    <3>4. FinalityChain(k.round, k.intent, k.qc)'
      BY <3>2, <3>3 DEF FinalityChain, IsQuorum
    <3>5. Backed(Finalized(k))'
      BY <2>2, <3>4, FinalizedCall DEF Backed
    <3> QED
      BY <1>1, <3>1, <3>5, OneCallChanges
  <2> QED
    BY <2>2, <2>3, <2>4, <2>5 DEF Phases
<1>7. ASSUME NEW CONSTANT c \in Clients, AskToApply(c)
      PROVE  CallsBacked'
  <2>1. PICK m \in Outstanding(c) :
          \/ call' = [call EXCEPT ![c] = AppliedAt(call[c], m.node)]
          \/ call' = [call EXCEPT ![c] = NoCall]
    BY <1>7 DEF AskToApply
  <2>2. PICK k : k = call[c]
    OBVIOUS
  <2>3. k \in Call /\ Backed(k)' /\ k.stage = "apply"
    BY <1>2, <1>3, <1>7, <2>2 DEF AskToApply, NoCall
  <2>4. Backed(AppliedAt(k, m.node))'
    BY <2>3, AppliedAtCall, NoCallIsBacked DEF Backed
  <2>5. CASE call' = [call EXCEPT ![c] = AppliedAt(k, m.node)]
    BY <1>1, <2>4, <2>5, OneCallChanges
  <2>6. CASE call' = [call EXCEPT ![c] = NoCall]
    BY <1>1, <2>6, NoCallIsBacked, OneCallChanges
  <2> QED
    BY <2>1, <2>2, <2>5, <2>6
<1>8. ASSUME NEW CONSTANT c \in Clients, RpcFails(c)
      PROVE  CallsBacked'
  BY <1>1, <1>8, NoCallIsBacked, OneCallChanges DEF RpcFails
<1>9. CASE UNCHANGED call
  <2> SUFFICES ASSUME NEW CONSTANT c \in Clients
               PROVE  Backed(call[c])'
    BY DEF CallsBacked
  <2>1. PICK k : k = call[c]
    OBVIOUS
  <2>2. Backed(k)'
    BY <1>2, <1>3, <2>1
  <2> QED
    BY <1>9, <2>1, <2>2 DEF Backed
<1> QED
  BY <1>4, <1>5, <1>6, <1>7, <1>8, <1>9 DEF FNext, Proceed, ServeLate, fvars

-----------------------------------------------------------------------------
(* Theorems                                                                *)

\* The clients' records and the late requests keep their types.
THEOREM ClientsWellFormed == FSpec => []CallsTypeOK
<1>1. FInit => CallsTypeOK
  BY CallsTypeInit
<1>2. CallsTypeOK /\ [FNext]_fvars => CallsTypeOK'
  BY CallsTypeStep
<1> QED
  BY <1>1, <1>2, PTL DEF FSpec

\* The clients of main.rs, their faults and the requests that arrive late stay
\* within what Node allows, so every theorem about Node holds of them.
THEOREM ClientsRefineNode == FSpec => ImplementsNode
<1>1. FInit => Init
  BY DEF FInit
<1>2. CallsTypeOK /\ [FNext]_fvars => [Next]_vars
  BY ClientStepIsNodeStep
<1> QED
  BY <1>1, <1>2, ClientsWellFormed, PTL DEF FSpec, ImplementsNode, Spec

\* Whatever finalize_transfer returns is a pair of linked certificates.
THEOREM ReturnedChains == FSpec => []ReturnedChainIsFinal
<1>1. FInit => CallsBacked
  BY CallsBackedInit
<1>2. CallsTypeOK /\ CallsBacked /\ [FNext]_fvars => CallsBacked'
  BY CallsBackedStep
<1>3. CallsBacked => ReturnedChainIsFinal
  BY DEF CallsBacked, Backed, ReturnedChainIsFinal
<1> QED
  BY <1>1, <1>2, <1>3, ClientsWellFormed, PTL DEF FSpec

-----------------------------------------------------------------------------
(* Why a node refuses a finalised transfer                                 *)

\* A node only ever applied intents whose input it knew: the ledger's history has
\* no gaps.
AppliedAreFunded ==
  \A v \in Validators : \A j \in applied[v] :
    InputOf[j] \in Genesis \cup UNION {OutputsOf[k] : k \in applied[v]}

\* More intents create more cells.
LEMMA MoreCreateMore ==
  ASSUME NEW I, NEW J, I \subseteq J
  PROVE  UNION {OutputsOf[k] : k \in I} \subseteq UNION {OutputsOf[k] : k \in J}
OBVIOUS

\* Applying one more intent keeps the history without gaps.
LEMMA AppliedAreFundedStep ==
  ASSUME IInv, AppliedAreFunded, [Next]_vars
  PROVE  AppliedAreFunded'
<1>1. CASE UNCHANGED applied
  BY <1>1 DEF AppliedAreFunded
<1>2. ASSUME NEW v \in Validators, NEW i \in Intents, Apply(v, i)
      PROVE  AppliedAreFunded'
  <2>1. /\ InputOf[i] \in Genesis \cup UNION {OutputsOf[k] : k \in applied[v]}
        /\ applied' = [applied EXCEPT ![v] = @ \cup {i}]
    BY <1>2, LiveIsFunded DEF Apply, AcceptsApply, IInv
  <2>2. \A w \in Validators : /\ applied[w] \subseteq applied'[w]
                              /\ applied'[w] \subseteq applied[w] \cup {i}
                              /\ w # v => applied'[w] = applied[w]
    <3>1. applied \in [Validators -> SUBSET Intents]
      BY DEF IInv, VotingInv, TypeOK
    <3>2. applied' = [w \in Validators |->
                       IF w = v THEN applied[w] \cup {i} ELSE applied[w]]
      BY <2>1, <3>1
    <3> QED
      BY <3>2
  <2> SUFFICES ASSUME NEW w \in Validators, NEW j \in applied'[w]
               PROVE  InputOf[j] \in Genesis \cup UNION {OutputsOf[k] : k \in applied'[w]}
    BY DEF AppliedAreFunded
  <2>3. UNION {OutputsOf[k] : k \in applied[w]}
          \subseteq UNION {OutputsOf[k] : k \in applied'[w]}
    <3>1. applied[w] \subseteq applied'[w]
      BY <2>2
    <3> QED
      BY <3>1, MoreCreateMore
  <2>4. CASE j \in applied[w]
    BY <2>3, <2>4 DEF AppliedAreFunded
  <2>5. CASE j \notin applied[w]
    BY <2>1, <2>2, <2>3, <2>5
  <2> QED
    BY <2>4, <2>5
<1> QED
  BY <1>1, <1>2 DEF Next, vars, Prevote, Precommit

\* A node that has the history of a certified intent's input, and room, accepts it
\* or has applied it.
LEMMA CertifiedIsAccepted ==
  ASSUME IInv, AppliedAreFunded, NEW v \in Validators, NEW i \in Certified,
         i \notin applied[v], ~ Behind(v, i), ~ Full(v, i)
  PROVE  AcceptsApply(v, i)
<1>1. i \in Authorized /\ i \in Intents
  BY CertifiedAreAuthorized DEF OnlyAuthorizedCertified, IInv, Certified
<1>2. applied[v] \subseteq Certified /\ applied[v] \subseteq Intents
  BY DEF IInv, VotingInv, LedgerInv, AppliedAreCertified, TypeOK
<1>3. live[v] = (Genesis \cup UNION {OutputsOf[j] : j \in applied[v]})
                  \ {InputOf[j] : j \in applied[v]}
  BY DEF IInv, LedgerInv, LedgerFollowsApplied
<1>4. \A j \in applied[v] : InputOf[j] # InputOf[i]
  BY <1>2, CertifiedDoNotConflict DEF AtMostOneCertified, Conflicting, IInv
<1>5. InputOf[i] \in Genesis \cup UNION {OutputsOf[j] : j \in applied[v]}
  BY DEF Behind
<1>6. InputOf[i] \in live[v]
  BY <1>3, <1>4, <1>5
<1>7. KnownIds(v) \subseteq Genesis \cup UNION {OutputsOf[j] : j \in applied[v]}
  BY <1>3 DEF KnownIds, AppliedAreFunded
<1>8. OutputsOf[i] \cap KnownIds(v) = {}
  <2>1. OutputsOf[i] \cap Genesis = {}
    BY <1>1, NodeAssumption DEF NodeAssumption
  <2>2. \A j \in applied[v] : OutputsOf[i] \cap OutputsOf[j] = {}
    BY <1>1, <1>2, NodeAssumption DEF NodeAssumption
  <2> QED
    BY <1>7, <2>1, <2>2
<1> QED
  BY <1>1, <1>6, <1>8 DEF AcceptsApply, Certified, Full

\* A node refuses a finalised transfer only if it missed the transfer that created
\* the input, or its state is full: never because of a conflict, a repeat or the
\* order in which independent transfers reach it.
THEOREM FinalisedIsNotRefused == FSpec => []ApplyFailsOnlyBehind
<1>1. FInit => CallsBacked
  BY CallsBackedInit
<1>2. CallsTypeOK /\ CallsBacked /\ [FNext]_fvars => CallsBacked'
  BY CallsBackedStep
<1>3. FInit => AppliedAreFunded
  BY DEF FInit, Init, AppliedAreFunded
<1>4. CallsTypeOK /\ IInv /\ AppliedAreFunded /\ [FNext]_fvars => AppliedAreFunded'
  BY ClientStepIsNodeStep, AppliedAreFundedStep
<1>5. CallsTypeOK /\ CallsBacked /\ IInv /\ AppliedAreFunded => ApplyFailsOnlyBehind
  <2> SUFFICES ASSUME CallsTypeOK, CallsBacked, IInv, AppliedAreFunded,
                      NEW c \in Clients, call[c].stage = "apply",
                      NEW m \in Outstanding(c), ~ Repeats(m),
                      ~ Behind(m.node, m.intent), ~ Full(m.node, m.intent)
               PROVE  Accepts(m)
    BY DEF ApplyFailsOnlyBehind
  <2>1. /\ call[c] \in Call /\ m \in Request /\ m.kind = "apply"
        /\ m.intent = call[c].intent
    BY OutstandingTypes DEF RequestTo
  <2>2. FinalityChain(call[c].round, call[c].intent, call[c].qc)
    BY DEF CallsBacked, Backed
  <2>3. m.intent \in Certified
    BY <2>1, <2>2, ChainCertifies DEF Call
  <2>4. m.intent \notin applied[m.node] /\ m.node \in Validators
    BY <2>1 DEF Repeats, Request
  <2> QED
    BY <2>1, <2>3, <2>4, CertifiedIsAccepted DEF Accepts
<1>6. FSpec => []IInv
  BY ClientsRefineNode, InductiveInvariant, PTL DEF ImplementsNode
<1> QED
  BY <1>1, <1>2, <1>3, <1>4, <1>5, <1>6, ClientsWellFormed, PTL DEF FSpec

\* With overlapping calls, failed requests and late ones, conflicting transfers are
\* never both certified, and no two nodes apply conflicting ones.
THEOREM ClientsNeverDoubleSpend ==
  FSpec => [](AtMostOneCertified /\ NodesNeverFork)
BY ClientsRefineNode, AtMostOneSuccessor, LedgersAgree, PTL DEF ImplementsNode

-----------------------------------------------------------------------------
(* The processes of the Phase A controller (PhaseA).                       *)

\* The stages that run no thread of requests.
Threadless == {"mkdir", "start", "kill", "restart", "shutdown", "drop", "end"}

AllStages ==
  {"owners", "split", "bob", "opposing", "conflict", "apply", "again", "bench", "schedules",
   "query"} \cup Threadless

StageOK ==
  /\ stage \in AllStages
  /\ stage \in Threadless => threads = <<>>
  /\ outcome # "running" <=> stage = "end"

\* Only a start, or a restart, waits for a process, for one, which is not among those held.
StartingOK ==
  /\ starting # {} => stage \in {"start", "restart"}
  /\ \A v, w \in starting : v = w
  /\ starting \cap handles = {}
  /\ stage = "mkdir" => handles = {}

\* Only the end of a cluster waits for a process that could not be killed; and a process
\* that was let go of ends the campaign, if need be through a shutdown that fails.
RefusedOK ==
  /\ awaited # {} => stage \in {"shutdown", "drop"}
  /\ awaited \cap handles = {}
  /\ \A v, w \in awaited : v = w
  /\ unheld # {} => stage \in {"drop", "end"} \/ (stage = "shutdown" /\ failing)
  /\ unheld # {} => trouble > 0

\* A validator has the process that is held, being started, waited for or let go of,
\* which may have died, and no other.
ProcessesOK ==
  /\ running \in [Validators -> {0, 1}]
  /\ \A v \in Validators :
       v \notin handles \cup starting \cup awaited \cup unheld => running[v] = 0

EndOK ==
  /\ stage = "end" => handles = {} /\ root # "present"
  /\ outcome = "passed" => root = "absent" /\ unheld = {}

ProcessInv == StageOK /\ StartingOK /\ RefusedOK /\ ProcessesOK /\ EndOK /\ trouble \in Nat

\* The stages follow each other in the order of the script, which begins with the start.
LEMMA NextStage ==
  ASSUME NEW s \in AllStages, s \notin {"mkdir", "shutdown", "drop", "end"}
  PROVE  After(s) \in AllStages \ {"mkdir", "start", "drop", "end"}
<1> DEFINE P(n) == n > 1 /\ Stages[n - 1] = s
<1>1. Len(Stages) = 14 BY DEF Stages
<1>2. \E n \in 1..Len(Stages) : P(n)
  BY <1>1 DEF Stages, AllStages, Threadless
<1>3. PICK m \in 1..Len(Stages) : m = (CHOOSE n \in 1..Len(Stages) : P(n)) /\ P(m)
  BY <1>2
<1>4. m \in 2..14 BY <1>1, <1>3
<1>5. Stages[m] \in AllStages \ {"mkdir", "start", "drop", "end"}
  BY <1>4 DEF Stages, AllStages, Threadless
<1>6. After(s) = Stages[m] BY <1>3 DEF After
<1> QED BY <1>5, <1>6

\* A stage without a script has no thread.
LEMMA EnterThreadless ==
  ASSUME NEW s, Enter(s), s \in AllStages
  PROVE  stage' = s /\ (s \in Threadless => threads' = <<>>)
<1>1. stage' = s BY DEF Enter
<1>2. ASSUME s \in Threadless PROVE threads' = <<>>
  <2>1. Script(s) = <<>> BY <1>2 DEF Script, Threadless
  <2>2. threads' = [n \in DOMAIN Script(s) |-> [todo |-> Script(s)[n], kept |-> {}]]
    BY DEF Enter
  <2> QED BY <2>1, <2>2
<1> QED BY <1>1, <1>2

\* What happens to a single process changes nothing about the others.
LEMMA OneProcess ==
  ASSUME ProcessInv, NEW v,
         \/ Ended(v)
         \/ Awaited(v) /\ awaited = {}
         \/ LetGo(v)
  PROVE  /\ running' \in [Validators -> {0, 1}]
         /\ unheld' \in {unheld, unheld \cup {v}} /\ awaited' \in {awaited, {v}}
         /\ \A w \in Validators \ {v} : running'[w] = running[w]
         /\ v \in Validators => running'[v] = 0 \/ v \in awaited' \cup unheld'
         /\ awaited' = awaited \/ awaited = {}
<1>1. running \in [Validators -> {0, 1}] BY DEF ProcessInv, ProcessesOK
<1>2. CASE Ended(v)
  <2>1. \A w \in Validators : running'[w] = IF w = v THEN 0 ELSE running[w]
    BY <1>1, <1>2 DEF Ended
  <2>2. running' = [w \in Validators |-> running'[w]] BY <1>1, <1>2, Zenon DEF Ended
  <2>3. running' \in [Validators -> {0, 1}] BY <1>1, <2>1, <2>2
  <2> QED BY <1>2, <2>1, <2>3 DEF Ended
<1>3. CASE Awaited(v) /\ awaited = {} BY <1>1, <1>3 DEF Awaited
<1>4. CASE LetGo(v) BY <1>1, <1>4 DEF LetGo
<1> QED BY <1>2, <1>3, <1>4

\* No process runs at first.
LEMMA ProcessInit == LabInit => ProcessInv
<1> SUFFICES ASSUME LabInit PROVE ProcessInv OBVIOUS
<1> QED
  BY DEF LabInit, ProcessInv, StageOK, StartingOK, RefusedOK, ProcessesOK, EndOK,
              AllStages, Threadless

\* A failure is counted.
LEMMA TroubleCounts ==
  ASSUME trouble \in Nat, Trouble
  PROVE  trouble' \in Nat /\ trouble' > 0
BY PhaseAAssumption DEF Trouble, PhaseAAssumption

\* The threads and the stages they make up leave the processes alone.
LEMMA ThreadStep ==
  ASSUME ProcessInv,
         \/ \E n \in DOMAIN threads : RequestServed(n) \/ RequestFails(n)
         \/ SpawnThread \/ SpawnThreadFails \/ EndStage \/ UNCHANGED labVars
  PROVE  ProcessInv'
<1>1. UNCHANGED processVars
  BY DEF RequestServed, RequestFails, SpawnThread, SpawnThreadFails, EndStage, labVars, processVars
<1>2. outcome' = outcome
  BY DEF RequestServed, RequestFails, SpawnThread, SpawnThreadFails, EndStage, labVars
<1>3. trouble' \in {trouble, trouble + 1} /\ trouble \in Nat
  BY DEF ProcessInv, RequestServed, RequestFails, SpawnThread, SpawnThreadFails, EndStage, labVars
<1>4. CASE /\ stage' = stage
           /\ stage \in Threadless => threads' = threads /\ failing' = failing
  BY <1>1, <1>2, <1>3, <1>4 DEF processVars, ProcessInv, StageOK, StartingOK, RefusedOK,
                          ProcessesOK, EndOK, Threadless
<1>5. CASE \E n \in DOMAIN threads : RequestServed(n) \/ RequestFails(n)
  <2>1. stage' = stage BY <1>5 DEF RequestServed, RequestFails
  <2>2. stage \notin Threadless BY <1>5 DEF ProcessInv, StageOK
  <2> QED BY <1>4, <2>1, <2>2
<1>6. CASE SpawnThread \/ UNCHANGED labVars
  BY <1>4, <1>6 DEF SpawnThread, labVars
<1>7. CASE SpawnThreadFails
  <2>1. stage' = stage /\ threads' = threads BY <1>7 DEF SpawnThreadFails
  <2>2. failing' BY <1>7 DEF SpawnThreadFails
  <2> QED
    BY <1>1, <1>2, <1>3, <2>1, <2>2
    DEF processVars, ProcessInv, StageOK, StartingOK, RefusedOK, ProcessesOK, EndOK, Threadless
<1>8. CASE EndStage
  <2>1. threads # <<>> /\ (Enter(After(stage)) \/ Enter("drop"))
    BY <1>8 DEF EndStage, Joined
  <2>2. stage \notin Threadless BY <2>1 DEF ProcessInv, StageOK
  <2>3. After(stage) \in AllStages \ {"mkdir", "start", "drop", "end"}
    BY <2>2, NextStage DEF ProcessInv, StageOK, Threadless
  <2>4. PICK s \in AllStages \ {"mkdir", "start", "end"} : Enter(s)
    BY <2>1, <2>3 DEF AllStages, Threadless
  <2>5. stage' = s /\ (s \in Threadless => threads' = <<>>)
    BY <2>4, EnterThreadless
  <2>6. starting = {} /\ awaited = {} /\ unheld = {} /\ outcome = "running"
    BY <2>2 DEF ProcessInv, StageOK, StartingOK, RefusedOK, Threadless
  <2> QED
    BY <1>1, <1>2, <1>3, <2>2, <2>4, <2>5, <2>6
    DEF processVars, ProcessInv, StageOK, StartingOK, RefusedOK, ProcessesOK, EndOK, Threadless
<1> QED BY <1>5, <1>6, <1>7, <1>8

\* A validator is spawned or cannot be, gets ready or does not, dies, or ends after a wait.
LEMMA ValidatorStep ==
  ASSUME ProcessInv,
         \/ SpawnNode \/ SpawnNodeFails \/ NodeReady \/ NodeNotReady \/ NodeDies \/ WaitReturns
  PROVE  ProcessInv'
<1>1. CASE SpawnNode
  <2>1. /\ stage \in {"start", "restart"} /\ starting = {}
        /\ UNCHANGED <<stage, threads, failing, outcome, handles, root, awaited, unheld, trouble>>
    BY <1>1 DEF SpawnNode, threadVars
  <2>2. PICK v : /\ v \notin handles /\ starting' = {v}
                 /\ running' = [running EXCEPT ![v] = @ + 1]
    BY <1>1 DEF SpawnNode
  <2>3. awaited = {} /\ unheld = {} BY <2>1 DEF ProcessInv, RefusedOK
  <2>4. running \in [Validators -> {0, 1}] /\ (v \in Validators => running[v] = 0)
    BY <2>1, <2>2, <2>3 DEF ProcessInv, ProcessesOK
  <2>5. ProcessesOK'
    <3>1. \A w \in Validators : running'[w] = IF w = v THEN 1 ELSE running[w]
      BY <2>2, <2>4
    <3>2. running' = [w \in Validators |-> running'[w]] BY <2>2, <2>4, Zenon
    <3>3. running' \in [Validators -> {0, 1}] BY <2>4, <3>1, <3>2
    <3>4. ASSUME NEW w \in Validators, w \notin handles \cup starting'
          PROVE  running'[w] = 0
      BY <2>1, <2>2, <2>3, <3>1, <3>4 DEF ProcessInv, ProcessesOK
    <3> QED BY <2>1, <3>3, <3>4 DEF ProcessesOK
  <2> QED
    BY <2>1, <2>2, <2>3, <2>5 DEF ProcessInv, StageOK, StartingOK, RefusedOK, EndOK
<1>2. CASE SpawnNodeFails
  <2>1. stage' = "drop" /\ threads' = <<>>
    BY <1>2, EnterThreadless DEF SpawnNodeFails, AllStages, Threadless
  <2>2. /\ stage \in {"start", "restart"} /\ starting = {} /\ Trouble
        /\ UNCHANGED <<running, handles, starting, root, awaited, unheld, outcome>>
    BY <1>2 DEF SpawnNodeFails, processVars
  <2> QED
    BY <2>1, <2>2, TroubleCounts
    DEF ProcessInv, StageOK, StartingOK, RefusedOK, ProcessesOK, EndOK, AllStages, Threadless
<1>3. CASE NodeReady
  <2>1. /\ starting # {} /\ starting' = {} /\ handles' = handles \cup starting
        /\ UNCHANGED <<running, outcome, root, awaited, unheld, trouble>>
    BY <1>3 DEF NodeReady
  <2>2. /\ stage \in {"start", "restart"} /\ awaited = {} /\ unheld = {}
        /\ outcome = "running"
    BY <2>1 DEF ProcessInv, StageOK, StartingOK, RefusedOK
  <2>3. Enter(After(stage)) \/ UNCHANGED <<stage, threads>>
    BY <1>3 DEF NodeReady, threadVars
  <2>4. /\ stage' \in AllStages \ {"mkdir", "drop", "end"}
        /\ stage' \in Threadless => threads' = <<>>
    <3>1. CASE Enter(After(stage))
      <4>1. After(stage) \in AllStages \ {"mkdir", "start", "drop", "end"}
        BY <2>2, NextStage DEF ProcessInv, StageOK
      <4> QED BY <3>1, <4>1, EnterThreadless
    <3>2. CASE UNCHANGED <<stage, threads>>
      BY <2>2, <3>2 DEF ProcessInv, StageOK
    <3> QED BY <2>3, <3>1, <3>2
  <2>5. ProcessesOK' BY <2>1, <2>2 DEF ProcessInv, ProcessesOK
  <2> QED
    BY <2>1, <2>2, <2>4, <2>5 DEF ProcessInv, StageOK, StartingOK, RefusedOK, EndOK
<1>4. CASE NodeNotReady
  <2>1. /\ Trouble /\ starting' = {} /\ Enter("drop")
        /\ UNCHANGED <<handles, outcome, root>>
    BY <1>4 DEF NodeNotReady
  <2>2. PICK v \in starting : Ended(v) \/ Awaited(v) \/ LetGo(v)
    BY <1>4 DEF NodeNotReady
  <2>3. stage' = "drop" /\ threads' = <<>>
    BY <2>1, EnterThreadless DEF AllStages, Threadless
  <2>4. stage \in {"start", "restart"} /\ awaited = {} /\ unheld = {} /\ outcome = "running"
    BY <2>2 DEF ProcessInv, StageOK, StartingOK, RefusedOK
  <2>5. /\ running' \in [Validators -> {0, 1}]
        /\ awaited' \in {{}, {v}} /\ unheld' \in {{}, {v}}
        /\ \A w \in Validators \ {v} : running'[w] = running[w]
        /\ v \in Validators => running'[v] = 0 \/ v \in awaited' \cup unheld'
    BY <2>2, <2>4, OneProcess
  <2>6. ProcessesOK'
    BY <2>1, <2>2, <2>4, <2>5 DEF ProcessInv, ProcessesOK, StartingOK
  <2> QED
    BY <2>1, <2>2, <2>3, <2>4, <2>5, <2>6, TroubleCounts
    DEF ProcessInv, StageOK, StartingOK, RefusedOK, EndOK, AllStages, Threadless
<1>5. CASE NodeDies
  <2>1. /\ Trouble
        /\ UNCHANGED <<stage, threads, failing, outcome, handles, starting, root>>
    BY <1>5 DEF NodeDies, threadVars
  <2>2. PICK v : Ended(v) BY <1>5 DEF NodeDies
  <2>3. UNCHANGED <<awaited, unheld>> BY <2>2 DEF Ended
  <2>4. /\ running' \in [Validators -> {0, 1}]
        /\ \A w \in Validators : running'[w] \in {0, running[w]}
    BY <2>2, OneProcess DEF Ended, ProcessInv, ProcessesOK
  <2>5. ProcessesOK' BY <2>1, <2>3, <2>4 DEF ProcessInv, ProcessesOK
  <2> QED
    BY <2>1, <2>3, <2>5, TroubleCounts DEF ProcessInv, StageOK, StartingOK, RefusedOK, EndOK
<1>6. CASE WaitReturns
  <2>1. /\ awaited' = {}
        /\ UNCHANGED <<stage, threads, failing, outcome, handles, starting, root, unheld, trouble>>
    BY <1>6 DEF WaitReturns, threadVars
  <2>2. PICK v \in awaited : running' = [running EXCEPT ![v] = 0]
    BY <1>6 DEF WaitReturns
  <2>3. awaited = {v} BY <2>2 DEF ProcessInv, RefusedOK
  <2>4. running \in [Validators -> {0, 1}] BY DEF ProcessInv, ProcessesOK
  <2>5. \A w \in Validators : running'[w] = IF w = v THEN 0 ELSE running[w] BY <2>2, <2>4
  <2>6. running' = [w \in Validators |-> running'[w]] BY <2>2, <2>4, Zenon
  <2>7. running' \in [Validators -> {0, 1}] BY <2>4, <2>5, <2>6
  <2>8. ProcessesOK' BY <2>1, <2>3, <2>5, <2>7 DEF ProcessInv, ProcessesOK
  <2> QED
    BY <2>1, <2>8 DEF ProcessInv, StageOK, StartingOK, RefusedOK, EndOK
<1> QED BY <1>1, <1>2, <1>3, <1>4, <1>5, <1>6

\* The controller makes its directory, kills a validator to restart it, or all of them.
LEMMA ClusterStep ==
  ASSUME ProcessInv,
         \/ MakeRoot \/ MakeRootFails \/ KillForRestart \/ EndNode
         \/ Shutdown \/ ShutdownFails \/ Drop
  PROVE  ProcessInv'
<1>1. CASE MakeRoot \/ MakeRootFails
  <2>1. PICK s \in {"start", "end"} :
          /\ stage = "mkdir" /\ Enter(s)
          /\ s = "start" => UNCHANGED <<outcome, trouble>>
          /\ s = "end" => outcome' = "error" /\ Trouble /\ root' # "present"
          /\ UNCHANGED <<running, handles, starting, awaited, unheld>>
    BY <1>1 DEF MakeRoot, MakeRootFails
  <2>2. stage' = s /\ threads' = <<>>
    BY <2>1, EnterThreadless DEF AllStages, Threadless
  <2>3. starting = {} /\ awaited = {} /\ unheld = {} /\ outcome = "running" /\ handles = {}
    BY <2>1 DEF ProcessInv, StageOK, StartingOK, RefusedOK
  <2>4. trouble' \in Nat BY <2>1, TroubleCounts DEF ProcessInv
  <2> QED
    BY <2>1, <2>2, <2>3, <2>4
    DEF ProcessInv, StageOK, StartingOK, RefusedOK, ProcessesOK, EndOK, AllStages, Threadless
<1>2. CASE KillForRestart
  <2>1. /\ stage = "kill" /\ handles' = handles \ {Restarted}
        /\ UNCHANGED <<starting, outcome, root>>
    BY <1>2 DEF KillForRestart
  <2>2. PICK s \in {"restart", "drop"} :
          /\ Enter(s) /\ (Ended(Restarted) \/ LetGo(Restarted))
          /\ s = "restart" => Ended(Restarted) /\ UNCHANGED trouble
          /\ s = "drop" => Trouble
    BY <1>2 DEF KillForRestart
  <2>3. stage' = s /\ threads' = <<>>
    BY <2>2, EnterThreadless DEF AllStages, Threadless
  <2>4. starting = {} /\ awaited = {} /\ unheld = {} /\ outcome = "running"
    BY <2>1 DEF ProcessInv, StageOK, StartingOK, RefusedOK
  <2>5. /\ running' \in [Validators -> {0, 1}] /\ awaited' = {}
        /\ \A w \in Validators \ {Restarted} : running'[w] = running[w]
        /\ Restarted \in Validators => running'[Restarted] = 0 \/ Restarted \in unheld'
    BY <2>2, <2>4, OneProcess DEF Ended, LetGo
  <2>6. s = "restart" => unheld' = {} BY <2>2, <2>4 DEF Ended
  <2>7. ProcessesOK' BY <2>1, <2>4, <2>5 DEF ProcessInv, ProcessesOK
  <2>8. trouble' \in Nat /\ (unheld' # {} => trouble' > 0)
    BY <2>2, <2>6, TroubleCounts DEF ProcessInv
  <2> QED
    BY <2>1, <2>2, <2>3, <2>4, <2>5, <2>6, <2>7, <2>8
    DEF ProcessInv, StageOK, StartingOK, RefusedOK, EndOK, AllStages, Threadless
<1>3. CASE EndNode
  <2>1. /\ stage \in {"shutdown", "drop"} /\ awaited = {}
        /\ UNCHANGED <<stage, threads, starting, root, outcome>>
    BY <1>3 DEF EndNode
  <2>2. PICK v : /\ v \in handles /\ handles' = handles \ {v}
                 /\ \/ Ended(v) /\ failing' = (failing \/ running[v] = 0) /\ UNCHANGED trouble
                    \/ /\ Trouble
                       /\ Ended(v) \/ Awaited(v) \/ LetGo(v)
                       /\ failing' = TRUE
    BY <1>3 DEF EndNode
  <2>3. /\ running' \in [Validators -> {0, 1}] /\ awaited' \in {{}, {v}}
        /\ \A w \in Validators \ {v} : running'[w] = running[w]
        /\ v \in Validators => running'[v] = 0 \/ v \in awaited' \cup unheld'
        /\ unheld' \in {unheld, unheld \cup {v}}
    BY <2>1, <2>2, OneProcess
  <2>4. starting = {} BY <2>1 DEF ProcessInv, StartingOK
  <2>5. ProcessesOK' BY <2>1, <2>2, <2>3, <2>4 DEF ProcessInv, ProcessesOK
  <2>6. trouble' \in Nat /\ (unheld' # unheld => trouble' > 0 /\ failing')
    BY <2>2, TroubleCounts DEF ProcessInv, Ended
  <2>7. (failing => failing') /\ (trouble > 0 => trouble' > 0)
    BY <2>2, TroubleCounts DEF ProcessInv
  <2> QED
    BY <2>1, <2>2, <2>3, <2>4, <2>5, <2>6, <2>7
    DEF ProcessInv, StageOK, StartingOK, RefusedOK, EndOK
<1>4. ASSUME handles = {}, awaited = {}, UNCHANGED <<running, handles, starting, awaited, unheld>>,
             NEW s \in {"mkdir", "drop", "end"}, Enter(s), stage \in {"shutdown", "drop"},
             outcome' # "running" <=> s = "end", s = "end" => root' # "present",
             outcome' = "passed" => root' = "absent",
             unheld # {} => s \in {"drop", "end"} /\ outcome' # "passed",
             trouble' = trouble \/ Trouble
      PROVE  ProcessInv'
  <2>1. stage' = s /\ threads' = <<>> BY <1>4, EnterThreadless DEF AllStages, Threadless
  <2>2. starting = {} BY <1>4 DEF ProcessInv, StartingOK
  <2>3. trouble' \in Nat /\ (trouble > 0 => trouble' > 0)
    BY <1>4, TroubleCounts DEF ProcessInv
  <2> QED
    BY <1>4, <2>1, <2>2, <2>3
    DEF ProcessInv, StageOK, StartingOK, RefusedOK, ProcessesOK, EndOK, AllStages, Threadless
<1>5. outcome = "running" \/ stage = "end" BY DEF ProcessInv, StageOK
<1>6. CASE Shutdown
  <2>1. unheld = {} BY <1>6 DEF Shutdown, ProcessInv, RefusedOK
  <2>2. \/ Enter("mkdir") /\ UNCHANGED outcome
        \/ Enter("end") /\ outcome' \in {"passed", "error"}
    BY <1>6 DEF Shutdown
  <2>3. /\ handles = {} /\ awaited = {} /\ stage = "shutdown" /\ root' = "absent"
        /\ UNCHANGED <<running, handles, starting, awaited, unheld, trouble>>
    BY <1>6 DEF Shutdown, AllEnded
  <2> QED BY <1>4, <1>5, <2>1, <2>2, <2>3
<1>7. CASE ShutdownFails
  BY <1>4, <1>5, <1>7 DEF ShutdownFails, AllEnded, processVars
<1>8. CASE Drop
  BY <1>4, <1>8 DEF Drop, AllEnded
<1> QED BY <1>1, <1>2, <1>3, <1>6, <1>7, <1>8

\* For any committee, script and number of failures: no two processes of one validator
\* ever run; wherever the campaign stops, every process it has started has ended and its
\* directory is gone, but for those the system refused to poll, kill or remove; and a
\* campaign that passes has left nothing (Cluster, its restart, shutdown and drop).
THEOREM NothingOutlivesTheCampaign == LabSpec => []NothingLeftBehind
<1>1. ProcessInv => NothingLeftBehind
  BY DEF ProcessInv, StageOK, StartingOK, RefusedOK, ProcessesOK, EndOK, NothingLeftBehind
<1>2. ProcessInv /\ [LabNext]_labVars => ProcessInv'
  BY ThreadStep, ValidatorStep, ClusterStep DEF LabNext, LabStep
<1> QED BY <1>1, <1>2, ProcessInit, PTL DEF LabSpec

-----------------------------------------------------------------------------
(* The campaign as a client of the nodes (PhaseA).                         *)

\* The stages that finalise transfers, and those with a finalisation behind them.
Finalizers == {"bob", "bench"}
FromBench == {"bench", "schedules", "query", "shutdown", "drop", "end"}
FromBob == {"bob", "opposing", "kill", "restart", "conflict", "apply", "again"} \cup FromBench

\* What thread n of such a stage finalises.
RoundOf(s, n) == IF s = "bob" THEN 2 ELSE 99 + n
IntentOf(s, n) == IF s = "bob" THEN Bob ELSE Bench[n]

Benched == {Bench[k] : k \in DOMAIN Bench}

\* The requests thread n of stage s may have to make.
MayAsk(s, n) ==
  {m \in [kind : {"prevote", "precommit", "apply", "query"}, node : Validators,
          round : Nat, intent : Intents] :
     /\ s \in Finalizers => /\ m.kind \in Phases /\ m.node \in Honest
                            /\ m.round = RoundOf(s, n) /\ m.intent = IntentOf(s, n)
     /\ m.kind = "prevote" => m.round \in Rounds \/ m.intent \notin Authorized
     /\ m.kind = "precommit" => \/ s \in Finalizers
                                \/ s = "opposing" /\ m.intent = Charlie /\ m.node \in Honest
     /\ m.kind = "apply" => \/ s \in {"apply", "again"} /\ m.intent = Bob
                            \/ s = "schedules" /\ m.intent \in Benched}

\* All its prevotes come before its precommits.
InOrder(todo) ==
  \A j, k \in DOMAIN todo :
    j < k /\ todo[j].kind = "precommit" => todo[k].kind = "precommit"

ThreadsFit ==
  /\ DOMAIN threads = DOMAIN Script(stage)
  /\ \A n \in DOMAIN threads :
       /\ threads[n] = [todo |-> threads[n].todo, kept |-> threads[n].kept]
       /\ threads[n].todo \in Seq(MayAsk(stage, n))

PrevotesOf(n) == Voters(threads[n], "prevote")
PrecommitsOf(n) == Voters(threads[n], "precommit")

NoPrevoteLeft(n) == \A k \in DOMAIN threads[n].todo : threads[n].todo[k].kind = "precommit"

\* What a thread has been given is backed by shares, and once a precommit is out the
\* certificate it binds does not change any more.
PrevotesBacked(n) ==
  \A v \in PrevotesOf(n) : Obtainable(v, "prevote", RoundOf(stage, n), IntentOf(stage, n), {})

PrecommitsBacked(n) ==
  \A v \in PrecommitsOf(n) :
    /\ NoPrevoteLeft(n) /\ IsQuorum(PrevotesOf(n))
    /\ Obtainable(v, "precommit", RoundOf(stage, n), IntentOf(stage, n), PrevotesOf(n))
    /\ v \in Honest /\ LockedOn(v, IntentOf(stage, n))

OneCertificate(n) ==
  \A s \in shares :
    s.phase = "precommit" /\ s.round = RoundOf(stage, n) /\ s.intent = IntentOf(stage, n) =>
      NoPrevoteLeft(n) /\ s.justify = PrevotesOf(n)

ThreadBacked(n) ==
  InOrder(threads[n].todo) /\ PrevotesBacked(n) /\ PrecommitsBacked(n) /\ OneCertificate(n)

ThreadsBacked == stage \in Finalizers => \A n \in DOMAIN threads : ThreadBacked(n)

\* Bob's transfer is finalised in round 2 and the others later.
PrecommitsInTurn ==
  \A s \in shares : s.phase = "precommit" =>
    \/ s.round = 2 /\ stage \in FromBob
    \/ s.round >= 100 /\ stage \in FromBench

\* What the finished stages have come to.
SettledSoFar ==
  /\ stage \in FromBob \ {"bob", "drop", "end"} =>
       Bob \in Certified /\ \A v \in Honest : LockedOn(v, Bob)
  /\ stage \in {"schedules", "query", "shutdown"} => Benched \subseteq Certified

ScriptInv == ThreadsFit /\ ThreadsBacked /\ PrecommitsInTurn /\ SettledSoFar

-----------------------------------------------------------------------------
\* The stages in their order.
LEMMA StageOrder ==
  /\ After("start") = "owners" /\ After("owners") = "split" /\ After("split") = "bob"
  /\ After("bob") = "opposing" /\ After("opposing") = "kill" /\ After("kill") = "restart"
  /\ After("restart") = "conflict" /\ After("conflict") = "apply" /\ After("apply") = "again"
  /\ After("again") = "bench" /\ After("bench") = "schedules"
  /\ After("schedules") = "query" /\ After("query") = "shutdown"
<1>1. Len(Stages) = 14 BY DEF Stages
<1>2. ASSUME NEW m \in 2..14 PROVE After(Stages[m - 1]) = Stages[m]
  <2> DEFINE P(n) == n > 1 /\ Stages[n - 1] = Stages[m - 1]
  <2>1. m \in 1..Len(Stages) /\ P(m) BY <1>1
  <2>2. PICK k \in 1..14 : /\ k = (CHOOSE n \in 1..Len(Stages) : P(n))
                           /\ k > 1 /\ Stages[k - 1] = Stages[m - 1]
    BY <1>1, <2>1
  <2>3. k \in 2..14 BY <2>2
  <2>4. k = m
    <3>1. \A x, y \in 1..13 : Stages[x] = Stages[y] => x = y BY DEF Stages
    <3>2. k - 1 \in 1..13 /\ m - 1 \in 1..13 BY <2>3
    <3>3. k - 1 = m - 1 BY <2>2, <3>1, <3>2
    <3> QED BY <2>3, <3>3
  <2> QED BY <2>2, <2>4 DEF After
<1> QED
  <2>1. /\ Stages[1] = "start" /\ Stages[2] = "owners" /\ Stages[3] = "split"
        /\ Stages[4] = "bob" /\ Stages[5] = "opposing" /\ Stages[6] = "kill"
        /\ Stages[7] = "restart" /\ Stages[8] = "conflict" /\ Stages[9] = "apply"
        /\ Stages[10] = "again" /\ Stages[11] = "bench" /\ Stages[12] = "schedules"
        /\ Stages[13] = "query" /\ Stages[14] = "shutdown"
    BY DEF Stages
  <2>2. \A m \in 1..13 : After(Stages[m]) = Stages[m + 1]
    <3> TAKE m \in 1..13
    <3>1. m + 1 \in 2..14 /\ (m + 1) - 1 = m OBVIOUS
    <3> QED BY <1>2, <3>1
  <2>3. /\ 1 + 1 = 2 /\ 2 + 1 = 3 /\ 3 + 1 = 4 /\ 4 + 1 = 5 /\ 5 + 1 = 6 /\ 6 + 1 = 7
        /\ 7 + 1 = 8 /\ 8 + 1 = 9 /\ 9 + 1 = 10 /\ 10 + 1 = 11 /\ 11 + 1 = 12
        /\ 12 + 1 = 13 /\ 13 + 1 = 14
    OBVIOUS
  <2> HIDE DEF Stages
  <2> QED BY <2>1, <2>2, <2>3

\* A function on 1..n is a sequence.
LEMMA SeqOf ==
  ASSUME NEW S, NEW n \in Nat, NEW f \in [1..n -> S]
  PROVE  f \in Seq(S) /\ Len(f) = n
<1>1. f \in Seq(S) BY SeqDef
<1>2. DOMAIN f = 1..n /\ DOMAIN f = 1..Len(f) /\ Len(f) \in Nat BY <1>1, LenProperties
<1> QED BY <1>1, <1>2

\* The requests of one kind to the nodes of V.
AskSet(kind, V, r, i) ==
  {[kind |-> kind, node |-> v, round |-> r, intent |-> i] : v \in V}

\* Requests of one kind to a list of nodes.
LEMMA AskSeq ==
  ASSUME NEW kind, NEW V, NEW nodes \in Seq(V), NEW r, NEW i, NEW M,
         AskSet(kind, V, r, i) \subseteq M
  PROVE  Ask(kind, nodes, r, i) \in Seq(M)
<1>1. Len(nodes) \in Nat /\ DOMAIN nodes = 1..Len(nodes) /\ nodes \in [1..Len(nodes) -> V]
  BY LenProperties
<1>2. Ask(kind, nodes, r, i) \in [1..Len(nodes) -> M]
  BY <1>1 DEF Ask, AskSet
<1> QED BY <1>1, <1>2, SeqOf

\* The parties are lists of members.
LEMMA ListsFit ==
  /\ Members \in Seq(Validators) /\ HonestMembers \in Seq(Honest)
  /\ ForBob \in Seq(Honest) /\ ForCharlie \in Seq(Honest)
BY PhaseAAssumption DEF PhaseAAssumption

\* And the script names transfers and rounds there are.
LEMMA PartiesFit ==
  /\ Members \in Seq(Validators) /\ HonestMembers \in Seq(Honest)
  /\ ForBob \in Seq(Honest) /\ ForCharlie \in Seq(Honest)
  /\ Bob \in Intents /\ Charlie \in Intents
  /\ DOMAIN Members = 1..Len(Members) /\ Len(Members) \in Nat
  /\ DOMAIN Bench = 1..Len(Bench) /\ Len(Bench) \in Nat
  /\ Benched \subseteq Intents
  /\ {1, 2, 3} \subseteq Rounds
  /\ \A n \in DOMAIN Bench : Bench[n] \in Intents /\ 99 + n \in Rounds
  /\ Honest \subseteq Validators
<1>1. /\ Members \in Seq(Validators) /\ HonestMembers \in Seq(Honest)
      /\ ForBob \in Seq(Honest) /\ ForCharlie \in Seq(Honest)
      /\ Bob \in Intents /\ Charlie \in Intents
      /\ Bench \in Seq(Intents) /\ {1, 2, 3} \subseteq Rounds
      /\ \A n \in DOMAIN Bench : 99 + n \in Rounds
  BY PhaseAAssumption DEF PhaseAAssumption
<1>2. DOMAIN Members = 1..Len(Members) /\ Len(Members) \in Nat
  BY <1>1, LenProperties
<1>3. DOMAIN Bench = 1..Len(Bench) /\ Len(Bench) \in Nat /\ Bench \in [1..Len(Bench) -> Intents]
  BY <1>1, LenProperties
<1> QED BY <1>1, <1>2, <1>3 DEF Benched, Honest

\* A finalisation asks for prevotes first.
LEMMA FinalizingFits ==
  ASSUME NEW s \in Finalizers, NEW n,
         RoundOf(s, n) \in Rounds, IntentOf(s, n) \in Intents
  PROVE  /\ Finalizing(RoundOf(s, n), IntentOf(s, n)) \in Seq(MayAsk(s, n))
         /\ InOrder(Finalizing(RoundOf(s, n), IntentOf(s, n)))
<1> DEFINE r == RoundOf(s, n)  i == IntentOf(s, n)  M == MayAsk(s, n)
           a == Ask("prevote", HonestMembers, r, i)
           b == Ask("precommit", HonestMembers, r, i)
<1>1. r \in Nat BY NodeAssumption DEF NodeAssumption
<1>2. \A v \in Honest, kind \in Phases :
        [kind |-> kind, node |-> v, round |-> r, intent |-> i] \in M
  BY <1>1, PartiesFit DEF MayAsk, Phases
<1>3. /\ a \in Seq(M) /\ \A k \in DOMAIN a : a[k].kind = "prevote"
      /\ b \in Seq(M) /\ \A k \in DOMAIN b : b[k].kind = "precommit"
  <2>1. AskSet("prevote", Honest, r, i) \subseteq M /\ AskSet("precommit", Honest, r, i) \subseteq M
    BY <1>2 DEF Phases, AskSet
  <2>2. HonestMembers \in Seq(Honest) BY PartiesFit
  <2> HIDE DEF M, r, i
  <2>3. a \in Seq(M) /\ b \in Seq(M) BY <2>1, <2>2, AskSeq
  <2> QED BY <2>3 DEF Ask
<1> HIDE DEF r, i, M, a, b
<1>4. /\ Len(a) \in Nat /\ DOMAIN a = 1..Len(a) /\ Len(b) \in Nat /\ DOMAIN b = 1..Len(b)
  BY <1>3, LenProperties
<1>5. /\ a \o b \in Seq(M) /\ Len(a \o b) = Len(a) + Len(b)
      /\ \A k \in 1..Len(a) + Len(b) :
           (a \o b)[k] = IF k <= Len(a) THEN a[k] ELSE b[k - Len(a)]
  BY <1>3, ConcatProperties
<1>6. DOMAIN (a \o b) = 1..Len(a) + Len(b) BY <1>5, LenProperties
<1>7. InOrder(a \o b)
  <2> SUFFICES ASSUME NEW j \in 1..Len(a) + Len(b), NEW k \in 1..Len(a) + Len(b), j < k,
                      (a \o b)[j].kind = "precommit"
               PROVE  (a \o b)[k].kind = "precommit"
    BY <1>6 DEF InOrder
  <2>1. ~ j <= Len(a) BY <1>3, <1>4, <1>5
  <2>2. ~ k <= Len(a) /\ k - Len(a) \in DOMAIN b BY <1>4, <2>1
  <2> QED BY <1>3, <1>5, <2>2
<1> QED BY <1>5, <1>7 DEF Finalizing, a, b, r, i, M

\* Unsigned transfers are proposed to all validators in turn.
LEMMA OwnersFit ==
  ASSUME NEW n \in DOMAIN Script("owners")
  PROVE  Script("owners")[n] \in Seq(MayAsk("owners", n))
<1> DEFINE L == Len(Members)  U == Len(Unowned)
<1>1. /\ Members \in [1..L -> Validators] /\ L \in Nat
      /\ Unowned \in [1..U -> Intents \ Authorized] /\ U \in Nat
  BY PhaseAAssumption, LenProperties DEF PhaseAAssumption
<1>2. U * L \in Nat BY <1>1
<1>3. ASSUME NEW k \in 1..U * L
      PROVE  /\ ((k - 1) % L) + 1 \in 1..L /\ ((k - 1) \div L) + 1 \in 1..U
             /\ 40 + (k - 1) \div L \in Nat
  <2>1. L > 0 BY <1>1, <1>3
  <2>2. k - 1 \in Nat /\ k - 1 < U * L BY <1>2
  <2> DEFINE q == (k - 1) \div L  m == (k - 1) % L
  <2>3. q \in Nat /\ m \in 0..(L - 1) /\ k - 1 = L * q + m BY <1>1, <2>1, <2>2
  <2>4. q < U
    <3> SUFFICES ASSUME q >= U PROVE FALSE BY <1>1, <2>3
    <3> HIDE DEF q, m, L, U
    <3>1. L * q >= L * U BY <1>1, <2>3
    <3>2. L * U = U * L BY <1>1
    <3> QED BY <1>1, <2>2, <2>3, <3>1, <3>2
  <2> QED BY <1>1, <2>3, <2>4
<1> DEFINE proposal(k) == [kind |-> "prevote", node |-> Members[((k - 1) % L) + 1],
                           round |-> 40 + (k - 1) \div L,
                           intent |-> Unowned[((k - 1) \div L) + 1]]
<1>4. Script("owners")[n] = [k \in 1..U * L |-> proposal(k)]
  <2>1. Script("owners") = <<[k \in 1..U * L |-> proposal(k)]>> BY DEF Script
  <2> HIDE DEF proposal, U, L
  <2> QED BY <2>1
<1>5. ASSUME NEW k \in 1..U * L
      PROVE  Script("owners")[n][k] \in MayAsk("owners", n)
  <2> DEFINE m == ((k - 1) % L) + 1  u == ((k - 1) \div L) + 1  r == 40 + (k - 1) \div L
  <2>1. m \in 1..L /\ u \in 1..U /\ r \in Nat BY <1>3
  <2>2. Script("owners")[n][k] =
          [kind |-> "prevote", node |-> Members[m], round |-> r, intent |-> Unowned[u]]
    BY <1>4
  <2> HIDE DEF m, u, r
  <2> QED BY <1>1, <2>1, <2>2 DEF MayAsk, Finalizers
<1>6. Script("owners")[n] \in [1..U * L -> MayAsk("owners", n)] BY <1>4, <1>5
<1> QED BY <1>2, <1>6, SeqOf

\* The threads of a stage begin with requests they may have to make.
LEMMA ScriptFits ==
  ASSUME NEW s \in AllStages, NEW n \in DOMAIN Script(s)
  PROVE  /\ Script(s)[n] \in Seq(MayAsk(s, n))
         /\ s \in Finalizers => InOrder(Script(s)[n])
         /\ s = "bob" => n = 1
         /\ s = "bench" => n \in DOMAIN Bench
<1>1. CASE s = "owners" BY <1>1, OwnersFit DEF Finalizers
<1>2. CASE s = "split"
  <2>1. /\ AskSet("prevote", Honest, 1, Bob) \subseteq MayAsk(s, n)
        /\ AskSet("prevote", Honest, 1, Charlie) \subseteq MayAsk(s, n)
    BY <1>2, PartiesFit DEF AskSet, MayAsk, Finalizers
  <2>2. n \in {1, 2} /\ Script(s)[n] \in {Ask("prevote", ForBob, 1, Bob), Ask("prevote", ForCharlie, 1, Charlie)}
    BY <1>2 DEF Script
  <2>3. /\ Ask("prevote", ForBob, 1, Bob) \in Seq(MayAsk(s, n))
        /\ Ask("prevote", ForCharlie, 1, Charlie) \in Seq(MayAsk(s, n))
    BY <2>1, AskSeq, ListsFit
  <2> QED BY <1>2, <2>2, <2>3 DEF Finalizers
<1>3. CASE s = "bob"
  <2>1. n = 1 /\ Script(s)[n] = Finalizing(2, Bob) BY <1>3 DEF Script
  <2>2. RoundOf(s, n) = 2 /\ IntentOf(s, n) = Bob BY <1>3 DEF RoundOf, IntentOf
  <2> QED BY <1>3, <2>1, <2>2, FinalizingFits, PartiesFit DEF Finalizers
<1>4. CASE s = "opposing"
  <2>1. AskSet("precommit", Honest, 1, Charlie) \subseteq MayAsk(s, n)
    BY <1>4, PartiesFit DEF AskSet, MayAsk, Finalizers
  <2>2. Script(s)[n] = Ask("precommit", ForCharlie, 1, Charlie) BY <1>4 DEF Script
  <2>3. Ask("precommit", ForCharlie, 1, Charlie) \in Seq(MayAsk(s, n)) BY <2>1, AskSeq, ListsFit
  <2> QED BY <1>4, <2>2, <2>3 DEF Finalizers
<1>5. CASE s = "conflict"
  <2>1. AskSet("prevote", Validators, 3, Charlie) \subseteq MayAsk(s, n)
    BY <1>5, PartiesFit DEF AskSet, MayAsk, Finalizers
  <2>2. Script(s)[n] = Ask("prevote", Members, 3, Charlie) BY <1>5 DEF Script
  <2>3. Ask("prevote", Members, 3, Charlie) \in Seq(MayAsk(s, n)) BY <2>1, AskSeq, ListsFit
  <2> QED BY <1>5, <2>2, <2>3 DEF Finalizers
<1>6. CASE s \in {"apply", "again"}
  <2>1. AskSet("apply", Validators, 2, Bob) \subseteq MayAsk(s, n)
    BY <1>6, PartiesFit DEF AskSet, MayAsk, Finalizers
  <2>2. Script(s)[n] = Ask("apply", Members, 2, Bob) BY <1>6 DEF Script
  <2>3. Ask("apply", Members, 2, Bob) \in Seq(MayAsk(s, n)) BY <2>1, AskSeq, ListsFit
  <2> QED BY <1>6, <2>2, <2>3 DEF Finalizers
<1>7. CASE s = "bench"
  <2>1. n \in DOMAIN Bench /\ Script(s)[n] = Finalizing(99 + n, Bench[n])
    BY <1>7 DEF Script
  <2>2. RoundOf(s, n) = 99 + n /\ IntentOf(s, n) = Bench[n] BY <1>7 DEF RoundOf, IntentOf
  <2> QED BY <1>7, <2>1, <2>2, FinalizingFits, PartiesFit DEF Finalizers
<1>8. CASE s = "schedules"
  <2>1. n \in DOMAIN Members
        /\ Script(s)[n] = [k \in DOMAIN Bench |->
              [kind |-> "apply", node |-> Members[n], round |-> 99 + Schedules[n][k],
               intent |-> Bench[Schedules[n][k]]]]
    BY <1>8 DEF Script
  <2>2. \A k \in DOMAIN Bench : Schedules[n][k] \in DOMAIN Bench
    BY <2>1, PhaseAAssumption DEF PhaseAAssumption
  <2>3. Members[n] \in Validators BY <2>1, PartiesFit, ElementOfSeq
  <2>4. ASSUME NEW k \in DOMAIN Bench PROVE Script(s)[n][k] \in MayAsk(s, n)
    <3>1. PICK j \in DOMAIN Bench : j = Schedules[n][k] BY <2>2
    <3>2. j \in Nat /\ Bench[j] \in Intents /\ Bench[j] \in Benched BY PartiesFit DEF Benched
    <3>3. Script(s)[n][k] = [kind |-> "apply", node |-> Members[n], round |-> 99 + j, intent |-> Bench[j]]
      BY <2>1, <3>1
    <3> QED BY <1>8, <2>3, <3>2, <3>3 DEF MayAsk, Finalizers
  <2>5. Script(s)[n] \in [1..Len(Bench) -> MayAsk(s, n)] BY <2>1, <2>4, PartiesFit
  <2> QED BY <1>8, <2>5, SeqOf, PartiesFit DEF Finalizers
<1>9. CASE s = "query"
  <2>1. AskSet("query", Validators, 0, Bob) \subseteq MayAsk(s, n)
    BY <1>9, PartiesFit DEF AskSet, MayAsk, Finalizers
  <2>2. Script(s)[n] = Ask("query", Members, 0, Bob) BY <1>9 DEF Script
  <2>3. Ask("query", Members, 0, Bob) \in Seq(MayAsk(s, n)) BY <2>1, AskSeq, ListsFit
  <2> QED BY <1>9, <2>2, <2>3 DEF Finalizers
<1>10. CASE s \in Threadless
  <2>1. Script(s) = <<>> BY <1>10 DEF Script, Threadless
  <2> QED BY <2>1
<1> QED
  BY <1>1, <1>2, <1>3, <1>4, <1>5, <1>6, <1>7, <1>8, <1>9, <1>10 DEF AllStages

-----------------------------------------------------------------------------
(* What is served is served by the rules of Node.                          *)

\* The decision chain: a rejection has the code of its check.
LEMMA VoteAnswers ==
  ASSUME NEW m
  PROVE  /\ VoteAnswer(m) \in {"vote", "invalid_proposal", "input_not_live",
                               "local_prevote_missing", "durable_lock", "durable_vote"}
         /\ VoteAnswer(m) = "vote" /\ m.node \notin Byzantine =>
              \A n \in 1..5 : Checks(m)[n][2]
<1> DEFINE failed == {n \in DOMAIN Checks(m) : ~ Checks(m)[n][2]}
           first == CHOOSE n \in failed : \A k \in failed : n <= k
           codes == {"invalid_proposal", "input_not_live", "local_prevote_missing",
                     "durable_lock", "durable_vote"}
<1>1. DOMAIN Checks(m) = 1..5 BY DEF Checks
<1>2. \A n \in 1..5 : Checks(m)[n][1] \in codes
  <2>1. /\ Checks(m)[1][1] = "invalid_proposal" /\ Checks(m)[2][1] = "input_not_live"
        /\ Checks(m)[3][1] = "local_prevote_missing" /\ Checks(m)[4][1] = "durable_lock"
        /\ Checks(m)[5][1] = "durable_vote"
    BY DEF Checks
  <2>2. 1..5 = {1, 2, 3, 4, 5} OBVIOUS
  <2> QED BY <2>1, <2>2
<1>3. VoteAnswer(m) = IF m.node \in Byzantine \/ failed = {} THEN "vote" ELSE Checks(m)[first][1]
  BY DEF VoteAnswer
<1>4. failed \subseteq 1..5 BY <1>1
<1>5. ASSUME failed # {} PROVE first \in 1..5
  <2> HIDE DEF failed
  <2>1. \E n \in failed : \A k \in failed : n <= k
    <3>1. CASE 1 \in failed BY <1>4, <3>1
    <3>2. CASE failed \subseteq 2..5 /\ 2 \in failed BY <3>2
    <3>3. CASE failed \subseteq 3..5 /\ 3 \in failed BY <3>3
    <3>4. CASE failed \subseteq 4..5 /\ 4 \in failed BY <3>4
    <3>5. CASE failed = {5} BY <3>5
    <3>6. CASE failed \subseteq {5}
      <4>1. failed = {5} BY <1>5, <3>6
      <4> QED BY <3>5, <4>1
    <3> QED BY <1>4, <3>6, <3>1, <3>2, <3>3, <3>4
  <2>2. first \in failed BY <2>1
  <2> QED BY <1>4, <2>2
<1>6. (\A n \in 1..5 : Checks(m)[n][2]) \/ failed # {} BY <1>1
<1> HIDE DEF failed, first
<1> QED BY <1>2, <1>3, <1>5, <1>6

\* A vote of an honest node has passed every check of the chain.
LEMMA HonestVoteIsChecked ==
  ASSUME NEW m, VoteAnswer(m) = "vote", m.node \in Honest
  PROVE  /\ ValidLiveProposal(m.node, m.intent)
         /\ m.kind = "precommit" => Vote("prevote", m.round, m.intent) \in votes[m.node]
         /\ ~ LockRejects(m.node, m.round, m.intent)
         /\ ~ DurableVoteRejection(m.node, m.kind, m.round, m.intent)
<1>1. \A n \in 1..5 : Checks(m)[n][2] BY VoteAnswers DEF Honest
<1>2. /\ Checks(m)[1][2] /\ Checks(m)[2][2] /\ Checks(m)[3][2] /\ Checks(m)[4][2]
      /\ Checks(m)[5][2]
  BY <1>1
<1> QED BY <1>2 DEF Checks, ValidLiveProposal

\* A thread of a finalisation asks in a round and for an intent there are.
LEMMA CallsFit ==
  ASSUME ThreadsFit, stage \in Finalizers, NEW n \in DOMAIN threads
  PROVE  /\ RoundOf(stage, n) \in Rounds /\ IntentOf(stage, n) \in Intents
         /\ stage = "bob" => n = 1 /\ RoundOf(stage, n) = 2
         /\ stage = "bench" => n \in Nat /\ n >= 1 /\ RoundOf(stage, n) = 99 + n
<1>1. stage \in AllStages /\ n \in DOMAIN Script(stage)
  BY DEF ThreadsFit, Finalizers, AllStages
<1>2. (stage = "bob" => n = 1) /\ (stage = "bench" => n \in DOMAIN Bench)
  BY <1>1, ScriptFits
<1> QED BY <1>2, PartiesFit DEF Finalizers, RoundOf, IntentOf

\* How a node may answer the request m of thread n.
GivesShare(n, m) ==
  /\ m.node \in Honest /\ m.round \in Rounds /\ m.intent \in Intents
  /\ \/ m.kind = "prevote" /\ Prevote(m.node, m.round, m.intent)
     \/ /\ m.kind = "precommit" /\ stage \in Finalizers
        /\ Precommit(m.node, m.round, m.intent, PrevotesOf(n))

ServedByRules(n, m, answer) ==
  \/ answer = "vote" /\ GivesShare(n, m)
  \/ answer # "vote" /\ m.node \in Validators /\ m.intent \in Intents /\ Apply(m.node, m.intent)
  \/ (answer = "vote" => m.node \notin Honest) /\ UNCHANGED vars

\* Precommits are given to a finalisation only, where one certificate is in use.
LEMMA PrecommitByRules ==
  ASSUME IInv, ScriptInv, NEW n \in DOMAIN threads, NEW m \in MayAsk(stage, n),
         m.kind = "precommit", Answer(threads[n], m) = "vote",
         Serve(m, threads[n], "vote")
  PROVE  GivesShare(n, m)
<1>1. VoteAnswer(m) = "vote" /\ IsQuorum(Certificate(threads[n]))
  BY DEF Answer
<1>2. m.node \in Honest /\ m.intent \in Intents
  BY DEF MayAsk
<1>3. /\ ValidLiveProposal(m.node, m.intent)
      /\ Vote("prevote", m.round, m.intent) \in votes[m.node]
      /\ ~ LockRejects(m.node, m.round, m.intent)
      /\ ~ DurableVoteRejection(m.node, "precommit", m.round, m.intent)
  BY <1>1, <1>2, HonestVoteIsChecked
<1>4. stage \in Finalizers
  <2> SUFFICES ASSUME stage = "opposing", m.intent = Charlie PROVE FALSE
    BY DEF MayAsk
  <2>1. LockedOn(m.node, Bob) BY <1>2 DEF ScriptInv, SettledSoFar, FromBob, FromBench
  <2>2. Bob # Charlie /\ InputOf[Bob] = InputOf[Charlie]
    BY PhaseAAssumption DEF PhaseAAssumption, Conflicting
  <2> QED BY <1>3, <2>1, <2>2 DEF LockedOn, LockRejects
<1>5. m.round = RoundOf(stage, n) /\ m.intent = IntentOf(stage, n)
  BY <1>4 DEF MayAsk
<1>6. m.round \in Rounds BY <1>4, <1>5, CallsFit DEF ScriptInv
<1>7. Certificate(threads[n]) = PrevotesOf(n) /\ PrevotesOf(n) \in SUBSET Validators
  BY <1>4 DEF Certificate, PrevotesOf, Finalizers, Voters
<1>8. ThreadBacked(n) BY <1>4 DEF ScriptInv, ThreadsBacked
<1>9. PrevoteQc(m.round, m.intent, PrevotesOf(n))
  BY <1>1, <1>5, <1>7, <1>8 DEF ThreadBacked, PrevotesBacked, PrevoteQc
<1>10. Cardinality(Justifications(m.round, m.intent) \cup {PrevotesOf(n)}) <= MaxQcs
  <2>1. Justifications(m.round, m.intent) \subseteq {PrevotesOf(n)}
    BY <1>5, <1>8 DEF ThreadBacked, OneCertificate, Justifications
  <2>2. Justifications(m.round, m.intent) \cup {PrevotesOf(n)} = {PrevotesOf(n)} BY <2>1
  <2>3. Cardinality({PrevotesOf(n)}) = 1 BY FS_Singleton
  <2> QED BY <2>2, <2>3, NodeAssumption, PhaseAAssumption DEF NodeAssumption, PhaseAAssumption
<1>11. /\ PersistVote(m.node, "precommit", m.round, m.intent)
       /\ Issue(m.node, "precommit", m.round, m.intent, PrevotesOf(n))
       /\ UNCHANGED <<live, applied>>
  BY <1>2, <1>7 DEF Serve
<1> QED
  BY <1>2, <1>3, <1>4, <1>6, <1>9, <1>10, <1>11 DEF GivesShare, Precommit, AcceptsPrecommit

\* A prevote is given as Node gives it.
LEMMA PrevoteByRules ==
  ASSUME NEW n, NEW m \in MayAsk(stage, n), m.node \in Honest,
         m.kind = "prevote", Answer(threads[n], m) = "vote",
         Serve(m, threads[n], "vote")
  PROVE  GivesShare(n, m)
<1>1. VoteAnswer(m) = "vote" BY DEF Answer
<1>2. /\ ValidLiveProposal(m.node, m.intent)
      /\ ~ DurableVoteRejection(m.node, "prevote", m.round, m.intent)
  BY <1>1, HonestVoteIsChecked
<1>3. m.round \in Rounds /\ m.intent \in Intents BY <1>2 DEF MayAsk, ValidLiveProposal
<1>4. /\ PersistVote(m.node, "prevote", m.round, m.intent)
      /\ Issue(m.node, "prevote", m.round, m.intent, {})
      /\ UNCHANGED <<live, applied>>
  BY DEF Serve
<1> QED BY <1>2, <1>3, <1>4 DEF GivesShare, Prevote, AcceptsPrevote

\* Only certified transfers are handed out to be applied.
LEMMA ApplyByRules ==
  ASSUME IInv, ScriptInv, NEW n \in DOMAIN threads, NEW m \in MayAsk(stage, n),
         Answer(threads[n], m) = "applied", Serve(m, threads[n], "applied")
  PROVE  m.node \in Validators /\ m.intent \in Intents /\ Apply(m.node, m.intent)
<1>1. m.kind \in {"prevote", "precommit", "apply", "query"} /\ m.node \in Validators
      /\ m.intent \in Intents
  BY DEF MayAsk
<1>2. VoteAnswer(m) # "applied" BY VoteAnswers
<1>3. m.kind = "apply" /\ m.intent \notin applied[m.node] /\ CanApply(m.node, m.intent)
  BY <1>1, <1>2 DEF Answer
<1>4. m.intent \in Certified
  <2>1. CASE stage \in {"apply", "again"} /\ m.intent = Bob
    BY <2>1 DEF ScriptInv, SettledSoFar, FromBob, FromBench
  <2>2. CASE stage = "schedules" /\ m.intent \in Benched
    BY <2>2 DEF ScriptInv, SettledSoFar
  <2> QED BY <1>3, <2>1, <2>2 DEF MayAsk
<1>5. m.intent \in Authorized
  BY <1>4, CertifiedAreAuthorized DEF IInv, OnlyAuthorizedCertified
<1>6. AcceptsApply(m.node, m.intent)
  BY <1>3, <1>4, <1>5 DEF CanApply, AcceptsApply, Certified
<1> QED BY <1>1, <1>6 DEF Serve, Apply

\* Every request is served by the rules of Node.
LEMMA ServedFits ==
  ASSUME IInv, ScriptInv, NEW n \in DOMAIN threads, NEW m \in MayAsk(stage, n),
         Serve(m, threads[n], Answer(threads[n], m))
  PROVE  ServedByRules(n, m, Answer(threads[n], m))
<1>1. m.kind \in {"prevote", "precommit", "apply", "query"} /\ m.node \in Validators
  BY DEF MayAsk
<1>2. CASE Answer(threads[n], m) = "vote" /\ m.node \in Honest
  <2>1. m.kind \in {"prevote", "precommit"} BY <1>1, <1>2 DEF Answer
  <2> QED BY <1>2, <2>1, PrevoteByRules, PrecommitByRules DEF ServedByRules
<1>3. CASE Answer(threads[n], m) = "applied"
  BY <1>3, ApplyByRules DEF ServedByRules
<1>4. CASE ~ (Answer(threads[n], m) = "vote" /\ m.node \in Honest) /\ Answer(threads[n], m) # "applied"
  BY <1>4 DEF ServedByRules, Serve
<1> QED BY <1>2, <1>3, <1>4

\* A share that is given again changes nothing.
LEMMA CastIsNodeStep ==
  ASSUME IInv, NEW v \in Honest, NEW r, NEW i, NEW p \in Phases, NEW J,
         PersistVote(v, p, r, i), Issue(v, p, r, i, J), UNCHANGED <<live, applied>>,
         ShareOf(v, p, r, i, J) \in shares
  PROVE  UNCHANGED vars
<1>1. shares' = shares BY DEF Issue
<1>2. Vote(p, r, i) \in votes[v]
  BY DEF IInv, VotingInv, IssuedSharesAreDurable, ShareOf
<1>3. SameSlot(Vote(p, r, i), p, r, i) BY DEF SameSlot, Vote
<1> QED BY <1>1, <1>2, <1>3 DEF PersistVote, vars

\* And what is served by the rules is a step of Node, or changes nothing.
LEMMA RulesAreNodeSteps ==
  ASSUME IInv, NEW n, NEW m, NEW answer, ServedByRules(n, m, answer)
  PROVE  [Next]_vars /\ (NodeStep \/ UNCHANGED vars)
<1>1. CASE GivesShare(n, m) /\ m.kind = "prevote"
  <2> DEFINE s == ShareOf(m.node, "prevote", m.round, m.intent, {})
  <2>1. Prevote(m.node, m.round, m.intent) BY <1>1 DEF GivesShare
  <2>2. CASE s \in shares
    BY <1>1, <2>1, <2>2, CastIsNodeStep DEF Prevote, GivesShare, Phases
  <2>3. CASE s \notin shares
    <3>1. s \in shares' \ shares BY <2>1, <2>3 DEF Prevote, Issue
    <3>2. s.phase = "prevote" /\ Prevote(s.signer, s.round, s.intent) BY <2>1 DEF ShareOf
    <3> QED BY <1>1, <2>1, <3>1, <3>2 DEF NodeStep, Next, GivesShare
  <2> QED BY <2>2, <2>3
<1>2. CASE GivesShare(n, m) /\ m.kind = "precommit"
  <2> DEFINE S == PrevotesOf(n)
             s == ShareOf(m.node, "precommit", m.round, m.intent, S)
  <2>1. Precommit(m.node, m.round, m.intent, S) BY <1>2 DEF GivesShare
  <2>2. CASE s \in shares
    BY <1>2, <2>1, <2>2, CastIsNodeStep DEF Precommit, GivesShare, Phases
  <2>3. CASE s \notin shares
    <3>1. s \in shares' \ shares BY <2>1, <2>3 DEF Precommit, Issue
    <3>2. s.phase = "precommit" /\ Precommit(s.signer, s.round, s.intent, s.justify)
      BY <2>1 DEF ShareOf
    <3>3. S \in SUBSET Validators BY DEF PrevotesOf, Voters
    <3> QED BY <1>2, <2>1, <3>1, <3>2, <3>3 DEF NodeStep, Next, GivesShare
  <2> QED BY <2>2, <2>3
<1>3. CASE m.node \in Validators /\ m.intent \in Intents /\ Apply(m.node, m.intent)
  <2>1. m.intent \in applied'[m.node] \ applied[m.node]
    <3>1. applied \in [Validators -> SUBSET Intents] BY DEF IInv, VotingInv, TypeOK
    <3> QED BY <1>3, <3>1 DEF Apply, AcceptsApply
  <2> QED BY <1>3, <2>1 DEF NodeStep, Next
<1> QED BY <1>1, <1>2, <1>3 DEF ServedByRules, GivesShare

-----------------------------------------------------------------------------
(* What a request does to the thread that makes it.                        *)

\* Thread n asks for m; rest is still to come, and kept is what it has been given.
Asks(n, m, rest, kept) ==
  /\ threads[n].todo # <<>> /\ m = threads[n].todo[1]
  /\ threads' = [threads EXCEPT ![n] = [todo |-> rest, kept |-> kept]]
  /\ ServedByRules(n, m, Answer(threads[n], m)) \/ UNCHANGED vars
  /\ rest \in {<<>>, Tail(threads[n].todo)}
  /\ \/ kept = threads[n].kept
     \/ /\ kept = threads[n].kept \cup {<<m.kind, m.node>>}
        /\ Answer(threads[n], m) = "vote" /\ ServedByRules(n, m, "vote")

\* A request, served or failed, is one the script asks for and is served by the rules.
LEMMA RequestEffect ==
  ASSUME IInv, ScriptInv, NEW n \in DOMAIN threads, RequestServed(n) \/ RequestFails(n)
  PROVE  /\ stage' = stage
         /\ \E m \in MayAsk(stage, n) : \E rest, kept : Asks(n, m, rest, kept)
<1> DEFINE t == threads[n]  m == Head(t.todo)  answer == Answer(t, m)
<1>1. t = [todo |-> t.todo, kept |-> t.kept] /\ t.todo \in Seq(MayAsk(stage, n)) /\ t.todo # <<>>
  BY DEF ScriptInv, ThreadsFit, RequestServed, RequestFails, Ready
<1>2. m \in MayAsk(stage, n) /\ m = t.todo[1]
  BY <1>1, HeadTailProperties
<1>3. Serve(m, t, answer) => ServedByRules(n, m, answer)
  BY <1>2, ServedFits
<1>4. stage' = stage BY DEF RequestServed, RequestFails
<1>5. CASE Fail(n) /\ (Serve(m, t, answer) \/ UNCHANGED vars)
  <2>1. threads' = [threads EXCEPT ![n] = [todo |-> <<>>, kept |-> t.kept]]
    <3>1. threads' = [threads EXCEPT ![n].todo = <<>>] BY <1>5 DEF Fail
    <3>2. [t EXCEPT !.todo = <<>>] = [todo |-> <<>>, kept |-> t.kept] BY <1>1
    <3> QED BY <3>1, <3>2
  <2> HIDE DEF m
  <2> QED BY <1>1, <1>2, <1>3, <1>4, <1>5, <2>1 DEF Asks
<1>6. CASE /\ Serve(m, t, answer)
           /\ threads' = [threads EXCEPT ![n] =
                [todo |-> Tail(t.todo),
                 kept |-> t.kept \cup (IF answer = "vote" THEN {<<m.kind, m.node>>} ELSE {})]]
  <2> DEFINE rest == Tail(t.todo)
             kept == t.kept \cup (IF answer = "vote" THEN {<<m.kind, m.node>>} ELSE {})
  <2>1. \/ kept = t.kept
        \/ kept = t.kept \cup {<<m.kind, m.node>>} /\ answer = "vote" /\ ServedByRules(n, m, "vote")
    BY <1>3, <1>6
  <2>2. threads' = [threads EXCEPT ![n] = [todo |-> rest, kept |-> kept]] BY <1>6
  <2> HIDE DEF m, kept
  <2>3. Asks(n, m, rest, kept) BY <1>1, <1>2, <1>3, <1>6, <2>1, <2>2 DEF Asks
  <2> QED BY <1>2, <1>4, <2>3
<1> QED BY <1>5, <1>6 DEF RequestServed, RequestFails

\* A lock on an intent stays whatever the node does next.
LEMMA LockedRemains ==
  ASSUME IInv, [Next]_vars, NEW v \in Honest, NEW i \in Intents, LockedOn(v, i)
  PROVE  LockedOn(v, i)'
<1>1. InputOf[i] \in Cells BY NodeAssumption DEF NodeAssumption
<1> QED BY <1>1, LocksStay DEF LockedOn

\* The shares a request brings.
LEMMA NewShares ==
  ASSUME ScriptInv, NEW n \in DOMAIN threads, NEW m \in MayAsk(stage, n),
         ServedByRules(n, m, Answer(threads[n], m)) \/ UNCHANGED vars,
         NEW s \in shares' \ shares
  PROVE  \/ s.phase = "prevote"
         \/ /\ stage \in Finalizers /\ m.kind = "precommit"
            /\ s.phase = "precommit" /\ s.round = RoundOf(stage, n)
            /\ s.intent = IntentOf(stage, n) /\ s.justify = PrevotesOf(n)
<1>1. CASE Apply(m.node, m.intent) \/ UNCHANGED vars BY <1>1 DEF Apply, vars
<1>2. CASE Prevote(m.node, m.round, m.intent) BY <1>2 DEF Prevote, Issue, ShareOf
<1>3. CASE /\ m.kind = "precommit" /\ stage \in Finalizers
           /\ Precommit(m.node, m.round, m.intent, PrevotesOf(n))
  <2>1. s = ShareOf(m.node, "precommit", m.round, m.intent, PrevotesOf(n))
    BY <1>3 DEF Precommit, Issue
  <2> QED BY <1>3, <2>1 DEF ShareOf, MayAsk
<1> QED BY <1>1, <1>2, <1>3 DEF ServedByRules, GivesShare

\* Other finalisations keep what backs them.
LEMMA OthersRemainBacked ==
  ASSUME IInv, [Next]_vars, stage' = stage, stage \in Finalizers, ThreadsFit,
         NEW n \in DOMAIN threads, ThreadBacked(n), threads'[n] = threads[n],
         \A s \in shares' \ shares : s.phase = "precommit" =>
           ~ (s.round = RoundOf(stage, n) /\ s.intent = IntentOf(stage, n))
  PROVE  ThreadBacked(n)'
<1>1. shares \subseteq shares' BY SharesRemain
<1>2. IntentOf(stage, n) \in Intents BY CallsFit
<1>3. PrevotesOf(n)' = PrevotesOf(n) /\ PrecommitsOf(n)' = PrecommitsOf(n)
      /\ NoPrevoteLeft(n)' = NoPrevoteLeft(n)
  BY DEF PrevotesOf, PrecommitsOf, NoPrevoteLeft, Voters
<1>4. InOrder(threads[n].todo)' BY DEF ThreadBacked, InOrder
<1>5. PrevotesBacked(n)'
  BY <1>1, <1>3 DEF ThreadBacked, PrevotesBacked, Obtainable, ShareOf
<1>6. PrecommitsBacked(n)'
  <2> SUFFICES ASSUME NEW v \in PrecommitsOf(n)
               PROVE  /\ NoPrevoteLeft(n) /\ IsQuorum(PrevotesOf(n))
                      /\ Obtainable(v, "precommit", RoundOf(stage, n), IntentOf(stage, n), PrevotesOf(n))'
                      /\ v \in Honest /\ LockedOn(v, IntentOf(stage, n))'
    BY <1>3 DEF PrecommitsBacked, IsQuorum
  <2>1. /\ NoPrevoteLeft(n) /\ IsQuorum(PrevotesOf(n))
        /\ Obtainable(v, "precommit", RoundOf(stage, n), IntentOf(stage, n), PrevotesOf(n))
        /\ v \in Honest /\ LockedOn(v, IntentOf(stage, n))
    BY DEF ThreadBacked, PrecommitsBacked
  <2>2. Obtainable(v, "precommit", RoundOf(stage, n), IntentOf(stage, n), PrevotesOf(n))'
    BY <1>1, <1>3, <2>1 DEF Obtainable, ShareOf
  <2> QED BY <1>2, <2>1, <2>2, LockedRemains
<1>7. OneCertificate(n)'
  BY <1>3 DEF ThreadBacked, OneCertificate
<1> QED BY <1>4, <1>5, <1>6, <1>7 DEF ThreadBacked

\* And so does the one that asks.
LEMMA AskedRemainsBacked ==
  ASSUME IInv, [Next]_vars, ScriptInv, stage' = stage, stage \in Finalizers,
         NEW n \in DOMAIN threads, NEW m \in MayAsk(stage, n),
         NEW rest, NEW kept, Asks(n, m, rest, kept)
  PROVE  ThreadBacked(n)'
<1> DEFINE r == RoundOf(stage, n)  i == IntentOf(stage, n)
           todo == threads[n].todo  answer == Answer(threads[n], m)
<1>1. threads'[n] = [todo |-> rest, kept |-> kept] BY DEF Asks
<1>2. /\ m.kind \in {"prevote", "precommit"} /\ m.node \in Honest
      /\ m.round = r /\ m.intent = i
  BY DEF MayAsk, Phases
<1>3. r \in Rounds /\ i \in Intents BY CallsFit DEF ScriptInv
<1>4. todo \in Seq(MayAsk(stage, n)) /\ todo # <<>> /\ ThreadBacked(n)
  BY DEF ScriptInv, ThreadsFit, ThreadsBacked, Asks
<1>5. Len(todo) \in Nat /\ Len(todo) > 0 /\ DOMAIN todo = 1..Len(todo)
  BY <1>4, LenProperties, EmptySeq
<1>6. \A k \in DOMAIN rest : k \in Nat /\ k >= 1 /\ k + 1 \in DOMAIN todo /\ rest[k] = todo[k + 1]
  <2>1. CASE rest = <<>> BY <2>1
  <2>2. CASE rest = Tail(todo)
    <3>1. /\ Tail(todo) \in Seq(MayAsk(stage, n)) /\ Len(Tail(todo)) = Len(todo) - 1
          /\ \A k \in 1..Len(Tail(todo)) : Tail(todo)[k] = todo[k + 1]
      BY <1>4, HeadTailProperties
    <3>2. DOMAIN Tail(todo) = 1..Len(Tail(todo)) BY <3>1, LenProperties
    <3> QED BY <1>5, <2>2, <3>1, <3>2
  <2> QED BY <2>1, <2>2 DEF Asks
<1>7. InOrder(rest)
  <2> SUFFICES ASSUME NEW j \in DOMAIN rest, NEW k \in DOMAIN rest, j < k,
                      rest[j].kind = "precommit"
               PROVE  rest[k].kind = "precommit"
    BY DEF InOrder
  <2>1. j + 1 < k + 1 /\ todo[j + 1].kind = "precommit" BY <1>6
  <2> QED BY <1>4, <1>6, <2>1 DEF ThreadBacked, InOrder
<1>8. shares \subseteq shares' BY SharesRemain
<1>9. \/ kept = threads[n].kept
      \/ kept = threads[n].kept \cup {<<m.kind, m.node>>} /\ GivesShare(n, m)
  BY <1>2 DEF Asks, ServedByRules
<1>10. \A p, v : <<p, v>> \in kept =>
         \/ <<p, v>> \in threads[n].kept
         \/ p = m.kind /\ v = m.node /\ GivesShare(n, m)
  BY <1>9
<1>11. PrevotesBacked(n)'
  <2> SUFFICES ASSUME NEW v \in PrevotesOf(n)' PROVE Obtainable(v, "prevote", r, i, {})'
    BY DEF PrevotesBacked
  <2>1. v \in Validators /\ <<"prevote", v>> \in kept BY <1>1 DEF PrevotesOf, Voters
  <2>2. CASE <<"prevote", v>> \in threads[n].kept
    <3>1. v \in PrevotesOf(n) BY <2>1, <2>2 DEF PrevotesOf, Voters
    <3> QED BY <1>4, <1>8, <3>1 DEF ThreadBacked, PrevotesBacked, Obtainable, ShareOf
  <2>3. CASE m.kind = "prevote" /\ v = m.node /\ GivesShare(n, m)
    <3>1. ShareOf(v, "prevote", r, i, {}) \in shares'
      BY <1>2, <2>3 DEF GivesShare, Prevote, Issue
    <3> QED BY <3>1 DEF Obtainable, ShareOf
  <2> QED BY <1>10, <2>1, <2>2, <2>3
<1>12. CASE m.kind = "prevote"
  <2>1. ~ NoPrevoteLeft(n) BY <1>5, <1>12 DEF NoPrevoteLeft, Asks
  <2>2. PrecommitsOf(n)' = {}
    <3>1. PrecommitsOf(n) = {} BY <1>4, <2>1 DEF ThreadBacked, PrecommitsBacked
    <3> QED BY <1>1, <1>10, <1>12, <3>1 DEF PrecommitsOf, Voters
  <2>3. \A s \in shares' : ~ (s.phase = "precommit" /\ s.round = r /\ s.intent = i)
    <3>1. \A s \in shares : ~ (s.phase = "precommit" /\ s.round = r /\ s.intent = i)
      BY <1>4, <2>1 DEF ThreadBacked, OneCertificate
    <3>2. \A s \in shares' \ shares : s.phase = "prevote"
      BY <1>12, NewShares DEF Asks
    <3> QED BY <3>1, <3>2
  <2>4. PrecommitsBacked(n)' BY <2>2 DEF PrecommitsBacked
  <2>5. OneCertificate(n)' BY <2>3 DEF OneCertificate
  <2> QED BY <1>1, <1>7, <1>11, <2>4, <2>5 DEF ThreadBacked
<1>13. CASE m.kind = "precommit"
  <2>1. \A k \in DOMAIN todo : todo[k].kind = "precommit"
    <3> TAKE k \in DOMAIN todo
    <3>1. k = 1 \/ 1 < k BY <1>5
    <3> QED BY <1>4, <1>5, <1>13, <3>1 DEF ThreadBacked, InOrder, Asks
  <2>2. NoPrevoteLeft(n)' BY <1>1, <1>6, <2>1 DEF NoPrevoteLeft
  <2>3. PrevotesOf(n)' = PrevotesOf(n)
    BY <1>1, <1>9, <1>13 DEF PrevotesOf, Voters
  <2>4. OneCertificate(n)'
    <3> SUFFICES ASSUME NEW s \in shares', s.phase = "precommit", s.round = r, s.intent = i
                 PROVE  s.justify = PrevotesOf(n)
      BY <2>2, <2>3 DEF OneCertificate
    <3>1. CASE s \in shares BY <1>4, <3>1 DEF ThreadBacked, OneCertificate
    <3>2. CASE s \notin shares BY <3>2, NewShares DEF Asks
    <3> QED BY <3>1, <3>2
  <2>5. PrecommitsBacked(n)'
    <3> SUFFICES ASSUME NEW v \in PrecommitsOf(n)'
                 PROVE  /\ IsQuorum(PrevotesOf(n)) /\ v \in Honest
                        /\ Obtainable(v, "precommit", r, i, PrevotesOf(n))'
                        /\ LockedOn(v, i)'
      BY <2>2, <2>3 DEF PrecommitsBacked, IsQuorum
    <3>1. v \in Validators /\ <<"precommit", v>> \in kept BY <1>1 DEF PrecommitsOf, Voters
    <3>2. CASE <<"precommit", v>> \in threads[n].kept
      <4>1. v \in PrecommitsOf(n) BY <3>1, <3>2 DEF PrecommitsOf, Voters
      <4>2. /\ IsQuorum(PrevotesOf(n)) /\ v \in Honest /\ LockedOn(v, i)
            /\ Obtainable(v, "precommit", r, i, PrevotesOf(n))
        BY <1>4, <4>1 DEF ThreadBacked, PrecommitsBacked
      <4>3. Obtainable(v, "precommit", r, i, PrevotesOf(n))'
        BY <1>8, <2>3, <4>2 DEF Obtainable, ShareOf
      <4> QED BY <1>3, <4>2, <4>3, LockedRemains
    <3>3. CASE v = m.node /\ GivesShare(n, m)
      <4>1. Precommit(v, r, i, PrevotesOf(n)) /\ v \in Honest
        BY <1>2, <1>13, <3>3 DEF GivesShare
      <4>2. ShareOf(v, "precommit", r, i, PrevotesOf(n)) \in shares'
        BY <4>1 DEF Precommit, Issue
      <4>3. LockedOn(v, i)'
        <5>1. CastVote(v, "precommit", r, i, PrevotesOf(n)) BY <4>1, PrecommitIsCastVote
        <5>2. PrevotesOf(n) \in SUBSET Validators BY DEF PrevotesOf, Voters
        <5>3. \E l \in lock'[v][InputOf[i]] : l.intent = i
          BY <1>3, <4>1, <5>1, <5>2, CastVoteEffect DEF IInv, Phases
        <5> QED BY <5>3 DEF LockedOn
      <4> QED
        BY <2>3, <4>1, <4>2, <4>3 DEF Precommit, AcceptsPrecommit, PrevoteQc, Obtainable, ShareOf
    <3> QED BY <1>10, <3>1, <3>2, <3>3
  <2> QED BY <1>1, <1>7, <1>11, <2>4, <2>5 DEF ThreadBacked
<1> QED BY <1>2, <1>12, <1>13

\* A request keeps the invariant and is a step of a node, or changes no node.
LEMMA RequestKeeps ==
  ASSUME IInv, ScriptInv, NEW n \in DOMAIN threads, RequestServed(n) \/ RequestFails(n)
  PROVE  ScriptInv' /\ [Next]_vars /\ (NodeStep \/ UNCHANGED vars)
<1>1. stage' = stage BY RequestEffect
<1>2. PICK m \in MayAsk(stage, n) : \E rest, kept : Asks(n, m, rest, kept) BY RequestEffect
<1>3. PICK rest, kept : Asks(n, m, rest, kept) BY <1>2
<1>4. [Next]_vars /\ (NodeStep \/ UNCHANGED vars)
  BY <1>3, RulesAreNodeSteps DEF Asks
<1>5. /\ DOMAIN threads' = DOMAIN threads /\ threads'[n] = [todo |-> rest, kept |-> kept]
      /\ \A k \in DOMAIN threads : k # n => threads'[k] = threads[k]
  BY <1>3 DEF Asks
<1>6. ThreadsFit'
  <2>1. threads[n].todo \in Seq(MayAsk(stage, n)) /\ threads[n].todo # <<>>
    BY <1>3 DEF ScriptInv, ThreadsFit, Asks
  <2>2. rest \in {<<>>, Tail(threads[n].todo)} BY <1>3 DEF Asks
  <2>3. rest \in Seq(MayAsk(stage, n))
    BY <2>1, <2>2, HeadTailProperties, EmptySeq
  <2>4. \A k \in DOMAIN threads : threads'[k].todo \in Seq(MayAsk(stage, k))
    BY <1>5, <2>3 DEF ScriptInv, ThreadsFit
  <2>5. \A k \in DOMAIN threads :
          threads'[k] = [todo |-> threads'[k].todo, kept |-> threads'[k].kept]
    BY <1>5 DEF ScriptInv, ThreadsFit
  <2>6. DOMAIN threads' = DOMAIN Script(stage) BY <1>5 DEF ScriptInv, ThreadsFit
  <2> QED BY <1>1, <1>5, <2>4, <2>5, <2>6 DEF ThreadsFit
<1>7. \A s \in shares' \ shares : s.phase = "precommit" =>
        /\ stage \in Finalizers /\ s.round = RoundOf(stage, n)
  BY <1>3, NewShares DEF Asks
<1>8. ThreadsBacked'
  <2> SUFFICES ASSUME stage \in Finalizers, NEW k \in DOMAIN threads
               PROVE  ThreadBacked(k)'
    BY <1>1, <1>5 DEF ThreadsBacked
  <2>1. CASE k = n BY <1>1, <1>3, <1>4, <2>1, AskedRemainsBacked
  <2>2. CASE k # n
    <3>1. ThreadsFit /\ ThreadBacked(k) BY DEF ScriptInv, ThreadsBacked
    <3>2. RoundOf(stage, k) # RoundOf(stage, n)
      BY <2>2, <3>1, CallsFit DEF Finalizers
    <3> QED BY <1>1, <1>4, <1>5, <1>7, <2>2, <3>1, <3>2, OthersRemainBacked
  <2> QED BY <2>1, <2>2
<1>9. PrecommitsInTurn'
  <2> SUFFICES ASSUME NEW s \in shares', s.phase = "precommit"
               PROVE  \/ s.round = 2 /\ stage \in FromBob
                      \/ s.round >= 100 /\ stage \in FromBench
    BY <1>1 DEF PrecommitsInTurn
  <2>1. CASE s \in shares BY <2>1 DEF ScriptInv, PrecommitsInTurn
  <2>2. CASE s \notin shares
    <3>1. stage \in Finalizers /\ s.round = RoundOf(stage, n) BY <1>7, <2>2
    <3> QED BY <3>1, CallsFit DEF ScriptInv, Finalizers, FromBob, FromBench
  <2> QED BY <2>1, <2>2
<1>10. SettledSoFar'
  <2>1. Certified \subseteq Certified' BY <1>4, SharesRemain, CertificatesRemain
  <2>2. \A v \in Honest : LockedOn(v, Bob) => LockedOn(v, Bob)'
    BY <1>4, LockedRemains, PartiesFit
  <2> QED BY <1>1, <2>1, <2>2 DEF ScriptInv, SettledSoFar
<1> QED BY <1>4, <1>6, <1>8, <1>9, <1>10 DEF ScriptInv

-----------------------------------------------------------------------------
(* The stages follow each other.                                           *)

\* What the stages before s must have come to.
MayEnter(s) ==
  /\ s \in AllStages
  /\ stage \in FromBob => s \in FromBob \ {"bob"}
  /\ stage \in FromBench => s \in FromBench \ {"bench"}
  /\ s \in FromBob \ {"bob", "drop", "end"} => Bob \in Certified /\ \A v \in Honest : LockedOn(v, Bob)
  /\ s \in {"schedules", "query", "shutdown"} => Benched \subseteq Certified

\* A stage that may begin keeps the script.
LEMMA EnterKeeps ==
  ASSUME ScriptInv, UNCHANGED vars, NEW s, MayEnter(s), Enter(s)
  PROVE  ScriptInv'
<1>1. /\ stage' = s /\ shares' = shares /\ lock' = lock
      /\ DOMAIN threads' = DOMAIN Script(s)
      /\ \A n \in DOMAIN Script(s) : threads'[n] = [todo |-> Script(s)[n], kept |-> {}]
  BY DEF Enter, vars
<1>2. \A n \in DOMAIN Script(s) :
        /\ Script(s)[n] \in Seq(MayAsk(s, n))
        /\ s \in Finalizers => InOrder(Script(s)[n])
  BY ScriptFits DEF MayEnter
<1>3. ThreadsFit' BY <1>1, <1>2 DEF ThreadsFit
<1>4. PrecommitsInTurn'
  BY <1>1 DEF ScriptInv, PrecommitsInTurn, MayEnter
<1>5. ASSUME s \in Finalizers, NEW n \in DOMAIN Script(s) PROVE ThreadBacked(n)'
  <2>1. PrevotesOf(n)' = {} /\ PrecommitsOf(n)' = {}
    BY <1>1 DEF PrevotesOf, PrecommitsOf, Voters
  <2>2. \A t \in shares : ~ (t.phase = "precommit" /\ t.round = RoundOf(s, n))
    <3>1. \A t \in shares : t.phase = "precommit" =>
            (t.round = 2 /\ stage \in FromBob) \/ (t.round >= 100 /\ stage \in FromBench)
      BY DEF ScriptInv, PrecommitsInTurn
    <3>2. CASE s = "bob"
      <4>1. stage \notin FromBob /\ stage \notin FromBench
        BY <3>2 DEF MayEnter, FromBob, FromBench
      <4> QED BY <3>1, <4>1
    <3>3. CASE s = "bench"
      <4>1. stage \notin FromBench BY <3>3 DEF MayEnter
      <4>2. n \in Nat /\ n >= 1 /\ RoundOf(s, n) = 99 + n
        BY <3>3, ScriptFits, PartiesFit DEF MayEnter, RoundOf
      <4> QED BY <3>1, <4>1, <4>2
    <3> QED BY <1>5, <3>2, <3>3 DEF Finalizers
  <2>3. OneCertificate(n)' BY <1>1, <2>2 DEF OneCertificate
  <2>4. PrevotesBacked(n)' /\ PrecommitsBacked(n)'
    BY <2>1 DEF PrevotesBacked, PrecommitsBacked
  <2>5. InOrder(threads'[n].todo) BY <1>1, <1>2, <1>5
  <2> QED BY <2>3, <2>4, <2>5 DEF ThreadBacked
<1>6. ThreadsBacked' BY <1>1, <1>5 DEF ThreadsBacked
<1>7. SettledSoFar'
  <2>1. Certified \subseteq Certified' BY <1>1, CertificatesRemain
  <2> QED BY <1>1, <2>1 DEF MayEnter, SettledSoFar, LockedOn
<1> QED BY <1>3, <1>4, <1>6, <1>7 DEF ScriptInv

\* A campaign may break off everywhere.
LEMMA BreakOff ==
  ASSUME stage \in AllStages, NEW s \in {"drop", "end"}
  PROVE  MayEnter(s)
BY DEF MayEnter, AllStages, Threadless, FromBob, FromBench

\* What a thread's precommits make up is a finality chain.
LEMMA QuorumSettles ==
  ASSUME ScriptInv, stage \in Finalizers, NEW n \in DOMAIN threads, IsQuorum(PrecommitsOf(n))
  PROVE  /\ IntentOf(stage, n) \in Certified
         /\ PrecommitsOf(n) \subseteq Honest
         /\ \A v \in PrecommitsOf(n) : LockedOn(v, IntentOf(stage, n))
<1> DEFINE r == RoundOf(stage, n)  i == IntentOf(stage, n)  S == PrevotesOf(n)
<1>1. ThreadBacked(n) BY DEF ScriptInv, ThreadsBacked
<1>2. r \in Rounds /\ i \in Intents BY CallsFit DEF ScriptInv
<1>3. \A v \in PrecommitsOf(n) :
        /\ IsQuorum(S) /\ Obtainable(v, "precommit", r, i, S)
        /\ v \in Honest /\ LockedOn(v, i)
  BY <1>1 DEF ThreadBacked, PrecommitsBacked
<1>4. \E v : v \in PrecommitsOf(n) BY QuorumHasHonest
<1>5. PrevoteQc(r, i, S) BY <1>1, <1>3, <1>4 DEF ThreadBacked, PrevotesBacked, PrevoteQc
<1>6. IsQuorum(Precommitters(r, i, S))
  <2>1. PrecommitsOf(n) \subseteq Precommitters(r, i, S)
    BY <1>3 DEF Precommitters, PrecommitsOf, Voters
  <2>2. Precommitters(r, i, S) \subseteq Validators BY DEF Precommitters
  <2> QED BY <2>1, <2>2, LargerSignerSet
<1>7. i \in Certified
  <2> HIDE DEF r, i, S
  <2> QED BY <1>2, <1>5, <1>6, ChainCertifies DEF FinalityChain
<1> QED BY <1>3, <1>7

\* Bob's stage passes when all honest members have locked his transfer.
LEMMA BobSettles ==
  ASSUME ScriptInv, stage = "bob", StagePassed
  PROVE  Bob \in Certified /\ \A v \in Honest : LockedOn(v, Bob)
<1>1. 1 \in DOMAIN threads /\ stage \in Finalizers
  BY DEF ScriptInv, ThreadsFit, Script, Finalizers
<1>2. IsQuorum(PrecommitsOf(1)) /\ Cardinality(PrecommitsOf(1)) = Q
  BY <1>1 DEF StagePassed, PrecommitsOf
<1>3. IntentOf(stage, 1) = Bob BY DEF IntentOf
<1>4. /\ Bob \in Certified /\ PrecommitsOf(1) \subseteq Honest
      /\ \A v \in PrecommitsOf(1) : LockedOn(v, Bob)
  BY <1>1, <1>2, <1>3, QuorumSettles
<1>5. IsFiniteSet(Honest) /\ Cardinality(Honest) = Q
  <2>1. Honest \in SUBSET Validators BY DEF Honest
  <2> QED
    BY <2>1, CommitteeAssumption, PhaseAAssumption, FS_Subset
    DEF CommitteeAssumption, PhaseAAssumption
<1>6. PrecommitsOf(1) = Honest BY <1>2, <1>4, <1>5, FS_Subset
<1> QED BY <1>4, <1>6

\* The bench passes when all its transfers are certified.
LEMMA BenchSettles ==
  ASSUME ScriptInv, stage = "bench", StagePassed
  PROVE  Benched \subseteq Certified
<1>1. stage \in Finalizers /\ DOMAIN threads = DOMAIN Bench
  BY DEF ScriptInv, ThreadsFit, Script, Finalizers
<1>2. ASSUME NEW n \in DOMAIN Bench PROVE Bench[n] \in Certified
  <2>1. IsQuorum(PrecommitsOf(n)) BY <1>1 DEF StagePassed, PrecommitsOf
  <2>2. IntentOf(stage, n) = Bench[n] BY DEF IntentOf
  <2> QED BY <1>1, <2>1, <2>2, QuorumSettles
<1> QED BY <1>2 DEF Benched

\* The next stage may begin when the one before it has passed.
LEMMA MayEnterNext ==
  ASSUME ScriptInv, stage \in AllStages \ {"mkdir", "kill", "shutdown", "drop", "end"},
         stage \in Finalizers => StagePassed
  PROVE  MayEnter(After(stage))
<1>1. CASE stage = "bob"
  BY <1>1, StageOrder, BobSettles DEF MayEnter, AllStages, FromBob, FromBench, Finalizers
<1>2. CASE stage = "bench"
  BY <1>2, StageOrder, BenchSettles DEF MayEnter, AllStages, FromBob, FromBench, Finalizers, ScriptInv, SettledSoFar
<1>3. CASE stage \in {"start", "owners", "split"}
  BY <1>3, StageOrder DEF MayEnter, AllStages, Threadless, FromBob, FromBench
<1>4. CASE stage \in {"opposing", "restart", "conflict", "apply", "again"}
  <2>1. Bob \in Certified /\ \A v \in Honest : LockedOn(v, Bob)
    BY <1>4 DEF ScriptInv, SettledSoFar, FromBob, FromBench
  <2>2. After(stage) \in {"kill", "conflict", "apply", "again", "bench"} BY <1>4, StageOrder
  <2> QED BY <1>4, <2>1, <2>2 DEF MayEnter, AllStages, Threadless, FromBob, FromBench
<1>5. CASE stage \in {"schedules", "query"}
  <2>1. /\ Bob \in Certified /\ \A v \in Honest : LockedOn(v, Bob)
        /\ Benched \subseteq Certified
    BY <1>5 DEF ScriptInv, SettledSoFar, FromBob, FromBench
  <2>2. After(stage) \in {"query", "shutdown"} BY <1>5, StageOrder
  <2> QED BY <1>5, <2>1, <2>2 DEF MayEnter, AllStages, Threadless, FromBob, FromBench
<1> QED BY <1>1, <1>2, <1>3, <1>4, <1>5 DEF AllStages, Threadless

\* A step that leaves nodes, stage and threads alone keeps the invariant.
LEMMA IdleKeeps ==
  ASSUME ScriptInv, UNCHANGED <<vars, stage, threads>>
  PROVE  ScriptInv'
<1>1. shares' = shares /\ lock' = lock /\ stage' = stage /\ threads' = threads BY DEF vars
<1>2. ThreadsFit' BY <1>1 DEF ScriptInv, ThreadsFit
<1>3. PrecommitsInTurn' BY <1>1 DEF ScriptInv, PrecommitsInTurn
<1>4. Certified \subseteq Certified' BY <1>1, CertificatesRemain
<1>5. SettledSoFar' BY <1>1, <1>4 DEF ScriptInv, SettledSoFar, LockedOn
<1>6. ASSUME NEW n, ThreadBacked(n) PROVE ThreadBacked(n)'
  <2>1. /\ PrevotesOf(n)' = PrevotesOf(n) /\ PrecommitsOf(n)' = PrecommitsOf(n)
        /\ NoPrevoteLeft(n)' = NoPrevoteLeft(n) /\ InOrder(threads[n].todo)'
    BY <1>1, <1>6 DEF PrevotesOf, PrecommitsOf, Voters, NoPrevoteLeft, ThreadBacked, InOrder
  <2>2. PrevotesBacked(n)' /\ PrecommitsBacked(n)' /\ OneCertificate(n)'
    BY <1>1, <1>6, <2>1
    DEF ThreadBacked, PrevotesBacked, PrecommitsBacked, OneCertificate, Obtainable, ShareOf,
        LockedOn, IsQuorum
  <2> QED BY <2>1, <2>2 DEF ThreadBacked
<1>7. ThreadsBacked' BY <1>1, <1>6 DEF ScriptInv, ThreadsBacked
<1> QED BY <1>2, <1>3, <1>5, <1>7 DEF ScriptInv

\* A stage ends, and the cluster starts, restarts, loses or drops a process.
LEMMA StageKeeps ==
  ASSUME ScriptInv, StageOK, StartingOK,
         \/ SpawnThread \/ SpawnThreadFails \/ EndStage \/ MakeRoot \/ MakeRootFails
         \/ SpawnNode \/ SpawnNodeFails \/ NodeReady \/ NodeNotReady \/ NodeDies \/ WaitReturns
         \/ KillForRestart \/ EndNode \/ ShutdownFails \/ Drop \/ UNCHANGED labVars
  PROVE  ScriptInv' /\ UNCHANGED vars
<1>1. UNCHANGED vars
  BY DEF SpawnThread, SpawnThreadFails, EndStage, MakeRoot, MakeRootFails, SpawnNode,
         SpawnNodeFails, NodeReady, NodeNotReady, NodeDies, WaitReturns, KillForRestart,
         EndNode, ShutdownFails, Drop, labVars
<1>2. stage \in AllStages BY DEF StageOK
<1>3. CASE UNCHANGED <<stage, threads>> BY <1>1, <1>3, IdleKeeps
<1>4. CASE \/ SpawnThread \/ SpawnThreadFails \/ SpawnNode \/ NodeDies \/ WaitReturns
           \/ EndNode \/ UNCHANGED labVars
  BY <1>3, <1>4 DEF SpawnThread, SpawnThreadFails, SpawnNode, NodeDies, WaitReturns, EndNode,
                    labVars, threadVars
<1>5. CASE Enter("drop") \/ Enter("end")
  BY <1>1, <1>2, <1>5, EnterKeeps, BreakOff
<1>6. CASE EndStage
  <2>1. threads # <<>> BY <1>6 DEF EndStage, Joined
  <2>2. stage \in AllStages \ Threadless BY <2>1 DEF StageOK
  <2>3. CASE Enter(After(stage)) /\ StagePassed
    <3>1. MayEnter(After(stage)) BY <2>2, <2>3, MayEnterNext DEF Threadless
    <3> QED BY <1>1, <2>3, <3>1, EnterKeeps
  <2> QED BY <1>5, <1>6, <2>3 DEF EndStage
<1>7. CASE MakeRoot
  <2>1. stage = "mkdir" /\ Enter("start") BY <1>7 DEF MakeRoot
  <2>2. MayEnter("start") BY <2>1 DEF MayEnter, AllStages, Threadless, FromBob, FromBench
  <2> QED BY <1>1, <2>1, <2>2, EnterKeeps
<1>8. CASE NodeReady
  <2>1. stage \in {"start", "restart"} BY <1>8 DEF NodeReady, StartingOK
  <2>2. CASE Enter(After(stage))
    <3>1. MayEnter(After(stage)) BY <1>2, <2>1, MayEnterNext DEF Finalizers
    <3> QED BY <1>1, <2>2, <3>1, EnterKeeps
  <2> QED BY <1>3, <1>8, <2>2 DEF NodeReady, threadVars
<1>9. CASE MakeRootFails \/ SpawnNodeFails \/ NodeNotReady \/ ShutdownFails \/ Drop
  BY <1>5, <1>9 DEF MakeRootFails, SpawnNodeFails, NodeNotReady, ShutdownFails, Drop
<1>10. CASE KillForRestart
  <2>1. stage = "kill" /\ (Enter("restart") \/ Enter("drop")) BY <1>10 DEF KillForRestart
  <2>2. MayEnter("restart")
    BY <2>1 DEF ScriptInv, SettledSoFar, MayEnter, AllStages, Threadless, FromBob, FromBench
  <2> QED BY <1>1, <1>5, <2>1, <2>2, EnterKeeps
<1> QED BY <1>1, <1>4, <1>6, <1>7, <1>8, <1>9, <1>10

\* After the first run the nodes start afresh.
LEMMA ShutdownKeeps ==
  ASSUME ScriptInv, StageOK, Shutdown
  PROVE  ScriptInv' /\ (Init' \/ UNCHANGED vars)
<1>1. stage \in AllStages BY DEF StageOK
<1>2. CASE UNCHANGED vars /\ (Enter("drop") \/ Enter("end"))
  BY <1>1, <1>2, EnterKeeps, BreakOff
<1>3. CASE /\ Enter("mkdir")
           /\ votes' = [v \in Honest |-> {}]
           /\ lock' = [v \in Honest |-> [c \in Cells |-> {}]]
           /\ live' = [v \in Validators |-> Genesis]
           /\ applied' = [v \in Validators |-> {}]
           /\ shares' = {}
  <2>1. Init' BY <1>3 DEF Init
  <2>2. stage' = "mkdir" /\ threads' = <<>>
    BY <1>3, EnterThreadless DEF AllStages, Threadless
  <2>3. Script("mkdir") = <<>> BY DEF Script
  <2> QED
    BY <1>3, <2>1, <2>2, <2>3
    DEF ScriptInv, ThreadsFit, ThreadsBacked, Finalizers, PrecommitsInTurn, SettledSoFar,
        FromBob, FromBench
<1> QED BY <1>2, <1>3 DEF Shutdown

\* A campaign begins with nothing asked and nothing settled.
LEMMA ScriptInit == LabInit => ScriptInv
<1> SUFFICES ASSUME LabInit PROVE ScriptInv OBVIOUS
<1>1. Script("mkdir") = <<>> BY DEF Script
<1> QED
  BY <1>1 DEF LabInit, Init, ScriptInv, ThreadsFit, ThreadsBacked, Finalizers,
              PrecommitsInTurn, SettledSoFar, FromBob, FromBench

\* The nodes are safe, the processes accounted for, and the script kept to.
LabInv == IInv /\ ProcessInv /\ ScriptInv

\* Every step of the campaign keeps the script and is a step of a node, a fresh start or neither.
LEMMA LabStepKeeps ==
  ASSUME LabInv, [LabNext]_labVars
  PROVE  /\ ScriptInv' /\ ([Next]_vars \/ Init')
         /\ NodeStep \/ Init' \/ UNCHANGED vars
<1>1. IInv /\ ScriptInv /\ StageOK /\ StartingOK BY DEF LabInv, ProcessInv
<1>2. CASE \E n \in DOMAIN threads : RequestServed(n) \/ RequestFails(n)
  BY <1>1, <1>2, RequestKeeps
<1>3. CASE Shutdown BY <1>1, <1>3, ShutdownKeeps
<1>4. CASE \/ SpawnThread \/ SpawnThreadFails \/ EndStage \/ MakeRoot \/ MakeRootFails
           \/ SpawnNode \/ SpawnNodeFails \/ NodeReady \/ NodeNotReady \/ NodeDies \/ WaitReturns
           \/ KillForRestart \/ EndNode \/ ShutdownFails \/ Drop \/ UNCHANGED labVars
  BY <1>1, <1>4, StageKeeps
<1> QED BY <1>2, <1>3, <1>4 DEF LabNext, LabStep

\* The invariant of the campaign and of the nodes it drives.
LEMMA LabInvariant == LabSpec => []LabInv
<1>1. LabInit => LabInv
  BY IInvInit, ProcessInit, ScriptInit DEF LabInv, LabInit
<1>2. (Init => IInv)' BY IInvInit, PTL
<1>3. LabInv /\ [LabNext]_labVars => LabInv'
  <2> SUFFICES ASSUME LabInv, [LabNext]_labVars PROVE LabInv' OBVIOUS
  <2>1. ProcessInv' BY ThreadStep, ValidatorStep, ClusterStep DEF LabInv, LabNext, LabStep
  <2>2. IInv' BY <1>2, LabStepKeeps, IInvStep DEF LabInv
  <2> QED BY <2>1, <2>2, LabStepKeeps DEF LabInv
<1> QED BY <1>1, <1>3, PTL DEF LabSpec

\* Whatever fails, and for any committee whose honest members just make a quorum, the
\* Phase A campaign does to its nodes only what Node allows, or starts them afresh.
THEOREM CampaignActsByTheRules == LabSpec => CampaignDrivesNodes
<1>1. LabInv /\ [LabNext]_labVars => [NodeStep \/ Init']_vars
  BY LabStepKeeps
<1> QED BY <1>1, LabInvariant, PTL DEF LabSpec, CampaignDrivesNodes

\* So within each of its two runs no cell gets two certified successors, and the ledgers
\* agree (the campaign's own final checks, exhaustive_conflict_safety_cases).
THEOREM CampaignIsSafe ==
  LabSpec => [](AtMostOneCertified /\ LedgerFollowsApplied /\ NodesNeverFork)
<1>1. LabInv => AtMostOneCertified /\ LedgerFollowsApplied /\ NodesNeverFork
  BY CertifiedDoNotConflict, AppliedNeverFork DEF LabInv, IInv, LedgerInv
<1> QED BY <1>1, LabInvariant, PTL
=============================================================================
