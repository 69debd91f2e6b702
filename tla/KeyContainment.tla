--------------------------- MODULE KeyContainment ---------------------------
(***************************************************************************)
(* The live tests of retired TPM keys, sec017/src/main.rs and              *)
(* sec018/src/main.rs.  A controller creates disposable keys, has a child  *)
(* process open the old one, deletes that key by name while the child      *)
(* still holds its handle, and judges what the child signs afterwards: in  *)
(* SEC-018 by the gate that binds a share to a generation, its key and a   *)
(* nonce.  Whatever step fails, the controller ends its child and deletes  *)
(* the keys it has created, and only those.                                *)
(*                                                                         *)
(* The key storage provider is external: a deleted name cannot be opened   *)
(* again, and a handle opened before may still sign or not, as the         *)
(* provider chooses.  Export policies, file contents and checksums are     *)
(* left out; hashes are taken to be free of collisions.                    *)
(***************************************************************************)
EXTENDS Naturals, Sequences, FiniteSets

CONSTANTS KeyTests,    \* the tests to run, of "sec017" and "sec018"
          MaxFailures  \* bound: operations of the provider, the disk or the child that fail

ASSUME KeyTestsAssumption == KeyTests \subseteq {"sec017", "sec018"}

VARIABLES
  test,      \* the test that is run
  revokes,   \* whether the provider revokes open handles of a deleted key
  pc,        \* the controller's next step
  missed,    \* whether it has just looked for an answer that was not there yet
  stored,    \* keys in the provider under their names
  created,   \* the controller's flags that it has created them
  child,     \* "none", "starting", "up", "ended" or "failed"
  asked,     \* labels of the digests written for the child
  answers,   \* the child's result files
  unclean,   \* keys whose cleanup has failed, and "child" if the child's has
  failures,  \* failures so far
  verdict    \* "running"; "ending" or "waiting" after an error, while the child is
             \* killed or waited for; "passing", "failing"; "passed", "failed", "killed"

keyVars == <<test, revokes, pc, missed, stored, created, child, asked, answers,
             unclean, failures, verdict>>

-----------------------------------------------------------------------------
(* Shares and the gate of SEC-018                                          *)

GenerationView(g) ==
  [generation |-> g, validator_id |-> 1, key_id |-> g, keyset |-> <<g, g>>, state_root |-> g]

UnsignedClaim(view, n) ==
  [generation |-> view.generation, validator_id |-> view.validator_id,
   key_id |-> view.key_id, keyset |-> view.keyset, state_root |-> view.state_root,
   nonce |-> n]

Old == GenerationView("old")
Active == GenerationView("active")

\* What is signed under each label: every claim has a nonce of its own.
Claims ==
  [baseline |-> UnsignedClaim(Old, 1), after |-> UnsignedClaim(Old, 2),
   relabel |-> UnsignedClaim(Active, 3), current |-> UnsignedClaim(Active, 4)]

\* The claim of the old key put under the active generation, its key id kept.
Substitution ==
  [Claims.after EXCEPT !.generation = Active.generation, !.keyset = Active.keyset,
                       !.state_root = Active.state_root]

VerifyWithPublic(key, claim, signature) == signature = [by |-> key, over |-> claim]

\* Mutant: the nonce is bound by the signature only.
GateChecksWithoutNonce(view, n, claim, signature) ==
  << <<"generation", claim.generation = view.generation>>,
     <<"validator", claim.validator_id = view.validator_id>>,
     <<"key_id", claim.key_id = view.key_id>>,
     <<"keyset", claim.keyset = view.keyset>>,
     <<"state", claim.state_root = view.state_root>>,
     <<"signature", VerifyWithPublic(view.key_id, claim, signature)>> >>

\* The checks in their order, each with its rejection.
GateChecks(view, n, claim, signature) ==
  << <<"generation", claim.generation = view.generation>>,
     <<"validator", claim.validator_id = view.validator_id>>,
     <<"key_id", claim.key_id = view.key_id>>,
     <<"keyset", claim.keyset = view.keyset>>,
     <<"state", claim.state_root = view.state_root>>,
     <<"nonce", claim.nonce = n>>,
     <<"signature", VerifyWithPublic(view.key_id, claim, signature)>> >>

VerifyShare(view, n, claim, signature) ==
  LET checks == GateChecks(view, n, claim, signature)
      failed == {k \in DOMAIN checks : ~ checks[k][2]} IN
  IF failed = {} THEN "accepted"
  ELSE checks[CHOOSE k \in failed : \A m \in failed : k <= m][1]

-----------------------------------------------------------------------------
(* The controller's steps                                                  *)

Do(op, what) == [op |-> op, what |-> what]
Labels == IF test = "sec017" THEN <<"baseline", "after">>
          ELSE <<"baseline", "after", "relabel">>

Steps017 ==
  << Do("create", "old"), Do("snapshot", "old"), Do("ask", "baseline"), Do("spawn", "old"),
     Do("await", "baseline"), Do("raw", "baseline"), Do("close", "old"), Do("delete", "old"),
     Do("look", "old"), Do("ask", "after"), Do("await", "after"), Do("raw", "after"),
     Do("reap", "old"), Do("look", "old") >>

Steps018 ==
  << Do("create", "old"), Do("create", "active"), Do("snapshot", "old"), Do("spawn", "old"),
     Do("ask", "baseline"), Do("await", "baseline"), Do("judge", "baseline"),
     Do("close", "old"), Do("delete", "old"), Do("gone", "old"),
     Do("ask", "after"), Do("await", "after"), Do("raw", "after"), Do("judge", "after"),
     Do("ask", "relabel"), Do("await", "relabel"), Do("raw", "relabel"),
     Do("judge", "relabel"), Do("judge", "substitution"), Do("sign", "current"),
     Do("judge", "current"), Do("judge", "replay"), Do("judge", "stale"),
     Do("reap", "old"), Do("gone", "old") >>

Steps == IF test = "sec017" THEN Steps017 ELSE Steps018
Step == Steps[pc]

\* What the controller has been given under a label; its own key signs directly.
SignatureOf(label) ==
  IF label = "current" THEN [by |-> "active", over |-> Claims.current] ELSE answers[label]

Judgement(label) ==
  CASE label = "baseline" -> VerifyShare(Old, 1, Claims.baseline, SignatureOf("baseline"))
    [] label = "after" -> VerifyShare(Active, 2, Claims.after, SignatureOf("after"))
    [] label = "relabel" -> VerifyShare(Active, 3, Claims.relabel, SignatureOf("relabel"))
    [] label = "substitution" -> VerifyShare(Active, 2, Substitution, SignatureOf("after"))
    [] label = "current" -> VerifyShare(Active, 4, Claims.current, SignatureOf("current"))
    [] label = "replay" -> VerifyShare(Active, 5, Claims.current, SignatureOf("current"))
    [] label = "stale" -> VerifyShare(Old, 2, Claims.after, SignatureOf("after"))

Expected ==
  [baseline |-> "accepted", after |-> "generation", relabel |-> "signature",
   substitution |-> "key_id", current |-> "accepted", replay |-> "nonce",
   stale |-> "accepted"]

\* In SEC-017 a handle that no longer signs is a result, in SEC-018 it ends the test.
RawPasses(label) ==
  \/ VerifyWithPublic("old", Claims[label], SignatureOf(label))
  \/ test = "sec017" /\ label = "after" /\ SignatureOf(label) = [error |-> "retired"]

KeyInit ==
  /\ test \in KeyTests /\ revokes \in BOOLEAN
  /\ pc = 1 /\ missed = FALSE /\ stored = {} /\ created = {} /\ child = "none"
  /\ asked = {} /\ answers = <<>> /\ unclean = {} /\ failures = 0 /\ verdict = "running"

MayFailOnce == failures < MaxFailures /\ failures' = failures + 1
Running(op) == verdict = "running" /\ Step.op = op
Advance ==
  /\ pc' = IF pc = Len(Steps) THEN pc ELSE pc + 1
  /\ verdict' = IF pc = Len(Steps) THEN "passing" ELSE verdict

\* The first error ends the test, and then the child.
GiveUp ==
  /\ verdict' = IF child \in {"starting", "up"} THEN "ending" ELSE "failing"
  /\ UNCHANGED <<pc, child>>

Create ==
  /\ Running("create")
  /\ stored' = stored \cup {Step.what} /\ created' = created \cup {Step.what}
  /\ Advance
  /\ UNCHANGED <<test, revokes, missed, child, asked, answers, unclean, failures>>

\* The provider has refused, or the set-up of the key has failed and its deletion has
\* put things right.
CreateFails ==
  /\ Running("create") /\ MayFailOnce /\ GiveUp
  /\ UNCHANGED <<test, revokes, missed, stored, created, asked, answers, unclean>>

\* Mutant: the flag is taken back whether the key was deleted or not.
RollbackForgets ==
  /\ Running("create") /\ failures + 2 <= MaxFailures /\ failures' = failures + 2 /\ GiveUp
  /\ stored' \in {stored, stored \cup {Step.what}}
  /\ UNCHANGED <<test, revokes, missed, created, asked, answers, unclean>>

\* The set-up has failed, and so has the deletion.
RollbackFails ==
  /\ Running("create") /\ failures + 2 <= MaxFailures /\ failures' = failures + 2 /\ GiveUp
  /\ created' = created \cup {Step.what}
  /\ stored' \in {stored, stored \cup {Step.what}}
  /\ UNCHANGED <<test, revokes, missed, asked, answers, unclean>>

Spawn ==
  /\ Running("spawn") /\ child' = "starting" /\ Advance
  /\ UNCHANGED <<test, revokes, missed, stored, created, asked, answers, unclean, failures>>

WriteDigest ==
  /\ Running("ask") /\ asked' = asked \cup {Step.what} /\ Advance
  /\ UNCHANGED <<test, revokes, missed, stored, created, child, answers, unclean, failures>>

\* wait_for_file goes round two steps: it looks for the file, ...
LookForFile ==
  /\ Running("await") /\ ~ missed
  /\ IF Step.what \in DOMAIN answers THEN Advance /\ UNCHANGED missed
     ELSE missed' = TRUE /\ UNCHANGED <<pc, verdict>>
  /\ UNCHANGED <<test, revokes, stored, created, child, asked, answers, unclean, failures>>

\* ... and where it finds none, it asks whether the child has exited meanwhile.
PollChild ==
  /\ Running("await") /\ missed
  /\ IF child \in {"ended", "failed"} THEN GiveUp /\ UNCHANGED missed
     ELSE missed' = FALSE /\ UNCHANGED <<pc, child, verdict>>
  /\ UNCHANGED <<test, revokes, stored, created, asked, answers, unclean, failures>>

DeleteNamedKey ==
  /\ Running("delete") /\ stored' = stored \ {Step.what} /\ Advance
  /\ UNCHANGED <<test, revokes, missed, created, child, asked, answers, unclean, failures>>

\* Steps that look at what there is: signatures, the gate, a name, the child's exit.
Examine ==
  /\ verdict = "running" /\ Step.op \in {"raw", "judge", "gone", "look", "reap"}
  /\ Step.op = "reap" => child \in {"ended", "failed"}
  /\ IF CASE Step.op = "raw" -> RawPasses(Step.what)
          [] Step.op = "judge" -> Judgement(Step.what) = Expected[Step.what]
          [] Step.op = "gone" -> Step.what \notin stored
          [] Step.op = "look" -> TRUE
          [] Step.op = "reap" -> child = "ended"
       THEN Advance /\ UNCHANGED child
       ELSE GiveUp
  /\ UNCHANGED <<test, revokes, missed, stored, created, asked, answers, unclean, failures>>

\* The snapshot round trip, the active key's signature and the parent's handle.
Continue ==
  /\ verdict = "running" /\ Step.op \in {"snapshot", "sign", "close"}
  /\ Advance
  /\ UNCHANGED <<test, revokes, missed, stored, created, child, asked, answers, unclean, failures>>

\* Any other step reports an error, or its wait of twenty seconds runs out.
StepFails ==
  /\ verdict = "running" /\ Step.op # "create"
  /\ MayFailOnce /\ GiveUp
  /\ UNCHANGED <<test, revokes, missed, stored, created, asked, answers, unclean>>

-----------------------------------------------------------------------------
(* The child                                                               *)

OpenHandle ==
  /\ child = "starting"
  /\ child' = IF "old" \in stored THEN "up" ELSE "failed"
  /\ UNCHANGED <<test, revokes, missed, pc, stored, created, asked, answers, unclean, failures, verdict>>

\* The labels are answered in their order; a handle the provider has revoked gives an
\* error status, which is an answer as well.
SignHeld ==
  /\ child = "up"
  /\ \E n \in DOMAIN Labels :
       /\ DOMAIN answers = {Labels[m] : m \in 1..(n - 1)} /\ Labels[n] \in asked
       /\ answers' = [l \in DOMAIN answers \cup {Labels[n]} |->
                        IF l \in DOMAIN answers THEN answers[l]
                        ELSE IF revokes /\ "old" \notin stored THEN [error |-> "retired"]
                        ELSE [by |-> "old", over |-> Claims[l]]]
       /\ child' = IF n = Len(Labels) THEN "ended" ELSE child
  /\ UNCHANGED <<test, revokes, missed, pc, stored, created, asked, unclean, failures, verdict>>

\* It stops at an error, or has waited for a digest for twenty seconds.
ChildFails ==
  /\ child \in {"starting", "up"}
  /\ \/ MayFailOnce
     \/ verdict # "running" /\ UNCHANGED failures
  /\ child' = "failed"
  /\ UNCHANGED <<test, revokes, missed, pc, stored, created, asked, answers, unclean, verdict>>

-----------------------------------------------------------------------------
(* The end                                                                 *)

\* child.kill(), and the wait after it returns; a child that has exited needs neither.
KillChild ==
  /\ verdict = "ending" /\ verdict' = "failing"
  /\ child' = IF child \in {"starting", "up"} THEN "failed" ELSE child
  /\ UNCHANGED <<test, revokes, missed, pc, stored, created, asked, answers, unclean, failures>>

\* The error of a kill is ignored, ...
KillFails ==
  /\ verdict = "ending" /\ MayFailOnce /\ verdict' = "waiting"
  /\ UNCHANGED <<test, revokes, missed, pc, stored, created, child, asked, answers, unclean>>

\* ... so the wait lasts as long as the child does, ...
WaitReturns ==
  /\ verdict = "waiting" /\ child \notin {"starting", "up"} /\ verdict' = "failing"
  /\ UNCHANGED <<test, revokes, missed, pc, stored, created, child, asked, answers, unclean, failures>>

\* ... unless it fails, which is ignored as well.
WaitFails ==
  /\ verdict = "waiting" /\ MayFailOnce /\ verdict' = "failing"
  /\ unclean' = unclean \cup {"child"}
  /\ UNCHANGED <<test, revokes, missed, pc, stored, created, child, asked, answers>>

\* cleanup_exact of every key the controller has created, then the result.
CleanUp ==
  /\ verdict \in {"passing", "failing"}
  /\ \E stuck \in SUBSET created :
       /\ failures + Cardinality(stuck) <= MaxFailures
       /\ failures' = failures + Cardinality(stuck)
       /\ stored' = stored \ (created \ stuck)
       /\ unclean' = unclean \cup stuck
       /\ verdict' = IF verdict = "passing" /\ stuck = {} THEN "passed" ELSE "failed"
  /\ UNCHANGED <<test, revokes, missed, pc, created, child, asked, answers>>

\* The controller's process is killed.
ControllerKilled ==
  /\ verdict \in {"running", "ending", "waiting", "passing", "failing"}
  /\ MayFailOnce /\ verdict' = "killed"
  /\ UNCHANGED <<test, revokes, missed, pc, stored, created, child, asked, answers, unclean>>

\* The command --cleanup-exact, for one name the controller has printed.
CleanupExact ==
  /\ verdict \in {"failed", "killed"}
  /\ \E r \in stored : stored' = stored \ {r} /\ unclean' = unclean \ {r}
  /\ UNCHANGED <<test, revokes, missed, pc, created, child, asked, answers, failures, verdict>>

KeyNext ==
  \/ Create \/ CreateFails \/ RollbackFails \/ Spawn \/ WriteDigest \/ LookForFile
  \/ PollChild \/ DeleteNamedKey \/ Examine \/ Continue \/ StepFails
  \/ OpenHandle \/ SignHeld \/ ChildFails
  \/ KillChild \/ KillFails \/ WaitReturns \/ WaitFails
  \/ CleanUp \/ ControllerKilled \/ CleanupExact

KeySpec == KeyInit /\ [][KeyNext]_keyVars

-----------------------------------------------------------------------------
(* Properties                                                              *)

\* The test comes to the decisions it prints, the four rejections of the gate with
\* their reasons included, unless an operation has failed, or SEC-018 meets a provider
\* that takes the old handle away and so leaves nothing to judge, or the child writes its
\* last answer and exits after the controller has looked for it and before it polls.
KeyTestPasses ==
  verdict \in {"ending", "failing", "failed"} =>
    \/ failures > 0
    \/ test = "sec018" /\ revokes /\ pc = 13
    \/ missed /\ child = "ended" /\ Step.what \in DOMAIN answers

\* A controller that ends on its own leaves no child behind but one it could neither
\* kill nor wait for, and no key under a name it has created but one it reports, and in
\* both cases the test has not passed.
NoKeyIsLeft ==
  verdict \in {"passed", "failed"} =>
    /\ child \in {"starting", "up"} => "child" \in unclean
    /\ stored \subseteq unclean
    /\ unclean # {} => verdict = "failed"
=============================================================================
