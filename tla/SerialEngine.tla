---------------------------- MODULE SerialEngine ----------------------------
(***************************************************************************)
(* What the locking engines promise: every transaction happens at once, in *)
(* some order; it spends all its inputs if they are live, and nothing if   *)
(* one is not.                                                             *)
(***************************************************************************)
EXTENDS Batches

VARIABLES contended, unspent, committed, aborted

serialVars == <<contended, unspent, committed, aborted>>

SerialInit ==
  /\ contended \in SUBSET (AllTxs \ {0})
  /\ unspent = Serials /\ committed = {} /\ aborted = {}

Commit(t) ==
  /\ t \notin committed \cup aborted
  /\ Refs(t, contended) \subseteq unspent
  /\ unspent' = unspent \ Refs(t, contended)
  /\ committed' = committed \cup {t}
  /\ UNCHANGED <<contended, aborted>>

Abort(t) ==
  /\ t \notin committed \cup aborted
  /\ \E u \in committed : Refs(t, contended) \cap Refs(u, contended) # {}
  /\ aborted' = aborted \cup {t}
  /\ UNCHANGED <<contended, unspent, committed>>

SerialNext == \E t \in AllTxs : Commit(t) \/ Abort(t)

SerialSpec == SerialInit /\ [][SerialNext]_serialVars
=============================================================================
