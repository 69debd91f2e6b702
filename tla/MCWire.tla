------------------------------- MODULE MCWire -------------------------------
(***************************************************************************)
(* Values of the wire format for TLC: each type, with collections empty,   *)
(* at their limit and past it.                                             *)
(***************************************************************************)
EXTENDS Wire

SampleRef(n) == [asset_id |-> 1, id |-> n, generation |-> n]
SampleCell(n) ==
  [reference |-> SampleRef(n), amount |-> 100, owner |-> 7, predecessor |-> n,
   state_digest |-> 0]
SampleOutput == [asset_id |-> 1, amount |-> 2, owner |-> 9]
SampleTx(outputs) ==
  [version |-> 1, network_id |-> 1, epoch |-> 3, committee_hash |-> 4,
   input |-> SampleCell(5), outputs |-> [n \in 1..outputs |-> SampleOutput],
   fee |-> 1, salt |-> 8]
SampleAuth == [signer |-> 9, signature |-> 10]
SampleVote(phase, index) ==
  [network_id |-> 1, epoch |-> 3, committee_hash |-> 4, phase |-> phase, round |-> 3,
   conflict_key |-> 12, intent |-> 13, justify |-> 14, signer_index |-> index,
   signature |-> 15]
SampleQc(votes) == [votes |-> [n \in 1..votes |-> SampleVote(2, n)]]
SampleProposal(justify) ==
  [round |-> 2, proposer_index |-> 2, tx |-> SampleTx(1), auth |-> SampleAuth,
   intent |-> 16, justify |-> justify, signature |-> 17]
SampleReceipt(intent, refs) ==
  [intent |-> intent, certificate_digest |-> 21,
   output_refs |-> [n \in 1..refs |-> SampleRef(n)]]
Entry(key, item) == [key |-> key, item |-> item]
SampleState(ids, refs) ==
  [live |-> {Entry(SampleRef(n), SampleCell(n)) : n \in ids},
   spent_by |-> {Entry(SampleRef(3), [reference |-> SampleRef(3), intent |-> 22])},
   known_ids |-> {Entry(n, n) : n \in ids},
   applied |-> {Entry(20, SampleReceipt(20, refs))}]
SampleManifest(members) ==
  [network_id |-> 1, epoch |-> 3, threshold |-> 5,
   members |-> [n \in 1..members |-> [index |-> n, public_key |-> 2]]]

SampleMessages ==
  {<<"manifest", SampleManifest(n)>> : n \in 0..(MaxMembers + 1)}
  \cup {<<"state", SampleState(ids, refs)>> : ids \in SUBSET (1..(MaxCollectionLen + 1)),
                                              refs \in {0, MaxOutputs + 1, MaxOutputs + 2}}
  \cup {<<"state", [SampleState({1}, 0) EXCEPT !.live = {Entry(SampleRef(2), SampleCell(1))}]>>}
  \cup {<<"snapshot", [cells |-> cells]>> :
          cells \in {<<>>, <<SampleCell(1), SampleCell(2)>>, <<SampleCell(1), SampleCell(1)>>}}
  \cup {<<"request", [tag |-> t]>> : t \in {1, 5}}
  \cup {<<"request", [tag |-> 2, proposal |-> SampleProposal(j)]>> : j \in {<<>>, <<SampleQc(1)>>}}
  \cup {<<"request", [tag |-> 3, proposal |-> SampleProposal(<<>>), prevote_qc |-> SampleQc(n)]>> :
          n \in 0..(MaxVotes + 1)}
  \cup {<<"request", [tag |-> 4, tx |-> SampleTx(n), auth |-> SampleAuth,
                      prevote_qc |-> SampleQc(1), finality_qc |-> SampleQc(1)]>> :
          n \in 0..(MaxOutputs + 1)}
  \cup {<<"response", r>> :
          r \in {[tag |-> 1, index |-> 2, epoch |-> 3, committee_hash |-> 4],
                 [tag |-> 2, vote |-> SampleVote(1, 0)], [tag |-> 2, vote |-> SampleVote(3, 0)],
                 [tag |-> 3, state_root |-> 33, idempotent |-> 1],
                 [tag |-> 4, state_root |-> 34, snapshot_bytes |-> 12, wal_bytes |-> 13,
                  lifecycle |-> 2],
                 [tag |-> 6, code |-> 7]}}
=============================================================================
