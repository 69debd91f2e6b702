-------------------------------- MODULE Wire --------------------------------
(***************************************************************************)
(* The wire format, integration001/src/wire.rs, and what a connection of   *)
(* node.rs does with a frame: what a value becomes in bytes, and what      *)
(* bytes that were cut, extended or altered on their way are taken for.    *)
(* The writer and the reader of each type are written down apart, as in    *)
(* the code; a writer returns the set of its encodings, empty if it        *)
(* refuses the value.                                                      *)
(*                                                                         *)
(* A number, a key, a digest or a signature is one token, whatever its     *)
(* width, so bytes missing within a token are a token that is missing.  A  *)
(* map is the set of its entries, written in an order that depends on the  *)
(* map alone.                                                              *)
(***************************************************************************)
EXTENDS Integers, SequencesExt

CONSTANTS
  Messages,       \* what is written: pairs of a type and a value of it
  Noise,          \* tokens that may take the place of others
  MaxFrameLen, MaxCollectionLen, MaxOutputs, MaxVotes, MaxMembers

VARIABLES
  message,   \* the message on its way
  channel,   \* how far it is, at the end the reader's verdict
  bytes,     \* its bytes, damaged or not
  written,   \* its bytes as they were written
  got        \* what the reader took the bytes for, if anything

wireVars == <<message, channel, bytes, written, got>>

-----------------------------------------------------------------------------
(* Formats                                                                 *)

Plain == [kind |-> "plain"]
Code(codes) == [kind |-> "code", codes |-> codes]
Flag == Code({0, 1})
\* The fields are pairs of a name and a format.
Part(fields) == [kind |-> "part", fields |-> fields]
\* Items whose keys differ, for each key the path to it; <<>> is the whole item.
Many(low, high, keys, item) ==
  [kind |-> "many", low |-> low, high |-> high, keys |-> keys, item |-> item]
Maybe(item) == Many(0, 1, {}, item)
Table(key, item) == [kind |-> "table", key |-> key, item |-> item]
\* The first token chooses the format of the rest.
Tagged(choices) == [kind |-> "tagged", choices |-> choices]

Plains(names) == [n \in DOMAIN names |-> <<names[n], Plain>>]
At(item, path) == FoldLeft(LAMBDA x, name : x[name], item, path)
Distinct(items, keys) ==
  \A key \in keys : \A m, n \in DOMAIN items :
    At(items[m], key) = At(items[n], key) => m = n

RECURSIVE Put(_, _), Take(_, _)

PutEach(formats, values) ==
  FoldLeftDomain(LAMBDA sofar, n : {a \o b : a \in sofar, b \in Put(formats[n], values[n])},
                 {<<>>}, values)

PutItems(item, items) ==
  {<<Len(items)>> \o b : b \in PutEach([n \in DOMAIN items |-> item], items)}

\* The encodings of x: none, or one.
Put(format, x) ==
  CASE format.kind = "plain" -> {<<x>>}
    [] format.kind = "code" -> IF x \in format.codes THEN {<<x>>} ELSE {}
    [] format.kind = "part" ->
         PutEach([n \in DOMAIN format.fields |-> format.fields[n][2]],
                 [n \in DOMAIN format.fields |-> x[format.fields[n][1]]])
    [] format.kind = "many" ->
         IF Len(x) \in format.low..format.high /\ Distinct(x, format.keys)
           THEN PutItems(format.item, x) ELSE {}
    [] format.kind = "table" ->
         IF Cardinality(x) <= MaxCollectionLen
              /\ \A entry \in x : At(entry.item, format.key) = entry.key
           THEN PutItems(format.item, [n \in 1..Cardinality(x) |-> SetToSeq(x)[n].item])
           ELSE {}
    [] format.kind = "tagged" ->
         {<<x.tag>> \o b : b \in Put(format.choices[x.tag], x)}

\* The values that can be read off the front of b, and what is left: none, or one.
TakeItems(item, count, b) ==
  FoldLeft(LAMBDA sofar, n : {[value |-> Append(s.value, t.value), rest |-> t.rest] :
                                t \in UNION {Take(item, s.rest) : s \in sofar}, s \in sofar},
           {[value |-> <<>>, rest |-> b]}, [n \in 1..count |-> n])

TakeFields(fields, b) ==
  FoldLeft(LAMBDA sofar, field :
             {[value |-> field[1] :> t.value @@ s.value, rest |-> t.rest] :
                t \in UNION {Take(field[2], s.rest) : s \in sofar}, s \in sofar},
           {[value |-> <<>>, rest |-> b]}, fields)

Take(format, b) ==
  IF b = <<>> /\ format # Part(<<>>) THEN {}
  ELSE
  CASE format.kind = "plain" -> {[value |-> Head(b), rest |-> Tail(b)]}
    [] format.kind = "code" ->
         {[value |-> x, rest |-> Tail(b)] : x \in {Head(b)} \cap format.codes}
    [] format.kind = "part" -> TakeFields(format.fields, b)
    [] format.kind = "many" ->
         IF Head(b) \in format.low..format.high
           THEN {t \in TakeItems(format.item, Head(b), Tail(b)) :
                   Distinct(t.value, format.keys)}
           ELSE {}
    [] format.kind = "table" ->
         IF Head(b) \in 0..MaxCollectionLen
           THEN {[value |-> {[key |-> At(item, format.key), item |-> item] :
                               item \in ToSet(t.value)}, rest |-> t.rest] :
                   t \in {u \in TakeItems(format.item, Head(b), Tail(b)) :
                            Distinct(u.value, {format.key})}}
           ELSE {}
    [] format.kind = "tagged" ->
         IF Head(b) \in DOMAIN format.choices
           THEN {[value |-> "tag" :> Head(b) @@ t.value, rest |-> t.rest] :
                   t \in Take(format.choices[Head(b)], Tail(b))}
           ELSE {}

-----------------------------------------------------------------------------
(* The types                                                               *)

PutMember == Part(Plains(<<"index", "public_key">>))
TakeMember == Part(Plains(<<"index", "public_key">>))
PutManifest ==
  Part(Plains(<<"network_id", "epoch", "threshold">>)
       \o <<<<"members", Many(0, MaxMembers, {}, PutMember)>>>>)
TakeManifest ==
  Part(Plains(<<"network_id", "epoch", "threshold">>)
       \o <<<<"members", Many(0, MaxMembers, {<<"index">>}, TakeMember)>>>>)

PutCellRef == Part(Plains(<<"asset_id", "id", "generation">>))
TakeCellRef == Part(Plains(<<"asset_id", "id", "generation">>))
PutCell == Part(<<<<"reference", PutCellRef>>>>
                \o Plains(<<"amount", "owner", "predecessor", "state_digest">>))
TakeCell == Part(<<<<"reference", TakeCellRef>>>>
                 \o Plains(<<"amount", "owner", "predecessor", "state_digest">>))
PutOutput == Part(Plains(<<"asset_id", "amount", "owner">>))
TakeOutput == Part(Plains(<<"asset_id", "amount", "owner">>))

PutTx ==
  Part(Plains(<<"version", "network_id", "epoch", "committee_hash">>)
       \o <<<<"input", PutCell>>, <<"outputs", Many(1, MaxOutputs, {}, PutOutput)>>>>
       \o Plains(<<"fee", "salt">>))
TakeTx ==
  Part(Plains(<<"version", "network_id", "epoch", "committee_hash">>)
       \o <<<<"input", TakeCell>>, <<"outputs", Many(1, MaxOutputs, {}, TakeOutput)>>>>
       \o Plains(<<"fee", "salt">>))

PutUserAuth == Part(Plains(<<"signer", "signature">>))
TakeUserAuth == Part(Plains(<<"signer", "signature">>))

VotePhase == Code({1, 2})
PutVote ==
  Part(Plains(<<"network_id", "epoch", "committee_hash">>) \o <<<<"phase", VotePhase>>>>
       \o Plains(<<"round", "conflict_key", "intent", "justify", "signer_index",
                   "signature">>))
TakeVote ==
  Part(Plains(<<"network_id", "epoch", "committee_hash">>) \o <<<<"phase", VotePhase>>>>
       \o Plains(<<"round", "conflict_key", "intent", "justify", "signer_index",
                   "signature">>))

PutQc == Part(<<<<"votes", Many(1, MaxVotes, {}, PutVote)>>>>)
TakeQc == Part(<<<<"votes", Many(1, MaxVotes, {}, TakeVote)>>>>)

PutProposal ==
  Part(Plains(<<"round", "proposer_index">>) \o <<<<"tx", PutTx>>, <<"auth", PutUserAuth>>>>
       \o Plains(<<"intent">>) \o <<<<"justify", Maybe(PutQc)>>>> \o Plains(<<"signature">>))
TakeProposal ==
  Part(Plains(<<"round", "proposer_index">>) \o <<<<"tx", TakeTx>>, <<"auth", TakeUserAuth>>>>
       \o Plains(<<"intent">>) \o <<<<"justify", Maybe(TakeQc)>>>> \o Plains(<<"signature">>))

PutReceipt ==
  Part(Plains(<<"intent", "certificate_digest">>)
       \o <<<<"output_refs", Many(0, MaxOutputs + 1, {}, PutCellRef)>>>>)
\* A mutant: no more outputs than a transaction may have, though there may be one more.
TakeShortReceipt ==
  Part(Plains(<<"intent", "certificate_digest">>)
       \o <<<<"output_refs", Many(0, MaxOutputs, {}, TakeCellRef)>>>>)
TakeReceipt ==
  Part(Plains(<<"intent", "certificate_digest">>)
       \o <<<<"output_refs", Many(0, MaxOutputs + 1, {}, TakeCellRef)>>>>)

PutState ==
  Part(<<<<"live", Table(<<"reference">>, PutCell)>>,
         <<"spent_by", Table(<<"reference">>,
                             Part(<<<<"reference", PutCellRef>>, <<"intent", Plain>>>>))>>,
         <<"known_ids", Table(<<>>, Plain)>>,
         <<"applied", Table(<<"intent">>, PutReceipt)>>>>)
TakeState ==
  Part(<<<<"live", Table(<<"reference">>, TakeCell)>>,
         <<"spent_by", Table(<<"reference">>,
                             Part(<<<<"reference", TakeCellRef>>, <<"intent", Plain>>>>))>>,
         <<"known_ids", Table(<<>>, Plain)>>,
         <<"applied", Table(<<"intent">>, TakeReceipt)>>>>)

PutSnapshot ==
  Part(<<<<"cells", Many(0, MaxCollectionLen, {<<"reference">>}, PutCell)>>>>)
TakeSnapshot ==
  Part(<<<<"cells", Many(0, MaxCollectionLen, {<<"reference">>}, TakeCell)>>>>)

\* Ping, Prevote, Precommit, Apply and QueryState.
PutRequest ==
  Tagged((1 :> Part(<<>>)) @@ (2 :> Part(<<<<"proposal", PutProposal>>>>))
         @@ (3 :> Part(<<<<"proposal", PutProposal>>, <<"prevote_qc", PutQc>>>>))
         @@ (4 :> Part(<<<<"tx", PutTx>>, <<"auth", PutUserAuth>>, <<"prevote_qc", PutQc>>,
                         <<"finality_qc", PutQc>>>>))
         @@ (5 :> Part(<<>>)))
TakeRequest ==
  Tagged((1 :> Part(<<>>)) @@ (2 :> Part(<<<<"proposal", TakeProposal>>>>))
         @@ (3 :> Part(<<<<"proposal", TakeProposal>>, <<"prevote_qc", TakeQc>>>>))
         @@ (4 :> Part(<<<<"tx", TakeTx>>, <<"auth", TakeUserAuth>>, <<"prevote_qc", TakeQc>>,
                         <<"finality_qc", TakeQc>>>>))
         @@ (5 :> Part(<<>>)))

Stages == Code({1, 2, 3})

\* Pong, Vote, Applied, State and Rejected; there is no tag 5.
PutResponse ==
  Tagged((1 :> Part(Plains(<<"index", "epoch", "committee_hash">>)))
         @@ (2 :> Part(<<<<"vote", PutVote>>>>))
         @@ (3 :> Part(Plains(<<"state_root">>) \o <<<<"idempotent", Flag>>>>))
         @@ (4 :> Part(Plains(<<"state_root", "snapshot_bytes", "wal_bytes">>)
                       \o <<<<"lifecycle", Stages>>>>))
         @@ (6 :> Part(Plains(<<"code">>))))
TakeResponse ==
  Tagged((1 :> Part(Plains(<<"index", "epoch", "committee_hash">>)))
         @@ (2 :> Part(<<<<"vote", TakeVote>>>>))
         @@ (3 :> Part(Plains(<<"state_root">>) \o <<<<"idempotent", Flag>>>>))
         @@ (4 :> Part(Plains(<<"state_root", "snapshot_bytes", "wal_bytes">>)
                       \o <<<<"lifecycle", Stages>>>>))
         @@ (6 :> Part(Plains(<<"code">>))))

Writers ==
  [manifest |-> PutManifest, state |-> PutState, snapshot |-> PutSnapshot,
   request |-> PutRequest, response |-> PutResponse]
Readers ==
  [manifest |-> TakeManifest, state |-> TakeState, snapshot |-> TakeSnapshot,
   request |-> TakeRequest, response |-> TakeResponse]

\* A mutant: bytes after the value are left unread.
DecodingsOfTheFront(type, b) ==
  IF Len(b) > MaxFrameLen THEN {} ELSE {t.value : t \in Take(Readers[type], b)}

\* A writer's bytes are never longer than a frame may be.
Encodings(type, x) == {b \in Put(Writers[type], x) : Len(b) <= MaxFrameLen}
\* A reader must use its bytes up.
Decodings(type, b) ==
  IF Len(b) > MaxFrameLen THEN {}
  ELSE {t.value : t \in {u \in Take(Readers[type], b) : u.rest = <<>>}}

-----------------------------------------------------------------------------
(* One message on its way                                                  *)

\* Requests and responses travel in frames, the others are kept in files.
Framed == message[1] \in {"request", "response"}

WireInit ==
  /\ message \in Messages
  /\ channel = "idle" /\ bytes = <<>> /\ written = <<>> /\ got = {}

WriteFrame(payload) == IF Framed THEN <<Len(payload)>> \o payload ELSE payload

WriteMessage ==
  /\ channel = "idle"
  /\ \E payload \in Encodings(message[1], message[2]) :
       bytes' = WriteFrame(payload) /\ written' = bytes'
  /\ channel' = "whole"
  /\ UNCHANGED <<message, got>>

RefuseToWrite ==
  /\ channel = "idle" /\ Encodings(message[1], message[2]) = {}
  /\ channel' = "unwritten"
  /\ UNCHANGED <<message, bytes, written, got>>

CutShort ==
  /\ channel = "whole"
  /\ \E n \in 0..(Len(bytes) - 1) : bytes' = SubSeq(bytes, 1, n)
  /\ channel' = "cut"
  /\ UNCHANGED <<message, written, got>>

Alter ==
  /\ channel = "whole"
  /\ \E n \in DOMAIN bytes, t \in Noise :
       t # bytes[n] /\ bytes' = [bytes EXCEPT ![n] = t]
  /\ channel' = "altered"
  /\ UNCHANGED <<message, written, got>>

\* Part of the bytes appear twice, with the length of the frame put right or not.
Repeat ==
  /\ channel = "whole"
  /\ \E m, n \in DOMAIN bytes :
       /\ m <= n /\ n - m < 8
       /\ \E fits \in BOOLEAN :
            LET longer == SubSeq(bytes, 1, n) \o SubSeq(bytes, m, Len(bytes)) IN
            bytes' = IF fits /\ Framed /\ m > 1 THEN [longer EXCEPT ![1] = Len(longer) - 1]
                     ELSE longer
  /\ channel' = "repeated"
  /\ UNCHANGED <<message, written, got>>

\* The payload of the frame at the front of the stream; what follows is not looked at.
ReadPayload ==
  IF ~Framed THEN {bytes}
  ELSE IF bytes # <<>> /\ Head(bytes) <= MaxFrameLen /\ Head(bytes) < Len(bytes)
    THEN {SubSeq(bytes, 2, Head(bytes) + 1)}
    ELSE {}

\* What serve_connection makes of a request, and a client of the response.
ReadMessage ==
  /\ channel \in {"whole", "cut", "altered", "repeated"}
  /\ got' = UNION {Decodings(message[1], payload) : payload \in ReadPayload}
  /\ channel' = IF ReadPayload = {} THEN "bad_frame"
                ELSE IF got' = {} THEN "bad_request" ELSE "accepted"
  /\ UNCHANGED <<message, bytes, written>>

WireNext ==
  WriteMessage \/ RefuseToWrite \/ CutShort \/ Alter \/ Repeat \/ ReadMessage

WireSpec == WireInit /\ [][WireNext]_wireVars

-----------------------------------------------------------------------------
(* Properties                                                              *)

\* The entries of a map may be read in any order, and are written in one.
SameBytes(a, b) ==
  a = b \/ (message[1] = "state" /\ SortSeq(a, <) = SortSeq(b, <))

\* Bytes that arrive as they were written are read, and as the value that was
\* written; bytes that lack their end are never read as anything; and bytes that are
\* read at all are those of the value they are read as, but for the order of map
\* entries: no bytes stand for two values, so that a digest taken over what was read
\* is the digest of what was sent.
WireIsExact ==
  /\ bytes = written /\ channel \in {"bad_frame", "bad_request", "accepted"} =>
       got = {message[2]}
  /\ channel = "accepted" =>
       /\ ~IsStrictPrefix(bytes, written)
       /\ \A x \in got, payload \in ReadPayload :
            \E again \in Encodings(message[1], x) : SameBytes(again, payload)
=============================================================================
