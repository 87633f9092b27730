--------------------------- MODULE MCVerification ---------------------------
(***************************************************************************)
(* A two-hop plan and two one-hop plans that share a nonce, policies that  *)
(* pin both peers or one, and the attestations a carrier can make of what  *)
(* the peers signed: honest ones at every time and level, spliced,         *)
(* swapped, truncated and extended ones, and ones with one field off;      *)
(* beside them the plans, the policy and the attestations of the demo.     *)
(***************************************************************************)
EXTENDS Demo

CONSTANTS local, near, model, other, keyL, keyN

MCKeys == {keyL, keyN} \cup DemoPeers
KeyOf == [id \in {local, near} |-> IF id = local THEN keyL ELSE keyN]

Manifest(id, scope, evidence) ==
    [ execution_scope |-> scope, model_digest |-> model, runtime_digest |-> model,
      evidence_level |-> evidence, key_id |-> DeriveKeyId(KeyOf[id]),
      public_key |-> KeyOf[id], valid_from |-> 0, expires_at |-> 3 ]

Pinned(ids, edges, floor) ==
    [ allowed_intents |-> {"device_only", "private_mesh"}, max_hops |-> 2,
      minimum_evidence |-> [i \in {"device_only", "private_mesh"} |-> floor],
      topology |-> [ local_peer_id |-> local, captured_at |-> 0, expires_at |-> 3,
          peers |-> [id \in ids |->
                        IF id = local THEN Manifest(local, "device_only", "hardware_attested")
                        ELSE Manifest(near, "private_mesh", "peer_asserted")],
          edges |-> edges ] ]

Usual == Pinned({local, near}, {<<local, near>>}, "observed")
Widened == Pinned({local, near}, {<<local, near>>, <<near, local>>}, "observed")
Strict == Pinned({local, near}, {<<local, near>>}, "peer_asserted")
Lonely == Pinned({local}, {}, "observed")
MCPolicies == {Usual, Widened, Strict, Lonely, DemoPolicy}

Plan(intent, hops, until) ==
    [ request_id |-> "r", nonce |-> "n", request_commitment |-> "c", intent |-> intent,
      model_digest |-> model, runtime_digest |-> model,
      hop_peer_ids |-> hops, created_at |-> 0, expires_at |-> until ]

Pair == Plan("private_mesh", <<local, near>>, 3)
Solo == Plan("device_only", <<local>>, 2)
Away == Plan("private_mesh", <<near>>, 2)

\* Receipts of Pair, the second one made after the first.
First(p, t, level) == SignedReceipt(ReceiptBinding(Pair, p, 1, None), level, t, keyL)
Second(p, r, t, level) == SignedReceipt(ReceiptBinding(Pair, p, 2, r), level, t, keyN)
Chain(r1, r2) == [plan |-> Pair, receipts |-> <<r1, r2>>]

\* A value no expected binding has in that field.
Wrong(f, value) ==
    CASE f = "intent" -> "public_mesh"
      [] f \in {"hop_index", "hop_count"} -> value + 1
      [] OTHER -> other

Misbound(r, f, key) ==
    SignedReceipt([r.binding EXCEPT ![f] = Wrong(f, @)], r.evidence_level, r.observed_at, key)

Good1 == First(Usual, 0, "peer_asserted")
Good2 == Second(Usual, Good1, 1, "peer_asserted")
Late1 == First(Usual, 1, "observed")

Honest ==
    {BuildAttestation(plan_, p, KeyOf, t, levels) :
        plan_ \in {Pair, Solo, Away}, p \in {Usual, Widened}, t \in {0, 2},
        levels \in {<<>>, [id \in {local, near} |-> "observed"]}}

Timed ==
    {LET r == First(Usual, t1, l[1]) IN Chain(r, Second(Usual, r, t2, l[2])) :
        t1 \in 0..2, t2 \in 0..2,
        l \in {<<"observed", "observed">>, <<"observed", "hardware_attested">>,
               <<"hardware_attested", "peer_asserted">>}}

OneFieldOff ==
    {LET r == Misbound(Good1, f, keyL) IN Chain(r, Second(Usual, r, 1, "observed")) :
        f \in BindingFields}
    \cup {Chain(Good1, Misbound(Good2, f, keyN)) : f \in BindingFields}

Reassembled ==
    { Chain(Good2, Good1), Chain(Good1, Good1), Chain(Late1, Good2),
      Chain(Good1, Second(Widened, Good1, 1, "observed")),
      Chain(Good1, [Good2 EXCEPT !.evidence_level = "observed"]),
      Chain(Good1, [Good2 EXCEPT !.signature = Good1.signature]),
      Chain(Good1, [Good2 EXCEPT !.key_id = DeriveKeyId(keyL)]),
      Chain(Good1, SignedReceipt(Good2.binding, "observed", 1, keyL)),
      [plan |-> Pair, receipts |-> <<Good1>>],
      [plan |-> Pair, receipts |-> <<Good1, Good2, Good2>>],
      [plan |-> Solo, receipts |-> <<Good1>>],
      [plan |-> Solo, receipts |-> <<Good1, Good2>>] }

MCAttestations == Honest \cup Timed \cup OneFieldOff \cup Reassembled \cup DemoAttestations
=============================================================================
