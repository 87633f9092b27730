---------------------------- MODULE Attestation ----------------------------
(***************************************************************************)
(* The pure parts of src/locusmesh/attestation.py: what a receipt at one   *)
(* position must bind, how build_attestation signs a chain, which reasons  *)
(* one receipt contributes, and the denials made from a plan admission.    *)
(* Positions are 1-based here and hop_index is 0-based as in the code.     *)
(***************************************************************************)
EXTENDS Admission

PreviousPeer(hops, i) == IF i = 1 THEN None ELSE hops[i - 1]
NextPeer(hops, i) == IF i < Len(hops) THEN hops[i + 1] ELSE None

\* sha256_digest of the complete previous receipt, signature included.
ReceiptDigest(receipt) == IF receipt = None THEN None ELSE Sha256Digest(receipt)

-----------------------------------------------------------------------------
(* build_attestation *)

\* The fields of the unsigned receipt of hop i, made after "previous".
ReceiptBinding(plan, policy, i, previous) ==
    LET hops == plan.hop_peer_ids
    IN  [ request_id              |-> plan.request_id,
          nonce                   |-> plan.nonce,
          request_commitment      |-> plan.request_commitment,
          route_plan_digest       |-> Sha256Digest(plan),
          policy_digest           |-> PolicyDigest(policy),
          topology_digest         |-> TopologyDigest(policy.topology),
          intent                  |-> plan.intent,
          hop_index               |-> i - 1,
          hop_count               |-> Len(hops),
          peer_id                 |-> hops[i],
          previous_peer_id        |-> PreviousPeer(hops, i),
          next_peer_id            |-> NextPeer(hops, i),
          previous_receipt_digest |-> ReceiptDigest(previous),
          model_digest            |-> plan.model_digest,
          runtime_digest          |-> plan.runtime_digest ]

\* The loop body: sign the binding together with the peer's own claims.
SignedReceipt(binding, level, observedAt, signingKey) ==
    LET unsigned == [ binding |-> binding, evidence_level |-> level,
                      observed_at |-> observedAt, key_id |-> DeriveKeyId(signingKey) ]
    IN  [ binding |-> binding, evidence_level |-> level, observed_at |-> observedAt,
          key_id |-> DeriveKeyId(signingKey),
          signature |-> Sign(signingKey, SigningPayload(unsigned)) ]

\* "signers" maps a peer to the key its signer holds; "levels" may override the
\* evidence level of some peers.
BuildAttestation(plan, policy, signers, observedAt, levels) ==
    LET hops == plan.hop_peer_ids
        level(id) == IF id \in DOMAIN levels THEN levels[id]
                     ELSE policy.topology.peers[id].evidence_level
        receipts[i \in 1..Len(hops)] ==
            SignedReceipt(
                ReceiptBinding(plan, policy, i, IF i = 1 THEN None ELSE receipts[i - 1]),
                level(hops[i]), observedAt, signers[hops[i]])
    IN  [plan |-> plan, receipts |-> receipts]

-----------------------------------------------------------------------------
(* verify_attestation, one receipt *)

\* exact_fields: the verifier computes every value again, from the plan and the
\* policy it was given and from the receipt before.
ExpectedBinding(plan, policy, i, previous) ==
    [f \in BindingFields |->
        CASE f \in {"request_id", "nonce", "request_commitment", "intent",
                    "model_digest", "runtime_digest"} -> plan[f]
          [] f = "route_plan_digest"       -> Sha256Digest(plan)
          [] f = "policy_digest"           -> PolicyDigest(policy)
          [] f = "topology_digest"         -> TopologyDigest(policy.topology)
          [] f = "hop_index"               -> i - 1
          [] f = "hop_count"               -> Len(plan.hop_peer_ids)
          [] f = "peer_id"                 -> plan.hop_peer_ids[i]
          [] f = "previous_peer_id"        -> PreviousPeer(plan.hop_peer_ids, i)
          [] f = "next_peer_id"            -> NextPeer(plan.hop_peer_ids, i)
          [] f = "previous_receipt_digest" -> ReceiptDigest(previous)]

\* Mutant: A chain whose links are not compared.
UnlinkedBindingReasons(receipt, expected) ==
    {<<"RECEIPT_MISMATCH", f>> :
        f \in {g \in BindingFields \ {"previous_receipt_digest"} :
                  receipt.binding[g] # expected[g]}}

BindingReasons(receipt, expected) ==
    {<<"RECEIPT_MISMATCH", f>> : f \in {g \in BindingFields : receipt.binding[g] # expected[g]}}

\* Mutant: Equal times taken for reversed ones.
NotLater(receipt, previous) ==
    previous # None /\ receipt.observed_at <= previous.observed_at

TimeReversed(receipt, previous) ==
    previous # None /\ receipt.observed_at < previous.observed_at

\* What the manifest of the expected peer rules out.
ManifestReasons(receipt, previous, peer, plan, policy, now) ==
    LET at       == receipt.observed_at
        topology == policy.topology
        credited == EffectiveEvidence(receipt.evidence_level)
        required == policy.minimum_evidence[plan.intent]
    IN  UNION {
        Flag(~Within(at, plan.created_at, plan.expires_at), <<"RECEIPT_OUTSIDE_PLAN_WINDOW">>),
        Flag(at > now, <<"RECEIPT_FROM_FUTURE">>),
        Flag(~Within(at, topology.captured_at, topology.expires_at),
             <<"RECEIPT_OUTSIDE_TOPOLOGY_WINDOW">>),
        Flag(TimeReversed(receipt, previous), <<"RECEIPT_TIME_REVERSED">>),
        Flag(~Within(at, peer.valid_from, peer.expires_at), <<"RECEIPT_OUTSIDE_PEER_WINDOW">>),
        Flag(receipt.key_id # peer.key_id, <<"RECEIPT_KEY_ID_MISMATCH">>),
        Flag(~KeyDerives(peer.public_key), <<"PEER_PUBLIC_KEY_INVALID">>),
        Flag(KeyDerives(peer.public_key) /\ DeriveKeyId(peer.public_key) # peer.key_id,
             <<"PEER_KEY_BINDING_INVALID">>),
        Flag(/\ KeyDerives(peer.public_key)
             /\ ~VerifyEd25519(peer.public_key, SigningPayload(receipt), receipt.signature),
             <<"SIGNATURE_INVALID">>),
        Flag(EvidenceRank(receipt.evidence_level) > EvidenceRank(peer.evidence_level),
             <<"RECEIPT_EVIDENCE_EXCEEDS_MANIFEST">>),
        Flag(EvidenceRank(credited) < EvidenceRank(required), <<"RECEIPT_EVIDENCE_BELOW_FLOOR">>) }

ReceiptReasons(receipt, i, previous, plan, policy, now) ==
    LET id    == plan.hop_peer_ids[i]
        peers == policy.topology.peers
    IN  BindingReasons(receipt, ExpectedBinding(plan, policy, i, previous))
        \cup IF id \notin DOMAIN peers THEN {<<"PEER_UNKNOWN", id>>}
             ELSE ManifestReasons(receipt, previous, peers[id], plan, policy, now)

-----------------------------------------------------------------------------
(* Decisions: model_copy of the plan admission, which validates nothing *)

AttestationDigest(attestation) == Sha256Digest(<<"attestation", attestation>>)

\* Mutant: A denial that forgets to clear the verdict of the admission it copies.
DenyInName(base, reasons, checkedHops, attestationDigest) ==
    [base EXCEPT !.decision_kind = "attestation_verification",
                 !.reason_codes = reasons,
                 !.checked_hops = checkedHops,
                 !.attestation_digest = attestationDigest]

Deny(base, reasons, checkedHops, attestationDigest) ==
    [base EXCEPT !.admitted = FALSE,
                 !.decision_kind = "attestation_verification",
                 !.reason_codes = reasons,
                 !.checked_hops = checkedHops,
                 !.attestation_digest = attestationDigest]

\* The plan itself was not admissible.
DenyPlan(base, attestationDigest) ==
    [base EXCEPT !.decision_kind = "attestation_verification",
                 !.attestation_digest = attestationDigest]

\* Mutant: The manifests' evidence reported as if the receipts had carried it.
AdmitOnManifests(base, credited, attestationDigest) ==
    [base EXCEPT !.decision_kind = "attestation_verification",
                 !.attestation_digest = attestationDigest]

AdmitAttestation(base, credited, attestationDigest) ==
    [base EXCEPT !.decision_kind = "attestation_verification",
                 !.attestation_digest = attestationDigest,
                 !.effective_evidence = WeakestEvidence(credited)]
=============================================================================
