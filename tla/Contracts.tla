----------------------------- MODULE Contracts -----------------------------
(***************************************************************************)
(* The wire contracts of src/locusmesh/models.py as records, with what     *)
(* their validators accept, and the two cryptographic ideas the rest rests *)
(* on (canonical.py, crypto.py).  Names, commitments and model or runtime  *)
(* digests are opaque values; times are integers.                          *)
(***************************************************************************)
EXTENDS Integers, Sequences

CONSTANTS
    None,             \* Python's None
    CanonicalKeys     \* the public keys that decode to 32 bytes and back

Intents == {"device_only", "private_mesh", "public_mesh"}
EvidenceLevels == {"observed", "peer_asserted", "hardware_attested"}
RouteLimit == 64

ASSUME NoneAssumption == None \notin EvidenceLevels \cup Intents

ScopeRank(scope) ==
    CASE scope = "device_only"  -> 0
      [] scope = "private_mesh" -> 1
      [] scope = "public_mesh"  -> 2

EvidenceRank(level) ==
    CASE level = "observed"          -> 0
      [] level = "peer_asserted"     -> 1
      [] level = "hardware_attested" -> 2

\* No policy or receipt is credited with more than a peer's own assertion.
EffectiveEvidence(claimed) ==
    IF claimed = "hardware_attested" THEN "peer_asserted" ELSE claimed

-----------------------------------------------------------------------------
(* Digests and signatures *)

\* SHA-256 over canonical JSON: equal exactly for equal values.
Sha256Digest(value) == <<"sha256", value>>

\* ValueError for a key that is not canonical base64url of 32 bytes.
KeyDerives(publicKey) == publicKey \in CanonicalKeys
DeriveKeyId(publicKey) == <<"ed25519:sha256", publicKey>>

\* Ed25519 as an ideal signature: it verifies under the key that made it, for
\* the payload it was made over, and never raises.
Sign(publicKey, payload) == <<"ed25519", publicKey, payload>>
VerifyEd25519(publicKey, payload, signature) ==
    /\ KeyDerives(publicKey)
    /\ signature = Sign(publicKey, payload)

-----------------------------------------------------------------------------
(* Validators *)

\* Every validity window is half open and not empty.
Within(t, from, to) == from <= t /\ t < to

ValidManifest(peer) ==
    /\ peer.execution_scope \in Intents
    /\ peer.evidence_level \in EvidenceLevels
    /\ {peer.valid_from, peer.expires_at} \subseteq Int
    /\ peer.valid_from < peer.expires_at

\* "peers" is a function from the unique peer ids, "edges" a set of pairs.
ValidTopology(topology) ==
    LET known == DOMAIN topology.peers
    IN  /\ \A p \in known : ValidManifest(topology.peers[p])
        /\ topology.local_peer_id \in known
        /\ topology.edges \subseteq known \X known
        /\ {topology.captured_at, topology.expires_at} \subseteq Int
        /\ topology.captured_at < topology.expires_at

ValidPolicy(policy) ==
    /\ policy.allowed_intents \subseteq Intents
    /\ policy.max_hops \in 1..RouteLimit
    /\ DOMAIN policy.minimum_evidence \subseteq Intents
    /\ policy.allowed_intents \subseteq DOMAIN policy.minimum_evidence
    /\ \A i \in DOMAIN policy.minimum_evidence :
          policy.minimum_evidence[i] \in EvidenceLevels
    /\ ValidTopology(policy.topology)

ValidPlan(plan) ==
    LET hops == plan.hop_peer_ids
    IN  /\ plan.intent \in Intents
        /\ hops \in Seq({hops[i] : i \in DOMAIN hops})
        /\ Len(hops) \in 1..RouteLimit
        /\ {plan.created_at, plan.expires_at} \subseteq Int
        /\ plan.created_at < plan.expires_at

\* A receipt is its binding (the fields fixed by plan, policy and position),
\* what the peer claims about itself, and a signature over all of these.
BindingFields ==
    { "request_id", "nonce", "request_commitment", "route_plan_digest",
      "policy_digest", "topology_digest", "intent", "hop_index", "hop_count",
      "peer_id", "previous_peer_id", "next_peer_id", "previous_receipt_digest",
      "model_digest", "runtime_digest" }

ValidReceipt(receipt) ==
    LET binding == receipt.binding
    IN  /\ receipt = [ binding |-> binding, evidence_level |-> receipt.evidence_level,
                       observed_at |-> receipt.observed_at, key_id |-> receipt.key_id,
                       signature |-> receipt.signature ]
        /\ binding = [f \in BindingFields |-> binding[f]]
        /\ binding.intent \in Intents
        /\ binding.hop_index \in 0..(RouteLimit - 1)
        /\ binding.hop_count \in 1..RouteLimit
        /\ receipt.evidence_level \in EvidenceLevels
        /\ receipt.observed_at \in Int

\* The complete body without the signature.
SigningPayload(receipt) ==
    <<receipt.binding, receipt.evidence_level, receipt.observed_at, receipt.key_id>>

ValidAttestation(attestation) ==
    LET receipts == attestation.receipts
    IN  /\ ValidPlan(attestation.plan)
        /\ receipts \in Seq({receipts[i] : i \in DOMAIN receipts})
        /\ Len(receipts) \in 1..RouteLimit
        /\ \A i \in DOMAIN receipts : ValidReceipt(receipts[i])

\* AdmissionDecision._decision_is_self_consistent; reason codes are tuples
\* whose first element is the code, their order is left out.
ValidDecision(d) ==
    /\ d.admitted =>
          /\ d.reason_codes = {<<"ADMITTED">>}
          /\ None \notin {d.route_digest, d.policy_digest, d.topology_digest}
          /\ d.requested_intent # None
          /\ d.decision_kind = "attestation_verification" => d.attestation_digest # None
    /\ ~d.admitted => d.reason_codes # {} /\ <<"ADMITTED">> \notin d.reason_codes
    /\ d.decision_kind = "plan_admission" => d.attestation_digest = None
=============================================================================
