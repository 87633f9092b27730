----------------------------- MODULE Admission -----------------------------
(***************************************************************************)
(* admit_plan (src/locusmesh/policy.py): a pure function of the plan, the  *)
(* operator's policy and the time.  It never stops at the first reason; it *)
(* collects all of them, here as a set of tuples <<code, ...>>.            *)
(***************************************************************************)
EXTENDS Contracts

\* The reason a failed check contributes.
Flag(fails, reason) == IF fails THEN {reason} ELSE {}

\* Mutant: A limit that only stops the very instant it names.
EndedJustNow(now, until) == now = until

\* A window is over at its end already.
Ended(now, until) == now >= until

TopologyDigest(topology) == Sha256Digest(<<"topology", topology>>)
PolicyDigest(policy) == Sha256Digest(<<"policy", policy>>)

\* policy.minimum_evidence.get(intent)
RequiredEvidence(policy, intent) ==
    IF intent \in DOMAIN policy.minimum_evidence
    THEN policy.minimum_evidence[intent] ELSE None

\* Mutant: What the name of _minimum_scope says.
NarrowestScope(scopes) ==
    IF scopes = {} THEN None
    ELSE CHOOSE s \in scopes : \A u \in scopes : ScopeRank(s) <= ScopeRank(u)

\* _minimum_scope, which takes the widest, and _minimum_evidence.
WidestScope(scopes) ==
    IF scopes = {} THEN None
    ELSE CHOOSE s \in scopes : \A u \in scopes : ScopeRank(u) <= ScopeRank(s)

WeakestEvidence(levels) ==
    IF levels = {} THEN None
    ELSE CHOOSE e \in levels : \A u \in levels : EvidenceRank(e) <= EvidenceRank(u)

Hops(plan) == {plan.hop_peer_ids[i] : i \in DOMAIN plan.hop_peer_ids}

\* Mutant: Off by one: the last hop is reached unchecked.
LegsButTheLast(plan) ==
    {<<plan.hop_peer_ids[i], plan.hop_peer_ids[i + 1]>> :
        i \in 1..(Len(plan.hop_peer_ids) - 2)}

\* The source and target of every pair of consecutive hops.
Legs(plan) ==
    {<<plan.hop_peer_ids[i], plan.hop_peer_ids[i + 1]>> :
        i \in 1..(Len(plan.hop_peer_ids) - 1)}

\* Mutant: Every pinned peer, on the route or not.
PinnedPeers(plan, policy) == DOMAIN policy.topology.peers

KnownHops(plan, policy) == Hops(plan) \cap DOMAIN policy.topology.peers

RouteReasons(plan, policy, now) ==
    LET hops     == plan.hop_peer_ids
        topology == policy.topology
        repeated == \E i, j \in DOMAIN hops : i # j /\ hops[i] = hops[j]
    IN  UNION {
        Flag(plan.intent \notin policy.allowed_intents, <<"INTENT_NOT_ALLOWED">>),
        Flag(now < plan.created_at, <<"PLAN_NOT_YET_VALID">>),
        Flag(Ended(now, plan.expires_at), <<"PLAN_EXPIRED">>),
        Flag(now < topology.captured_at, <<"TOPOLOGY_NOT_YET_VALID">>),
        Flag(Ended(now, topology.expires_at), <<"TOPOLOGY_EXPIRED">>),
        Flag(Len(hops) > policy.max_hops, <<"MAX_HOPS_EXCEEDED">>),
        Flag(repeated, <<"DUPLICATE_PEER">>),
        Flag(plan.intent = "device_only" /\ hops # <<topology.local_peer_id>>,
             <<"DEVICE_ONLY_REQUIRES_LOCAL_SINGLE_HOP">>),
        {<<"EDGE_NOT_ALLOWED", leg[1], leg[2]>> : leg \in Legs(plan) \ topology.edges},
        Flag(RequiredEvidence(policy, plan.intent) = "hardware_attested",
             <<"HARDWARE_ATTESTATION_UNSUPPORTED">>) }

\* The loop body for one hop whose manifest the policy pins.
PeerReasons(id, peer, plan, required, now) ==
    UNION {
        Flag(now < peer.valid_from, <<"PEER_NOT_YET_VALID", id>>),
        Flag(Ended(now, peer.expires_at), <<"PEER_EXPIRED", id>>),
        Flag(ScopeRank(peer.execution_scope) > ScopeRank(plan.intent), <<"SCOPE_WIDENING", id>>),
        Flag(peer.model_digest # plan.model_digest, <<"MODEL_DIGEST_MISMATCH", id>>),
        Flag(peer.runtime_digest # plan.runtime_digest, <<"RUNTIME_DIGEST_MISMATCH", id>>),
        Flag(~KeyDerives(peer.public_key), <<"PEER_PUBLIC_KEY_INVALID", id>>),
        Flag(KeyDerives(peer.public_key) /\ DeriveKeyId(peer.public_key) # peer.key_id,
             <<"PEER_KEY_BINDING_INVALID", id>>),
        Flag(/\ required # None
             /\ EvidenceRank(EffectiveEvidence(peer.evidence_level)) < EvidenceRank(required),
             <<"EVIDENCE_BELOW_FLOOR", id>>) }

\* Mutant: Unknown hops skipped without a reason.
LenientReasons(plan, policy, now) ==
    LET peers == policy.topology.peers
        required == RequiredEvidence(policy, plan.intent)
    IN  RouteReasons(plan, policy, now)
        \cup UNION {PeerReasons(id, peers[id], plan, required, now) :
                       id \in KnownHops(plan, policy)}

AdmitReasons(plan, policy, now) ==
    LET peers == policy.topology.peers
        required == RequiredEvidence(policy, plan.intent)
    IN  RouteReasons(plan, policy, now)
        \cup {<<"PEER_UNKNOWN", id>> : id \in Hops(plan) \ DOMAIN peers}
        \cup UNION {PeerReasons(id, peers[id], plan, required, now) :
                       id \in KnownHops(plan, policy)}

\* Mutant: The reason codes of an admission left empty.
SilentAdmitPlan(plan, policy, now) ==
    LET reasons == AdmitReasons(plan, policy, now)
    IN  [ decision_kind |-> "plan_admission", admitted |-> reasons = {}, reason_codes |-> reasons,
          evaluated_at |-> now, checked_hops |-> Len(plan.hop_peer_ids),
          route_digest |-> Sha256Digest(plan), attestation_digest |-> None,
          policy_digest |-> PolicyDigest(policy),
          topology_digest |-> TopologyDigest(policy.topology),
          requested_intent |-> plan.intent, effective_scope |-> plan.intent,
          required_evidence |-> RequiredEvidence(policy, plan.intent),
          effective_evidence |-> RequiredEvidence(policy, plan.intent) ]

AdmitPlan(plan, policy, now) ==
    LET peers    == policy.topology.peers
        known    == KnownHops(plan, policy)
        reasons  == AdmitReasons(plan, policy, now)
    IN  [ decision_kind      |-> "plan_admission",
          admitted           |-> reasons = {},
          reason_codes       |-> IF reasons = {} THEN {<<"ADMITTED">>} ELSE reasons,
          evaluated_at       |-> now,
          checked_hops       |-> Len(plan.hop_peer_ids),
          route_digest       |-> Sha256Digest(plan),
          attestation_digest |-> None,
          policy_digest      |-> PolicyDigest(policy),
          topology_digest    |-> TopologyDigest(policy.topology),
          requested_intent   |-> plan.intent,
          effective_scope    |-> WidestScope({peers[id].execution_scope : id \in known}),
          required_evidence  |-> RequiredEvidence(policy, plan.intent),
          effective_evidence |->
              WeakestEvidence({EffectiveEvidence(peers[id].evidence_level) : id \in known}) ]
=============================================================================
