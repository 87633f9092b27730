---------------------------- MODULE Observation ----------------------------
(***************************************************************************)
(* MeshLlmStatusObserver._project (src/locusmesh/adapters/mesh_llm.py): a  *)
(* Mesh-LLM status document becomes a bounded FabricObservation, or is     *)
(* refused as a whole.  A node of the document is its id, state, models    *)
(* and owner flag; a field is None when it is missing, of another type,    *)
(* empty or too long, which _string, _boolean and _mapping do not tell     *)
(* apart.  A name is an opaque value.                                      *)
(***************************************************************************)
EXTENDS Contracts, Functions

CONSTANTS
    MaxCandidates,    \* _MAX_CANDIDATES and the contract's max_length, 256
    MaxModels,        \* _MAX_MODELS and the contract's max_length, 256
    MaxTtl,           \* the longest lifetime of an observation, 60 seconds
    PeerIds,          \* the ids that match the contract's pattern
    LowerCase         \* str.lower, a function on the state names that occur

NodeStates == {"client", "standby", "loading", "serving"}
MeshScopes == {"private_mesh", "public_mesh"}

\* Lists of unique, bounded, non-empty strings.
Models(list) ==
    /\ list # None
    /\ Len(list) <= MaxModels
    /\ None \notin Range(list)
    /\ IsInjective(list)

SupportedNode(node) ==
    /\ node # None
    /\ node.id # None
    /\ node.state # None /\ LowerCase[node.state] \in NodeStates
    /\ Models(node.serving_models)
    /\ node.verified # None

\* Everything _project demands of a document before it builds candidates.
Supported(status) ==
    /\ status.version # None
    /\ SupportedNode(status.local)
    /\ \A f \in DOMAIN status.discovery : status.discovery[f] # None
    /\ status.peers # None
    /\ Len(status.peers) < MaxCandidates
    /\ \A i \in DOMAIN status.peers : SupportedNode(status.peers[i])

ProjectNode(node) ==
    [ candidate_id |-> node.id, state |-> LowerCase[node.state],
      serving_models |-> node.serving_models,
      provider_claimed_owner_verified |-> node.verified ]

\* What the digest is computed over.
Projection(status) ==
    [ provider_version |-> status.version,
      local            |-> ProjectNode(status.local),
      peers            |-> [i \in DOMAIN status.peers |-> ProjectNode(status.peers[i])],
      discovery        |-> status.discovery ]

\* Mutant: Any private signal is enough.
ScopeByAnySignal(discovery) ==
    IF \/ discovery.publication_state = "private"
       \/ discovery.discovery_scope \in {"private", "lan", "local"}
       \/ discovery.mesh_discovery_mode \in {"mdns", "private", "local"}
    THEN "private_mesh" ELSE "public_mesh"

\* _observed_scope
ObservedScope(discovery) ==
    IF /\ discovery.publication_state = "private"
       /\ discovery.discovery_scope \in {"private", "lan", "local"}
       /\ discovery.mesh_discovery_mode \in {"mdns", "private", "local"}
       /\ ~discovery.nostr_discovery
    THEN "private_mesh" ELSE "public_mesh"

Candidate(projected, localNode, scope) ==
    [ candidate |-> projected, local_node |-> localNode, observed_scope |-> scope ]

\* Mutant: Surplus peers are left out.
CandidatesThatFit(projection, scope) ==
    <<Candidate(projection.local, TRUE, scope)>>
    \o [i \in DOMAIN projection.peers \cap 1..(MaxCandidates - 2)
            |-> Candidate(projection.peers[i], FALSE, scope)]

Candidates(projection, scope) ==
    <<Candidate(projection.local, TRUE, scope)>>
    \o [i \in DOMAIN projection.peers |-> Candidate(projection.peers[i], FALSE, scope)]

SignalReason(scope) ==
    IF scope = "private_mesh" THEN "PRIVATE_LAN_STATUS_SIGNAL"
    ELSE "PUBLIC_OR_AMBIGUOUS_STATUS_SIGNAL"

ScopeReason(within) ==
    IF within THEN "SCOPE_SIGNAL_WITHIN_MAXIMUM" ELSE "SCOPE_SIGNAL_EXCEEDS_MAXIMUM"

\* The FabricObservation _project hands to its validator.
Project(status, now, ttl, maxScope) ==
    LET projection == Projection(status)
        scope      == ObservedScope(status.discovery)
        within     == ScopeRank(scope) <= ScopeRank(maxScope)
    IN  [ provider_version       |-> status.version,
          projection_digest      |-> Sha256Digest(projection),
          observed_at            |-> now,
          expires_at             |-> now + ttl,
          requested_max_scope    |-> maxScope,
          observed_scope         |-> scope,
          within_requested_scope |-> within,
          candidates             |-> Candidates(projection, scope),
          reason_codes           |-> {"OBSERVATION_ONLY", "UNVERSIONED_PROVIDER_SCHEMA",
                                      SignalReason(scope), ScopeReason(within)} ]

\* FabricCandidateObservation
ValidCandidate(c) ==
    /\ c.candidate.candidate_id \in PeerIds
    /\ Models(c.candidate.serving_models)
    /\ c.observed_scope \in MeshScopes

\* FabricObservation._coherent_observation and the bounds of its fields.
ValidObservation(o) ==
    /\ o.observed_at < o.expires_at
    /\ o.expires_at - o.observed_at <= MaxTtl
    /\ Len(o.candidates) \in 1..MaxCandidates
    /\ \A i \in DOMAIN o.candidates :
          /\ ValidCandidate(o.candidates[i])
          /\ o.candidates[i].observed_scope = o.observed_scope
    /\ IsInjective([i \in DOMAIN o.candidates |-> o.candidates[i].candidate.candidate_id])
    /\ {"OBSERVATION_ONLY", SignalReason(o.observed_scope), ScopeReason(o.within_requested_scope)}
           \subseteq o.reason_codes
    /\ o.within_requested_scope =
           (ScopeRank(o.observed_scope) <= ScopeRank(o.requested_max_scope))
=============================================================================
