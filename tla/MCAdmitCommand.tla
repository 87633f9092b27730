--------------------------- MODULE MCAdmitCommand ---------------------------
(***************************************************************************)
(* A local peer and a private one, a third that joins by an edit, routes   *)
(* of up to three hops, and an edit for every field admission reads.       *)
(***************************************************************************)
EXTENDS AdmitCommand

CONSTANTS local, near, far, modelA, modelB, keyL, keyN, keyF, badKey

MCKeys == {keyL, keyN, keyF}
Key(id) == CASE id = local -> keyL [] id = near -> keyN [] id = far -> keyF

Manifest(id, scope, evidence) ==
    [ execution_scope |-> scope, model_digest |-> modelA, runtime_digest |-> modelA,
      evidence_level |-> evidence, key_id |-> DeriveKeyId(Key(id)), public_key |-> Key(id),
      valid_from |-> 0, expires_at |-> 3 ]

FarPeer == Manifest(far, "public_mesh", "hardware_attested")

BasePolicy ==
    [ allowed_intents |-> {"device_only", "private_mesh"},
      max_hops |-> 2,
      minimum_evidence |-> [i \in {"device_only", "private_mesh"} |-> "observed"],
      topology |->
        [ local_peer_id |-> local, captured_at |-> 0, expires_at |-> 3,
          peers |-> [id \in {local, near} |->
                        IF id = local THEN Manifest(local, "device_only", "hardware_attested")
                        ELSE Manifest(near, "private_mesh", "peer_asserted")],
          edges |-> {<<local, near>>} ] ]

\* Three peers in a line and every intent allowed, the public one included.
WidePolicy ==
    [ BasePolicy EXCEPT !.allowed_intents = Intents, !.max_hops = 3,
        !.minimum_evidence = [i \in Intents |-> "observed"],
        !.topology.peers = [id \in {local, near, far} |->
            IF id = far THEN FarPeer ELSE BasePolicy.topology.peers[id]],
        !.topology.edges = {<<local, near>>, <<near, far>>} ]

MCPolicies == {BasePolicy, WidePolicy}

\* Edits of one manifest.
AmendedPeer(m) ==
    {[m EXCEPT !.execution_scope = s] : s \in {"private_mesh", "public_mesh"}}
    \cup {[m EXCEPT !.evidence_level = e] : e \in {"observed", "hardware_attested"}}
    \cup {[m EXCEPT !.model_digest = modelB], [m EXCEPT !.runtime_digest = modelB],
          [m EXCEPT !.public_key = badKey], [m EXCEPT !.key_id = DeriveKeyId(keyF)],
          [m EXCEPT !.valid_from = 1], [m EXCEPT !.expires_at = 2]}

AmendedTopology(t) ==
    LET known == DOMAIN t.peers
        joined == [t EXCEPT !.peers = [id \in known \cup {far} |->
                                          IF id = far THEN FarPeer ELSE t.peers[id]]]
        left(gone) == [t EXCEPT !.peers = [id \in known \ {gone} |-> t.peers[id]],
                                !.edges = {e \in t.edges : gone \notin {e[1], e[2]}}]
    IN  UNION {{[t EXCEPT !.peers[id] = m] : m \in AmendedPeer(t.peers[id])} : id \in known \ {local}}
        \cup {joined}
        \cup {left(near), left(far)}
        \cup {[t EXCEPT !.edges = @ \cup {e}] : e \in {<<local, near>>, <<near, far>>, <<near, local>>}}
        \cup {[t EXCEPT !.edges = @ \ {e}] : e \in t.edges}
        \cup {[t EXCEPT !.captured_at = 1], [t EXCEPT !.expires_at = 2]}

MCAmended(p) ==
    {[p EXCEPT !.topology = t] : t \in AmendedTopology(p.topology)}
    \cup {[p EXCEPT !.allowed_intents = @ \ {i}] : i \in p.allowed_intents}
    \cup {[p EXCEPT !.allowed_intents = @ \cup {"public_mesh"}]}
    \cup {[p EXCEPT !.minimum_evidence = [i \in Intents |-> e]] : e \in EvidenceLevels}
    \cup {[p EXCEPT !.max_hops = h] : h \in {1, 3}}

Plan(intent, hops) ==
    [ request_id |-> "r", nonce |-> "n", request_commitment |-> "c",
      intent |-> intent, model_digest |-> modelA, runtime_digest |-> modelA,
      hop_peer_ids |-> hops, created_at |-> 0, expires_at |-> 3 ]

MCPlans ==
    { Plan("device_only", <<local>>), Plan("device_only", <<near>>),
      Plan("private_mesh", <<local, near>>), Plan("public_mesh", <<local, near, far>>),
      Plan("private_mesh", <<local, near, local>>), Plan("device_only", <<local, near>>),
      Plan("private_mesh", <<near>>),
      [Plan("private_mesh", <<near>>) EXCEPT !.created_at = 1, !.expires_at = 2] }
=============================================================================
