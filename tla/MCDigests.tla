----------------------------- MODULE MCDigests -----------------------------
(***************************************************************************)
(* Three peers and three edges, two of them from one source, so that every *)
(* sort key has ties of its first part to break; a route over two hops and *)
(* one over a single hop.                                                  *)
(***************************************************************************)
EXTENDS Digests

CONSTANTS key, model, request

Reversed(s) == [i \in DOMAIN s |-> s[Len(s) + 1 - i]]

Peer(id, scope) ==
    [ peer_id |-> id,
      manifest |-> [ execution_scope |-> scope, model_digest |-> model, runtime_digest |-> model,
                     evidence_level |-> "peer_asserted", key_id |-> DeriveKeyId(key),
                     public_key |-> key, valid_from |-> 0, expires_at |-> 3 ] ]

MCKeys == {key}

BaseFile ==
    [ allowed_intents |-> <<"device_only", "private_mesh">>, max_hops |-> 2,
      minimum_evidence |-> [i \in {"device_only", "private_mesh"} |-> "observed"],
      topology |->
        [ snapshot_id |-> "s1", local_peer_id |-> 1,
          captured_at |-> <<1, "Z">>, expires_at |-> <<3, "Z">>,
          peers |-> <<Peer(1, "device_only"), Peer(2, "private_mesh"), Peer(3, "public_mesh")>>,
          edges |-> <<<<1, 2>>, <<1, 3>>, <<2, 3>>>> ] ]

MCPolicyFiles == {BaseFile}

MCTopologyEdits(t) ==
    { [t EXCEPT !.peers = Reversed(@)], [t EXCEPT !.edges = Reversed(@)],
      [t EXCEPT !.edges = Append(@, <<2, 1>>)],
      [t EXCEPT !.edges = IF @ = << >> THEN @ ELSE Tail(@)],
      [t EXCEPT !.captured_at = <<1, "+01:00">>], [t EXCEPT !.captured_at = <<2, "Z">>],
      [t EXCEPT !.expires_at = <<2, "Z">>],
      [t EXCEPT !.peers[1].manifest.execution_scope = "private_mesh"],
      [t EXCEPT !.snapshot_id = "s2"] }

Plan(intent, hops) ==
    [ intent |-> intent, hop_peer_ids |-> hops, created_at |-> 0, expires_at |-> 3,
      model_digest |-> model, runtime_digest |-> model, request |-> request ]

MCPlans == {Plan("device_only", <<1>>), Plan("private_mesh", <<1, 2>>)}
=============================================================================
