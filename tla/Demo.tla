-------------------------------- MODULE Demo --------------------------------
(***************************************************************************)
(* run_demo (src/locusmesh/demo.py): fixed plans under a fixed policy, as  *)
(* arguments of verify_attestation and admit_plan.  Days, hours and        *)
(* minutes around the demo's instant become three, two and one.  Peers and *)
(* their keys go by one name.                                              *)
(***************************************************************************)
EXTENDS Verification

DemoTime == 1

DemoManifest(id, scope) ==
    [ execution_scope |-> scope, model_digest |-> "m", runtime_digest |-> "r",
      evidence_level |-> "peer_asserted", key_id |-> DeriveKeyId(id), public_key |-> id,
      valid_from |-> DemoTime - 3, expires_at |-> DemoTime + 3 ]

DemoPeers == {"device-local", "private-peer", "loopback-public"}

DemoTopology ==
    [ local_peer_id |-> "device-local",
      captured_at   |-> DemoTime - 2, expires_at |-> DemoTime + 2,
      peers         |-> [ id \in DemoPeers |->
                            DemoManifest(id, CASE id = "device-local"    -> "device_only"
                                               [] id = "private-peer"    -> "private_mesh"
                                               [] id = "loopback-public" -> "public_mesh") ],
      edges         |-> {<<"device-local", "private-peer">>, <<"device-local", "loopback-public">>} ]

DemoPolicy ==
    [ allowed_intents  |-> {"device_only", "private_mesh"}, max_hops |-> 3,
      minimum_evidence |-> [ i \in {"device_only", "private_mesh"} |->
                               IF i = "device_only" THEN "observed" ELSE "peer_asserted" ],
      topology         |-> DemoTopology ]

DemoPlan(name, intent, hops) ==
    [ request_id |-> name, nonce |-> name, request_commitment |-> name, intent |-> intent,
      model_digest |-> "m", runtime_digest |-> "r", hop_peer_ids |-> hops,
      created_at |-> DemoTime - 1, expires_at |-> DemoTime + 1 ]

DevicePlan == DemoPlan("device", "device_only", <<"device-local">>)
PrivatePlan == DemoPlan("private", "private_mesh", <<"device-local", "private-peer">>)
EscapePlan == DemoPlan("escape", "device_only", <<"loopback-public">>)

Attested(demoPlan) ==
    BuildAttestation(demoPlan, DemoPolicy, [id \in DemoPeers |-> id], DemoTime, << >>)

\* Mutant: The first character of the signature is replaced by itself.
UntamperedReceipt(receipt) == receipt

\* Another first character: a signature nobody made.
TamperedReceipt(receipt) == [receipt EXCEPT !.signature = <<"altered", @>>]

DeviceAttestation == Attested(DevicePlan)
PrivateAttestation == Attested(PrivatePlan)
Tampered == [DeviceAttestation EXCEPT !.receipts = <<TamperedReceipt(@[1])>>]

DemoAttestations == {DeviceAttestation, PrivateAttestation, Tampered}

EscapeReasons == AdmitReasons(EscapePlan, DemoPolicy, DemoTime)

-----------------------------------------------------------------------------
\* The demo tells one story whoever else uses the library in between: the honest
\* attestations pass, or with a store may find their nonce spent; the public peer
\* on a loopback address does not pass for the device; and one altered character
\* is found, by the signature check alone (demo.py:145-169; "deterministic",
\* demo.py:1).
DemoTellsItsStory ==
    /\ EscapeReasons =
          {<<"DEVICE_ONLY_REQUIRES_LOCAL_SINGLE_HOP">>, <<"SCOPE_WIDENING", "loopback-public">>}
    /\ decision # None /\ policy = DemoPolicy /\ now = DemoTime =>
          /\ attestation \in {DeviceAttestation, PrivateAttestation} =>
                \/ decision.admitted
                \/ withStore /\ decision.reason_codes = {<<"REPLAY_DETECTED">>}
          /\ attestation = Tampered => decision.reason_codes = {<<"SIGNATURE_INVALID">>}
=============================================================================
