-------------------------- MODULE VerificationProofs --------------------------
(***************************************************************************)
(* verify_attestation for every attestation, policy, store and time: the   *)
(* loop that collects reasons receipt by receipt accepts exactly the exact *)
(* chains, and what it returns and records follows from that, down to the  *)
(* four decisions of the demo.                                             *)
(***************************************************************************)
EXTENDS Demo, WellFoundedInduction, TLAPS

-----------------------------------------------------------------------------
(* The plan admission within *)

SamePolicyFile(p) == {p}

\* `locusmesh admit` on the plan and the policy of the call: what is proved of
\* admit_plan there holds of the call's plan admission.
Admitting == INSTANCE AdmitCommandProofs
    WITH Plans <- {a.plan : a \in Attestations}, Amended <- SamePolicyFile, Edits <- 0,
         decision <- base, edits <- 0

\* Both modules speak of the same admit_plan, contracts and ranks.
LEMMA SameAdmission ==
    ASSUME NEW k, NEW p, NEW t
    PROVE  /\ Admitting!ValidPlan(k) = ValidPlan(k)
           /\ Admitting!ValidPolicy(p) = ValidPolicy(p)
           /\ Admitting!AdmitReasons(k, p, t) = AdmitReasons(k, p, t)
           /\ Admitting!Hops(k) = Hops(k)
           /\ Admitting!RequiredEvidence(p, k.intent) = RequiredEvidence(p, k.intent)
  <1>1. Admitting!ValidPlan(k) = ValidPlan(k)
    BY DEF Admitting!ValidPlan, ValidPlan, Admitting!Intents, Intents,
           Admitting!RouteLimit, RouteLimit
  <1>2. Admitting!ValidPolicy(p) = ValidPolicy(p)
    BY DEF Admitting!ValidPolicy, ValidPolicy, Admitting!ValidTopology, ValidTopology,
           Admitting!ValidManifest, ValidManifest, Admitting!Intents, Intents,
           Admitting!EvidenceLevels, EvidenceLevels, Admitting!RouteLimit, RouteLimit
  <1>3. Admitting!AdmitReasons(k, p, t) = AdmitReasons(k, p, t)
    BY DEF Admitting!AdmitReasons, AdmitReasons, Admitting!RouteReasons, RouteReasons,
           Admitting!PeerReasons, PeerReasons, Admitting!RequiredEvidence, RequiredEvidence,
           Admitting!Hops, Hops, Admitting!Legs, Legs, Admitting!KnownHops, KnownHops,
           Admitting!Flag, Flag, Admitting!Ended, Ended, Admitting!ScopeRank, ScopeRank,
           Admitting!EvidenceRank, EvidenceRank, Admitting!EffectiveEvidence, EffectiveEvidence,
           Admitting!KeyDerives, KeyDerives, Admitting!DeriveKeyId, DeriveKeyId
  <1>4. Admitting!Hops(k) = Hops(k)
    BY DEF Admitting!Hops, Hops
  <1>5. Admitting!RequiredEvidence(p, k.intent) = RequiredEvidence(p, k.intent)
    BY DEF Admitting!RequiredEvidence, RequiredEvidence
  <1> QED
    BY <1>1, <1>2, <1>3, <1>4, <1>5

\* What AdmitCommand assumes of its plans and policies the validators say here.
LEMMA AdmissionAssumptions == Admitting!AdmitAssumption /\ Admitting!NoneAssumption
  <1>1. \A k : /\ Admitting!ValidPlan(k) = ValidPlan(k)
               /\ Admitting!ValidPolicy(k) = ValidPolicy(k)
    BY SameAdmission
  <1>2. Admitting!AdmitAssumption
    BY <1>1, VerificationAssumption DEF Admitting!AdmitAssumption, ValidAttestation
  <1>3. Admitting!NoneAssumption
    BY NoneAssumption DEF Admitting!NoneAssumption, Admitting!EvidenceLevels, EvidenceLevels,
                          Admitting!Intents, Intents
  <1> QED
    BY <1>2, <1>3

\* What a decision reports instead of the reasons of its checks.
Verdicts == {<<"ADMITTED">>, <<"REPLAY_DETECTED">>}

\* No check of the plan reports either.
LEMMA NoCheckIsAVerdict ==
    ASSUME NEW k, NEW p, NEW t
    PROVE  Verdicts \cap AdmitReasons(k, p, t) = {}
  <1>1. <<"ADMITTED">> \notin AdmitReasons(k, p, t)
    <2>1. <<"ADMITTED">> \notin Admitting!AdmitReasons(k, p, t)
      BY Admitting!NoCheckReportsSuccess, AdmissionAssumptions
    <2> QED
      BY <2>1, SameAdmission
  <1>2. <<"REPLAY_DETECTED">> \notin AdmitReasons(k, p, t)
    <2>1. \A id, peer, required : <<"REPLAY_DETECTED">> \notin PeerReasons(id, peer, k, required, t)
      BY DEF PeerReasons, Flag
    <2>2. <<"REPLAY_DETECTED">> \notin RouteReasons(k, p, t)
      BY DEF RouteReasons, Flag
    <2> QED
      BY <2>1, <2>2 DEF AdmitReasons
  <1> QED
    BY <1>1, <1>2 DEF Verdicts

\* _minimum_evidence returns a level of the set that none is below.
LEMMA WeakestIsCarried ==
    ASSUME NEW L \in SUBSET EvidenceLevels, L # {}
    PROVE  /\ WeakestEvidence(L) \in L
           /\ \A e \in L : EvidenceRank(WeakestEvidence(L)) <= EvidenceRank(e)
  <1>1. /\ Admitting!WeakestEvidence(L) = WeakestEvidence(L)
        /\ \A e : Admitting!EvidenceRank(e) = EvidenceRank(e)
    BY DEF Admitting!WeakestEvidence, WeakestEvidence, Admitting!EvidenceRank, EvidenceRank
  <1>2. L \in SUBSET Admitting!EvidenceLevels
    BY DEF Admitting!EvidenceLevels, EvidenceLevels
  <1> QED
    BY <1>1, <1>2, Admitting!WidestAndWeakest, AdmissionAssumptions

\* A peer is pinned with a key of its own and evidence that reaches the floor.
PinnedFor(id, k, p) ==
    LET peer  == p.topology.peers[id]
        floor == p.minimum_evidence[k.intent]
    IN  /\ id \in DOMAIN p.topology.peers
        /\ KeyDerives(peer.public_key) /\ peer.key_id = DeriveKeyId(peer.public_key)
        /\ peer.evidence_level \in EvidenceLevels /\ floor \in EvidenceLevels
        /\ EvidenceRank(floor) <= EvidenceRank(EffectiveEvidence(peer.evidence_level))

\* For an admissible plan the policy has a floor and pins every hop.
LEMMA AdmissiblePlan ==
    ASSUME NEW k, NEW p, NEW t \in Int, ValidPlan(k), ValidPolicy(p), AdmitReasons(k, p, t) = {}
    PROVE  /\ k.intent \in DOMAIN p.minimum_evidence
           /\ \A id \in Hops(k) : PinnedFor(id, k, p)
  <1> DEFINE floor == p.minimum_evidence[k.intent]
  <1>1. /\ Admitting!RouteFits(k, p, t)
        /\ \A id \in Hops(k) :
              /\ id \in DOMAIN p.topology.peers
              /\ Admitting!PeerFits(p.topology.peers[id], k, RequiredEvidence(p, k.intent), t)
    BY SameAdmission, Admitting!AdmissibleMeans, AdmissionAssumptions
  <1>2. k.intent \in p.allowed_intents
    BY <1>1 DEF Admitting!RouteFits
  <1>3. /\ k.intent \in DOMAIN p.minimum_evidence /\ RequiredEvidence(p, k.intent) = floor
        /\ floor \in EvidenceLevels /\ floor # None
    BY <1>2, NoneAssumption DEF ValidPolicy, RequiredEvidence
  <1>4. ASSUME NEW id \in Hops(k)
        PROVE  PinnedFor(id, k, p)
    <2> DEFINE peer == p.topology.peers[id]
    <2>1. id \in DOMAIN p.topology.peers /\ Admitting!PeerFits(peer, k, floor, t)
      BY <1>1, <1>3
    <2>2. peer.evidence_level \in EvidenceLevels
      BY <2>1 DEF ValidPolicy, ValidTopology, ValidManifest
    <2> HIDE DEF peer, floor
    <2>3. /\ KeyDerives(peer.public_key) /\ peer.key_id = DeriveKeyId(peer.public_key)
      BY <2>1 DEF Admitting!PeerFits, Admitting!KeyDerives, KeyDerives,
                  Admitting!DeriveKeyId, DeriveKeyId
    <2>4. EvidenceRank(floor) <= EvidenceRank(EffectiveEvidence(peer.evidence_level))
      <3>1. Admitting!EvidenceRank(floor)
              <= Admitting!EvidenceRank(Admitting!EffectiveEvidence(peer.evidence_level))
        BY <1>3, <2>1 DEF Admitting!PeerFits
      <3> QED
        BY <3>1 DEF Admitting!EvidenceRank, EvidenceRank,
                    Admitting!EffectiveEvidence, EffectiveEvidence
    <2> QED
      BY <1>3, <2>1, <2>2, <2>3, <2>4 DEF PinnedFor, peer, floor
  <1> QED
    BY <1>3, <1>4

\* The ranks are numbers, so "not above" and "at most" are the same.
LEMMA Ranks ==
    \A e \in EvidenceLevels : EvidenceRank(e) \in Int /\ EffectiveEvidence(e) \in EvidenceLevels
  BY DEF EvidenceLevels, EvidenceRank, EffectiveEvidence

\* A plan is a list of hops, numbered from 1.
LEMMA Positions ==
    ASSUME NEW k, ValidPlan(k)
    PROVE  /\ DOMAIN k.hop_peer_ids = 1..Len(k.hop_peer_ids)
           /\ \A i \in 1..Len(k.hop_peer_ids) : k.hop_peer_ids[i] \in Hops(k)
  BY DEF ValidPlan, Hops

-----------------------------------------------------------------------------
(* One receipt *)

\* exact_fields and build_attestation fix the same values, so a receipt without
\* a mismatch has the binding that a signer would have made.
LEMMA SameBinding ==
    ASSUME NEW a, NEW p, NEW i, NEW previous
    PROVE  ExpectedBinding(a, p, i, previous) = ReceiptBinding(a, p, i, previous)
  BY DEF ExpectedBinding, ReceiptBinding, BindingFields

LEMMA BindingMatches ==
    ASSUME NEW r, NEW a, NEW p, NEW i, NEW previous, ValidReceipt(r)
    PROVE  BindingReasons(r, ExpectedBinding(a, p, i, previous)) = {}
              <=> r.binding = ReceiptBinding(a, p, i, previous)
  <1> DEFINE expected == ExpectedBinding(a, p, i, previous)
  <1>1. BindingReasons(r, expected) = {} <=> \A g \in BindingFields : r.binding[g] = expected[g]
    BY DEF BindingReasons
  <1>2. r.binding = [f \in BindingFields |-> r.binding[f]]
    BY DEF ValidReceipt
  <1>3. expected = [f \in BindingFields |-> expected[f]]
    BY SameBinding DEF ReceiptBinding, BindingFields
  <1>4. (\A g \in BindingFields : r.binding[g] = expected[g]) <=> r.binding = expected
    <2> HIDE DEF expected
    <2> QED
      BY <1>2, <1>3
  <1> QED
    BY <1>1, <1>4, SameBinding

\* The receipt before position i of a list of receipts.
Preceding(list, i) == IF i = 1 THEN None ELSE list[i - 1]

\* What a receipt of a valid shape is made of.
LEMMA ReceiptShape ==
    ASSUME NEW r, ValidReceipt(r)
    PROVE  /\ r.observed_at \in Int /\ r.evidence_level \in EvidenceLevels
           /\ r = [ binding |-> r.binding, evidence_level |-> r.evidence_level,
                    observed_at |-> r.observed_at, key_id |-> r.key_id, signature |-> r.signature ]
  BY DEF ValidReceipt

\* What the manifest of a peer with a key of its own leaves to find.
LEMMA ManifestReasonsEmpty ==
    ASSUME NEW r, NEW previous, NEW peer, NEW k, NEW p, NEW t,
           KeyDerives(peer.public_key), peer.key_id = DeriveKeyId(peer.public_key)
    PROVE  ManifestReasons(r, previous, peer, k, p, t) = {} <=>
              /\ Within(r.observed_at, k.created_at, k.expires_at)
              /\ ~(r.observed_at > t)
              /\ Within(r.observed_at, p.topology.captured_at, p.topology.expires_at)
              /\ ~TimeReversed(r, previous)
              /\ Within(r.observed_at, peer.valid_from, peer.expires_at)
              /\ r.key_id = peer.key_id
              /\ VerifyEd25519(peer.public_key, SigningPayload(r), r.signature)
              /\ ~(EvidenceRank(r.evidence_level) > EvidenceRank(peer.evidence_level))
              /\ ~(EvidenceRank(EffectiveEvidence(r.evidence_level))
                      < EvidenceRank(p.minimum_evidence[k.intent]))
  BY DEF ManifestReasons, Flag

\* About a pinned hop the binding and the manifest are all there is to find.
LEMMA ReceiptReasonsEmpty ==
    ASSUME NEW r, NEW i, NEW previous, NEW k, NEW p, NEW t,
           k.hop_peer_ids[i] \in DOMAIN p.topology.peers
    PROVE  ReceiptReasons(r, i, previous, k, p, t) = {} <=>
              /\ BindingReasons(r, ExpectedBinding(k, p, i, previous)) = {}
              /\ ManifestReasons(r, previous, p.topology.peers[k.hop_peer_ids[i]], k, p, t) = {}
  BY DEF ReceiptReasons

\* What is signed is the receipt itself, under the peer's key.
LEMMA SignedExactly ==
    ASSUME NEW r, NEW peer, ValidReceipt(r),
           KeyDerives(peer.public_key), peer.key_id = DeriveKeyId(peer.public_key)
    PROVE  r.key_id = peer.key_id /\ VerifyEd25519(peer.public_key, SigningPayload(r), r.signature)
              <=> r = SignedReceipt(r.binding, r.evidence_level, r.observed_at, peer.public_key)
  <1> DEFINE at      == r.observed_at
             key     == peer.public_key
             payload == <<r.binding, r.evidence_level, at, DeriveKeyId(key)>>
             signed  == [ binding |-> r.binding, evidence_level |-> r.evidence_level,
                          observed_at |-> at, key_id |-> DeriveKeyId(key),
                          signature |-> Sign(key, payload) ]
  <1>1. SignedReceipt(r.binding, r.evidence_level, at, key) = signed
    BY DEF SignedReceipt, SigningPayload
  <1>2. r = signed <=> r.key_id = DeriveKeyId(key) /\ r.signature = Sign(key, payload)
    <2> HIDE DEF key, payload
    <2> QED
      BY ReceiptShape
  <1>3. r.key_id = DeriveKeyId(key) => SigningPayload(r) = payload
    BY DEF SigningPayload
  <1>4. VerifyEd25519(key, SigningPayload(r), r.signature)
          <=> r.signature = Sign(key, SigningPayload(r))
    BY DEF VerifyEd25519
  <1> HIDE DEF payload, signed, key
  <1> QED
    BY <1>1, <1>2, <1>3, <1>4 DEF key

\* A list of receipts has no gaps.
NoneMissing(list) == \A j \in DOMAIN list : list[j] # None

\* A call about an admissible plan finds nothing at a position exactly when the
\* receipt there is the exact one (attestation.py:136-211).
LEMMA ReceiptFits ==
    ASSUME NEW a, NEW p, NEW t \in Int, NEW i \in DOMAIN a.receipts,
           ValidAttestation(a), ValidPolicy(p), AdmitReasons(a.plan, p, t) = {},
           i <= Len(a.plan.hop_peer_ids), NoneMissing(a.receipts)
    PROVE  ReceiptReasons(a.receipts[i], i, Preceding(a.receipts, i), a.plan, p, t) = {}
              <=> ExactReceipt(a, p, i, t)
  <1> DEFINE r        == a.receipts[i]
             previous == Preceding(a.receipts, i)
             id       == a.plan.hop_peer_ids[i]
             peer     == p.topology.peers[id]
             floor    == p.minimum_evidence[a.plan.intent]
             at       == r.observed_at
             worth    == EffectiveEvidence(r.evidence_level)
             exact    == SignedReceipt(ReceiptBinding(a.plan, p, i, previous),
                                       r.evidence_level, at, peer.public_key)
  <1>1. /\ ValidPlan(a.plan) /\ ValidReceipt(r)
        /\ DOMAIN a.receipts = 1..Len(a.receipts) /\ i \in Nat /\ i >= 1
        /\ i > 1 => i - 1 \in DOMAIN a.receipts
    BY DEF ValidAttestation
  <1>2. id \in Hops(a.plan)
    BY <1>1, Positions
  <1>3. /\ id \in DOMAIN p.topology.peers
        /\ KeyDerives(peer.public_key) /\ peer.key_id = DeriveKeyId(peer.public_key)
        /\ peer.evidence_level \in EvidenceLevels /\ floor \in EvidenceLevels
    <2>1. PinnedFor(id, a.plan, p)
      BY <1>1, <1>2, AdmissiblePlan
    <2> HIDE DEF id
    <2> QED
      BY <2>1 DEF PinnedFor
  <1>4. at \in Int /\ r.evidence_level \in EvidenceLevels /\ worth \in EvidenceLevels
    <2> HIDE DEF r
    <2> QED
      BY <1>1, ReceiptShape, Ranks
  <1>5. ReceiptReasons(r, i, previous, a.plan, p, t) = {} <=>
            /\ BindingReasons(r, ExpectedBinding(a.plan, p, i, previous)) = {}
            /\ ManifestReasons(r, previous, peer, a.plan, p, t) = {}
    <2> HIDE DEF r, previous
    <2> QED
      BY Zenon, <1>3, ReceiptReasonsEmpty
  <1>6. BindingReasons(r, ExpectedBinding(a.plan, p, i, previous)) = {}
            <=> r.binding = ReceiptBinding(a.plan, p, i, previous)
    <2> HIDE DEF r, previous
    <2> QED
      BY <1>1, BindingMatches
  <1>7. ~TimeReversed(r, previous) <=> (i > 1 => previous.observed_at <= at)
    <2>1. CASE i = 1
      BY <2>1 DEF TimeReversed, Preceding
    <2>2. CASE i > 1
      <3>1. previous = a.receipts[i - 1]
        BY <2>2 DEF Preceding
      <3>2. previous # None /\ ValidReceipt(previous)
        BY <1>1, <2>2, <3>1 DEF NoneMissing, ValidAttestation
      <3> HIDE DEF previous, r
      <3>3. previous.observed_at \in Int
        BY <3>2, ReceiptShape
      <3> QED
        BY <1>4, <2>2, <3>2, <3>3 DEF TimeReversed
    <2> QED
      BY <1>1, <2>1, <2>2
  <1>8. /\ ~(at > t) <=> at <= t
        /\ ~(EvidenceRank(r.evidence_level) > EvidenceRank(peer.evidence_level))
              <=> EvidenceRank(r.evidence_level) <= EvidenceRank(peer.evidence_level)
        /\ ~(EvidenceRank(worth) < EvidenceRank(floor))
              <=> EvidenceRank(floor) <= EvidenceRank(worth)
    <2> HIDE DEF worth, floor, peer, r
    <2> QED
      BY <1>3, <1>4, Ranks
  <1>9. r.key_id = peer.key_id /\ VerifyEd25519(peer.public_key, SigningPayload(r), r.signature)
           <=> r = SignedReceipt(r.binding, r.evidence_level, at, peer.public_key)
    <2> HIDE DEF r, peer
    <2> QED
      BY <1>1, <1>3, SignedExactly
  <1>10. r = exact => r.binding = ReceiptBinding(a.plan, p, i, previous)
    <2>1. exact.binding = ReceiptBinding(a.plan, p, i, previous)
      BY DEF SignedReceipt
    <2> HIDE DEF exact, r
    <2> QED
      BY <2>1
  <1>11. ManifestReasons(r, previous, peer, a.plan, p, t) = {} <=>
            /\ Within(at, a.plan.created_at, a.plan.expires_at)
            /\ ~(at > t)
            /\ Within(at, p.topology.captured_at, p.topology.expires_at)
            /\ ~TimeReversed(r, previous)
            /\ Within(at, peer.valid_from, peer.expires_at)
            /\ r.key_id = peer.key_id
            /\ VerifyEd25519(peer.public_key, SigningPayload(r), r.signature)
            /\ ~(EvidenceRank(r.evidence_level) > EvidenceRank(peer.evidence_level))
            /\ ~(EvidenceRank(worth) < EvidenceRank(floor))
    <2> HIDE DEF r, previous, peer
    <2> QED
      BY <1>3, ManifestReasonsEmpty
  <1>12. ReceiptReasons(r, i, previous, a.plan, p, t) = {} <=>
            /\ r = exact
            /\ at <= t
            /\ Within(at, a.plan.created_at, a.plan.expires_at)
            /\ Within(at, p.topology.captured_at, p.topology.expires_at)
            /\ Within(at, peer.valid_from, peer.expires_at)
            /\ i > 1 => previous.observed_at <= at
            /\ EvidenceRank(r.evidence_level) <= EvidenceRank(peer.evidence_level)
            /\ EvidenceRank(floor) <= EvidenceRank(worth)
    <2>1. r.binding = ReceiptBinding(a.plan, p, i, previous)
             => exact = SignedReceipt(r.binding, r.evidence_level, at, peer.public_key)
      OBVIOUS
    <2> HIDE DEF worth, floor, at, peer, previous, r, exact
    <2> QED
      BY <1>5, <1>6, <1>7, <1>8, <1>9, <1>10, <1>11, <2>1
  <1> HIDE DEF worth, floor, at, peer, previous, r
  <1> QED
    BY <1>12 DEF ExactReceipt, Preceding, worth, floor, at, peer, previous, r

\* No check of a receipt does.
LEMMA NoReasonIsAVerdict ==
    ASSUME NEW r, NEW i, NEW previous, NEW a, NEW p, NEW t
    PROVE  Verdicts \cap ReceiptReasons(r, i, previous, a, p, t) = {}
  <1>1. ASSUME NEW peer, NEW v \in Verdicts
        PROVE  v \notin ManifestReasons(r, previous, peer, a, p, t)
    BY DEF ManifestReasons, Flag, Verdicts
  <1>2. ASSUME NEW expected, NEW v \in Verdicts
        PROVE  v \notin BindingReasons(r, expected)
    BY DEF BindingReasons, Verdicts
  <1>3. \A id : <<"PEER_UNKNOWN", id>> \notin Verdicts
    BY DEF Verdicts
  <1> QED
    BY <1>1, <1>2, <1>3 DEF ReceiptReasons

-----------------------------------------------------------------------------
(* The loop *)

\* What the loop finds at position i.
Found(i) == ReceiptReasons(receipts[i], i, Preceding(receipts, i), plan, policy, now)

\* What it credits for the first n receipts.
Credit(n) == {EffectiveEvidence(receipts[i].evidence_level) : i \in 1..n}

\* What is wrong with the number of receipts and with the first n of them.
Faults(n) ==
    Flag(Len(receipts) # HopCount, <<"RECEIPT_COUNT_MISMATCH">>) \cup UNION {Found(i) : i \in 1..n}

\* How many receipts have a hop to be compared with.
Compared == IF Len(receipts) < HopCount THEN Len(receipts) ELSE HopCount

AllFaults == Faults(Compared) \cup Flag(Len(receipts) > HopCount, <<"EXTRA_RECEIPT">>)

\* The plan was admitted before the loop began, previousReceipt is the receipt
\* before the index, and the reasons are the faults of the receipts looked at so
\* far; at the end these are all that have a hop.
Loop ==
    /\ pc \in {"receipts", "judge"} =>
          /\ base = AdmitPlan(plan, policy, now)
          /\ AdmitReasons(plan, policy, now) = {}
    /\ pc = "receipts" =>
          /\ index \in 1..(Len(receipts) + 1) /\ index <= HopCount + 1
          /\ previousReceipt = Preceding(receipts, index)
          /\ credited = Credit(index - 1)
          /\ reasons = Faults(index - 1)
    /\ pc = "judge" =>
          /\ reasons = AllFaults
          /\ reasons = {} => credited = Credit(Len(receipts))
    /\ pc \in {"idle", "admit"} =>
          index = 1 /\ previousReceipt = None /\ credited = {} /\ reasons = {}
    /\ decision # None => pc = "returned"

IInv == TypeOK /\ Loop

\* What the contracts say about the arguments of a call.
LEMMA Arguments ==
    ASSUME IInv, pc # "idle"
    PROVE  /\ ValidAttestation(attestation) /\ ValidPlan(plan) /\ ValidPolicy(policy)
           /\ now \in Int
           /\ DOMAIN receipts = 1..Len(receipts) /\ Len(receipts) \in 1..RouteLimit
           /\ HopCount \in 1..RouteLimit
           /\ \A i \in DOMAIN receipts : receipts[i] # None /\ ValidReceipt(receipts[i])
           /\ \A i \in DOMAIN receipts :
                 /\ receipts[i].evidence_level \in EvidenceLevels
                 /\ EffectiveEvidence(receipts[i].evidence_level) \in EvidenceLevels
  <1>1. attestation \in Attestations /\ policy \in Policies /\ now \in 0..Horizon
    BY DEF IInv, TypeOK
  <1>2. ValidAttestation(attestation) /\ ValidPolicy(policy) /\ now \in Int
    BY <1>1, VerificationAssumption
  <1>3. /\ ValidPlan(plan) /\ HopCount \in 1..RouteLimit
        /\ DOMAIN receipts = 1..Len(receipts) /\ Len(receipts) \in 1..RouteLimit
        /\ \A i \in DOMAIN receipts : ValidReceipt(receipts[i])
    BY <1>2 DEF ValidAttestation, ValidPlan, plan, receipts, HopCount
  <1>4. \A i \in DOMAIN receipts : receipts[i] # None
    BY <1>1, VerificationAssumption DEF receipts
  <1> QED
    BY <1>2, <1>3, <1>4, Ranks DEF ValidReceipt

LEMMA LoopKept == IInv /\ [Next]_vars => IInv'
  <1> SUFFICES ASSUME IInv, [Next]_vars
               PROVE  TypeOK' /\ Loop'
    BY DEF IInv
  <1> USE VerificationAssumption DEF TypeOK, Steps, arguments, locals
  <1>1. CASE Tick
    BY <1>1 DEF Tick, IInv, Loop
  <1>2. ASSUME NEW a \in Attestations, NEW p \in Policies, NEW stored \in BOOLEAN, Call(a, p, stored)
        PROVE  TypeOK' /\ Loop'
    BY <1>2 DEF Call, IInv, Loop
  <1>3. CASE AdmitFirst
    <2> DEFINE b == AdmitPlan(plan, policy, now)
    <2>1. CASE ~b.admitted
      BY <1>3, <2>1 DEF AdmitFirst, ReturnDecision, IInv, Loop
    <2>2. CASE b.admitted
      <3>1. /\ pc = "admit" /\ pc' = "receipts" /\ base' = b
            /\ UNCHANGED <<index, previousReceipt, credited, now, arguments, decision>>
            /\ reasons' = Flag(Len(receipts) # HopCount, <<"RECEIPT_COUNT_MISMATCH">>)
        BY <1>3, <2>2 DEF AdmitFirst, ReturnDecision
      <3>2. AdmitReasons(plan, policy, now) = {}
        BY <2>2 DEF AdmitPlan
      <3>3. UNCHANGED <<plan, receipts, policy, now, HopCount, Len(receipts)>>
        BY <3>1 DEF plan, receipts, HopCount
      <3>4. index = 1 /\ previousReceipt = None /\ credited = {} /\ decision = None
        BY <3>1 DEF IInv, Loop
      <3>5. TypeOK'
        BY <3>1, <3>4 DEF IInv, RouteLimit
      <3>6. reasons' = Faults(index - 1)'
        <4>1. Faults(index - 1)' = Flag(Len(receipts) # HopCount, <<"RECEIPT_COUNT_MISMATCH">>)'
          BY <3>1, <3>4 DEF Faults
        <4> HIDE DEF TypeOK
        <4> QED
          BY <3>1, <3>3, <4>1 DEF Flag
      <3>7. Preceding(receipts, index)' = None /\ Credit(index - 1)' = {} /\ 1..(index' - 1) = {}
        BY <3>1, <3>4 DEF Preceding, Credit
      <3>8. (Len(receipts) \in Nat /\ HopCount \in Nat)
        BY <3>1, Arguments
      <3> HIDE DEF TypeOK
      <3> QED
        BY <3>1, <3>2, <3>3, <3>4, <3>5, <3>6, <3>7, <3>8 DEF Loop
    <2> QED
      BY <2>1, <2>2
  <1>4. CASE CheckReceipt
    <2>1. /\ pc = "receipts" /\ pc' = "receipts" /\ index' = index + 1
          /\ index <= Len(receipts) /\ index <= HopCount
          /\ previousReceipt' = receipts[index]
          /\ UNCHANGED <<now, arguments, base, decision>>
      BY <1>4 DEF CheckReceipt
    <2>2. /\ UNCHANGED <<plan, receipts, policy, now, HopCount, Len(receipts), AdmitPlan(plan, policy, now)>>
          /\ AdmitReasons(plan, policy, now)' = AdmitReasons(plan, policy, now)
          /\ \A i : Found(i)' = Found(i)
      BY <2>1 DEF plan, receipts, HopCount, Found
    <2>3. /\ index \in 1..Len(receipts) /\ Len(receipts) \in 1..RouteLimit /\ HopCount \in Nat
          /\ previousReceipt = Preceding(receipts, index)
      BY <2>1, Arguments DEF IInv, Loop
    <2>3a. /\ index \in Int /\ Len(receipts) \in Int /\ HopCount \in Int
          /\ index >= 1 /\ index + 1 # 1 /\ (index + 1) - 1 = index
          /\ Len(receipts) <= RouteLimit
      <3>1. index \in Int /\ Len(receipts) \in Int /\ HopCount \in Int /\ RouteLimit \in Int
        BY <2>3 DEF RouteLimit
      <3>2. index >= 1 /\ Len(receipts) <= RouteLimit
        BY <2>3, <3>1
      <3> HIDE VerificationAssumption
      <3> QED
        BY <3>1, <3>2
    <2>4. reasons' = reasons \cup Found(index)
      BY <1>4, <2>3 DEF CheckReceipt, Found
    <2>5. credited' = credited \cup {EffectiveEvidence(receipts[index].evidence_level)}
      <3>1. plan.hop_peer_ids[index] \in Hops(plan)
        BY <2>1, <2>3, Arguments, Positions DEF HopCount
      <3>2. plan.hop_peer_ids[index] \in DOMAIN policy.topology.peers
        BY <2>1, <3>1, Arguments, AdmissiblePlan DEF IInv, Loop, PinnedFor
      <3> QED
        BY <1>4, <3>2 DEF CheckReceipt
    <2>6. credited' = Credit(index - 1)'
      <3>1. credited = Credit(index - 1)
        BY <2>1 DEF IInv, Loop
      <3>2. Credit(index) = Credit(index - 1) \cup {EffectiveEvidence(receipts[index].evidence_level)}
        BY <2>3 DEF Credit
      <3>3. Credit(index - 1)' = Credit(index)
        BY <2>1, <2>2, <2>3a DEF Credit
      <3> QED
        BY <2>5, <3>1, <3>2, <3>3
    <2>7. reasons' = Faults(index - 1)'
      <3>1. reasons = Faults(index - 1)
        BY <2>1 DEF IInv, Loop
      <3>2. Faults(index) = Faults(index - 1) \cup Found(index)
        <4>1. 1..index = 1..(index - 1) \cup {index}
          BY <2>3a
        <4> HIDE DEF TypeOK
        <4> QED
          BY <4>1 DEF Faults
      <3>3. Faults(index - 1)' = Faults(index)
        <4>1. index' - 1 = index
          BY <2>1, <2>3a
        <4> QED
          BY <2>2, <4>1 DEF Faults
      <3> QED
        BY <2>4, <3>1, <3>2, <3>3
    <2>9. Preceding(receipts, index)' = receipts[index] /\ index' - 1 = index
      BY <2>1, <2>2, <2>3a DEF Preceding
    <2>10. TypeOK'
      <3>1. credited' \subseteq EvidenceLevels
        BY <2>1, <2>3, <2>5, Arguments DEF IInv
      <3>2. index' \in 1..(RouteLimit + 1)
        <4>1. index' = index + 1 /\ index <= Len(receipts)
          BY <2>1
        <4> HIDE VerificationAssumption
        <4> QED
          BY <2>3a, <4>1 DEF RouteLimit
      <3> QED
        BY <2>1, <3>1, <3>2 DEF IInv
    <2>11. Loop'
      <3>1. base = AdmitPlan(plan, policy, now) /\ AdmitReasons(plan, policy, now) = {} /\ decision = None
        BY <2>1 DEF IInv, Loop
      <3>2. index' \in 1..(Len(receipts) + 1) /\ index' <= HopCount + 1
        BY <2>1, <2>2, <2>3a
      <3> HIDE DEF TypeOK
      <3> QED
        BY <2>1, <2>2, <2>6, <2>7, <2>9, <3>1, <3>2 DEF Loop
    <2> QED
      BY <2>10, <2>11
  <1>5. CASE ExtraReceipt
    <2>1. /\ pc = "receipts" /\ pc' = "judge" /\ reasons' = reasons \cup {<<"EXTRA_RECEIPT">>}
          /\ index <= Len(receipts) /\ index > HopCount
          /\ UNCHANGED <<now, arguments, base, index, previousReceipt, credited, decision>>
      BY <1>5 DEF ExtraReceipt
    <2>2. /\ UNCHANGED <<plan, receipts, policy, now, HopCount, Len(receipts), AllFaults>>
          /\ \A i : Credit(i)' = Credit(i)
      BY <2>1 DEF plan, receipts, HopCount, AllFaults, Faults, Found, Compared, Credit
    <2>3. Len(receipts) > HopCount /\ index - 1 = HopCount /\ Compared = HopCount
      BY <2>1, Arguments DEF IInv, Loop, Compared
    <2>4. TypeOK'
      BY <2>1 DEF IInv
    <2>5. /\ base = AdmitPlan(plan, policy, now) /\ AdmitReasons(plan, policy, now) = {} /\ decision = None
          /\ reasons = Faults(index - 1)
      BY <2>1 DEF IInv, Loop
    <2>6. reasons' = AllFaults /\ reasons' # {}
      BY <2>1, <2>3, <2>5 DEF AllFaults, Flag
    <2> HIDE DEF TypeOK
    <2> QED
      BY <2>1, <2>2, <2>4, <2>5, <2>6 DEF Loop
  <1>6. CASE EndOfReceipts
    <2>1. /\ pc = "receipts" /\ pc' = "judge" /\ index > Len(receipts)
          /\ UNCHANGED <<now, arguments, locals, decision>>
      BY <1>6 DEF EndOfReceipts
    <2>2. /\ UNCHANGED <<plan, receipts, policy, now, HopCount, Len(receipts), AllFaults>>
          /\ \A i : Credit(i)' = Credit(i)
      BY <2>1 DEF plan, receipts, HopCount, AllFaults, Faults, Found, Compared, Credit
    <2>3. index - 1 = Len(receipts) /\ Compared = Len(receipts) /\ ~(Len(receipts) > HopCount)
      BY <2>1, Arguments DEF IInv, Loop, Compared
    <2>4. TypeOK'
      BY <2>1 DEF IInv
    <2>5. /\ base = AdmitPlan(plan, policy, now) /\ AdmitReasons(plan, policy, now) = {} /\ decision = None
          /\ credited = Credit(Len(receipts))
          /\ reasons = Faults(index - 1)
      BY <2>1, <2>3 DEF IInv, Loop
    <2>6. reasons = AllFaults
      BY <2>3, <2>5 DEF AllFaults, Flag
    <2> HIDE DEF TypeOK
    <2> QED
      BY <2>1, <2>2, <2>4, <2>5, <2>6 DEF Loop
  <1>7. CASE DenyReceipts \/ DenyReplay \/ Accept \/ StoreRaises
    BY <1>7 DEF DenyReceipts, DenyReplay, Accept, StoreRaises, ReturnDecision, IInv, Loop
  <1>8. CASE Leave
    BY <1>8 DEF Leave, IInv, Loop
  <1>9. CASE UNCHANGED vars
    <2>1. /\ UNCHANGED <<pc, attestation, policy, withStore, now, base, index, previousReceipt, credited,
                         reasons, decision>>
          /\ UNCHANGED <<plan, receipts, HopCount>>
      BY <1>9 DEF vars, plan, receipts, HopCount
    <2>2. /\ \A i : /\ Faults(i)' = Faults(i) /\ Credit(i)' = Credit(i)
                   /\ Preceding(receipts, i)' = Preceding(receipts, i)
          /\ AllFaults' = AllFaults
      BY <2>1 DEF AllFaults, Faults, Found, Compared, Credit, Preceding
    <2>3. TypeOK'
      BY <2>1 DEF IInv
    <2> HIDE DEF TypeOK
    <2> QED
      BY <2>1, <2>2, <2>3 DEF IInv, Loop
  <1> QED
    BY <1>1, <1>2, <1>3, <1>4, <1>5, <1>6, <1>7, <1>8, <1>9 DEF Next, Step

LEMMA LoopInvariant == Spec => []IInv
  <1>1. Init => IInv
    <2>1. 0 \in 0..Horizon
      BY VerificationAssumption
    <2>3. Init => TypeOK
      BY <2>1 DEF Init, TypeOK, Steps
    <2>2. Init => Loop
      BY DEF Init, Loop
    <2> QED
      BY <2>2, <2>3 DEF IInv
  <1> QED
    BY <1>1, LoopKept, PTL DEF Spec

\* The arguments of a call and the position of its loop keep their types.
THEOREM TypeCorrect == Spec => []TypeOK
  BY LoopInvariant, PTL DEF IInv

-----------------------------------------------------------------------------
(* The verdict *)

\* Nothing is wrong when there is one receipt for each hop, and nothing wrong
\* with any.
LEMMA WithoutFault ==
    ASSUME Len(receipts) \in Nat, HopCount \in Nat
    PROVE  AllFaults = {} <=> Len(receipts) = HopCount /\ \A i \in 1..Len(receipts) : Found(i) = {}
  <1>1. Len(receipts) = HopCount => Compared = Len(receipts) /\ ~(Len(receipts) > HopCount)
    BY DEF Compared
  <1>2. Faults(Compared) = {} <=> Len(receipts) = HopCount /\ \A i \in 1..Compared : Found(i) = {}
    BY DEF Faults, Flag
  <1> QED
    BY <1>1, <1>2 DEF AllFaults, Flag

\* A fault is never a verdict.
LEMMA NoFaultIsAVerdict == Verdicts \cap AllFaults = {}
  <1>1. \A i : Verdicts \cap Found(i) = {}
    BY NoReasonIsAVerdict DEF Found
  <1>2. <<"RECEIPT_COUNT_MISMATCH">> \notin Verdicts /\ <<"EXTRA_RECEIPT">> \notin Verdicts
    BY DEF Verdicts
  <1> QED
    BY <1>1, <1>2 DEF AllFaults, Faults, Flag

\* At the end of the loop its reasons tell an exact chain from anything else.
LEMMA JudgedExactly ==
    ASSUME IInv, pc = "judge"
    PROVE  reasons = {} <=> ExactChain(attestation, policy, now)
  <1>1. /\ AdmitReasons(plan, policy, now) = {}
        /\ reasons = {} <=> Len(receipts) = HopCount /\ \A i \in 1..Len(receipts) : Found(i) = {}
    <2>1. Len(receipts) \in Nat /\ HopCount \in Nat
      BY Arguments
    <2>2. AdmitReasons(plan, policy, now) = {} /\ reasons = AllFaults
      BY DEF IInv, Loop
    <2> QED
      BY <2>1, <2>2, WithoutFault
  <1>2. ASSUME Len(receipts) = HopCount, NEW i \in DOMAIN receipts
        PROVE  Found(i) = {} <=> ExactReceipt(attestation, policy, i, now)
    <2>1. i \in 1..HopCount /\ HopCount \in Int
      BY <1>2, Arguments DEF RouteLimit
    <2>2. i <= Len(attestation.plan.hop_peer_ids)
      BY <2>1 DEF HopCount, plan
    <2>3. /\ i \in DOMAIN attestation.receipts /\ NoneMissing(attestation.receipts)
          /\ ValidAttestation(attestation) /\ ValidPolicy(policy) /\ now \in Int
          /\ AdmitReasons(attestation.plan, policy, now) = {}
      BY <1>1, <1>2, Arguments DEF NoneMissing, receipts, plan
    <2>4. ReceiptReasons(attestation.receipts[i], i, Preceding(attestation.receipts, i),
                         attestation.plan, policy, now) = {}
            <=> ExactReceipt(attestation, policy, i, now)
      BY Zenon, <2>2, <2>3, ReceiptFits
    <2> QED
      BY <2>4 DEF Found, receipts, plan
  <1>3. DOMAIN receipts = 1..Len(receipts)
    BY Arguments
  <1> QED
    BY <1>1, <1>2, <1>3 DEF ExactChain, receipts, plan, HopCount

\* Neither the lookups in the loop nor the min() after it can raise
\* (attestation.py:171-175, 205, 232).
THEOREM Total == Spec => []NothingRaises
  <1>1. ASSUME IInv, pc \in {"receipts", "judge"}
        PROVE  /\ Hops(plan) \subseteq DOMAIN policy.topology.peers
               /\ plan.intent \in DOMAIN policy.minimum_evidence
    <2>1. AdmitReasons(plan, policy, now) = {}
      BY <1>1 DEF IInv, Loop
    <2> QED
      BY <1>1, <2>1, Arguments, AdmissiblePlan DEF PinnedFor
  <1>2. ASSUME IInv, pc = "judge", reasons = {}
        PROVE  credited # {}
    <2>1. credited = Credit(Len(receipts))
      BY <1>2 DEF IInv, Loop
    <2>2. 1 \in 1..Len(receipts)
      BY <1>2, Arguments DEF RouteLimit
    <2> QED
      BY <2>1, <2>2 DEF Credit
  <1>3. IInv => NothingRaises
    BY <1>1, <1>2 DEF NothingRaises
  <1> QED
    BY <1>3, LoopInvariant, PTL

-----------------------------------------------------------------------------
(* The decision *)

\* All faults are reported of a chain that is not exact; a replay of an exact
\* one, by a store that knows the nonce.
Denial(codes) ==
    /\ codes # {} /\ <<"ADMITTED">> \notin codes
    /\ IF ExactChain(attestation, policy, now)
       THEN codes = {<<"REPLAY_DETECTED">>} /\ withStore /\ plan.nonce \in remembered
       ELSE codes = AllFaults /\ <<"REPLAY_DETECTED">> \notin codes

\* A denial keeps everything of the plan admission but the verdict; an admission
\* is that of an exact chain, with the evidence its receipts carry.
Outcome ==
    pc = "returned" /\ decision # None =>
        /\ base = AdmitPlan(plan, policy, now)
        /\ \/ ~base.admitted /\ decision = DenyPlan(base, digest)
           \/ /\ base.admitted
              /\ Denial(decision.reason_codes)
              /\ decision = Deny(base, decision.reason_codes, Compared, digest)
           \/ /\ base.admitted /\ ExactChain(attestation, policy, now)
              /\ withStore => plan.nonce \in remembered
              /\ credited = Credit(Len(receipts))
              /\ decision = AdmitAttestation(base, credited, digest)

\* What the copy c of the plan admission b keeps, whichever denial or admission.
Keeps(c, b, d) ==
    /\ c.decision_kind = "attestation_verification" /\ c.attestation_digest = d
    /\ c.route_digest = b.route_digest
    /\ c.policy_digest = b.policy_digest
    /\ c.topology_digest = b.topology_digest
    /\ c.requested_intent = b.requested_intent

Admission(b) == \E a, p, t : b = AdmitPlan(a, p, t)

LEMMA DenyPlanKeeps ==
    ASSUME NEW b, NEW d, Admission(b)
    PROVE  /\ Keeps(DenyPlan(b, d), b, d)
           /\ DenyPlan(b, d).admitted = b.admitted
           /\ DenyPlan(b, d).reason_codes = b.reason_codes
  BY DEF Admission, AdmitPlan, DenyPlan, Keeps

LEMMA DenyKeeps ==
    ASSUME NEW b, NEW rs, NEW n, NEW d, Admission(b)
    PROVE  Keeps(Deny(b, rs, n, d), b, d)
  BY DEF Admission, AdmitPlan, Deny, Keeps

LEMMA DenySays ==
    ASSUME NEW b, NEW rs, NEW n, NEW d, Admission(b)
    PROVE  /\ ~Deny(b, rs, n, d).admitted
           /\ Deny(b, rs, n, d).reason_codes = rs
           /\ Deny(b, rs, n, d).checked_hops = n
  BY DEF Admission, AdmitPlan, Deny

LEMMA AdmitKeeps ==
    ASSUME NEW b, NEW levels, NEW d, Admission(b)
    PROVE  /\ Keeps(AdmitAttestation(b, levels, d), b, d)
           /\ AdmitAttestation(b, levels, d).admitted = b.admitted
           /\ AdmitAttestation(b, levels, d).reason_codes = b.reason_codes
           /\ AdmitAttestation(b, levels, d).effective_evidence = WeakestEvidence(levels)
  BY DEF Admission, AdmitPlan, AdmitAttestation, Keeps

LEMMA OutcomeKept == IInv /\ IInv' /\ Outcome /\ [Next]_vars => Outcome'
  <1> SUFFICES ASSUME IInv, IInv', Outcome, [Next]_vars, pc' = "returned", decision' # None
               PROVE  Outcome'
    BY DEF Outcome
  <1>1. CASE AdmitFirst
    <2>1. /\ pc = "admit" /\ ~AdmitPlan(plan, policy, now).admitted
          /\ base' = AdmitPlan(plan, policy, now) /\ decision' = DenyPlan(base', digest)
          /\ UNCHANGED <<now, arguments>>
      BY <1>1 DEF AdmitFirst, ReturnDecision
    <2>2. UNCHANGED <<plan, digest, policy, now>>
      BY <2>1 DEF plan, digest, arguments
    <2> QED
      BY <2>1, <2>2 DEF Outcome
  <1>2. CASE DenyReceipts \/ DenyReplay \/ Accept
    <2> DEFINE found == IF reasons = {} THEN {<<"REPLAY_DETECTED">>} ELSE reasons
    <2>1. /\ pc = "judge"
          /\ UNCHANGED <<now, arguments, locals>>
          /\ \/ decision' = Deny(base, found, Compared, digest)
             \/ reasons = {} /\ decision' = AdmitAttestation(base, credited, digest)
          /\ reasons = {} /\ withStore => plan.nonce \in remembered'
          /\ reasons = {} /\ ~withStore => decision' = AdmitAttestation(base, credited, digest)
      <3>1. pc = "judge" /\ UNCHANGED <<now, arguments, locals>>
        BY <1>2 DEF DenyReceipts, DenyReplay, Accept, ReturnDecision
      <3>2. reasons = {} => Len(receipts) = HopCount
        <4>1. reasons = AllFaults
          BY <3>1 DEF IInv, Loop
        <4>2. Len(receipts) \in Nat /\ HopCount \in Nat
          BY <3>1, Arguments
        <4> QED
          BY <4>1, <4>2, WithoutFault
      <3>3. reasons = {} => Compared = Len(receipts)
        BY <3>2 DEF Compared
      <3> QED
        BY <1>2, <3>1, <3>3 DEF DenyReceipts, DenyReplay, Accept, ReturnDecision, Compared
    <2>2. /\ UNCHANGED <<plan, digest, policy, now, attestation, receipts, base, credited, withStore,
                         Compared, AllFaults>>
          /\ \A i : Credit(i)' = Credit(i)
      BY <2>1 DEF plan, digest, receipts, arguments, locals, Credit, Compared, HopCount, AllFaults,
                  Faults, Found
    <2>3. ExactChain(attestation, policy, now)' <=> ExactChain(attestation, policy, now)
      BY <2>2
    <2>4. /\ base = AdmitPlan(plan, policy, now) /\ AdmitReasons(plan, policy, now) = {}
          /\ reasons = AllFaults /\ Verdicts \cap reasons = {}
          /\ reasons = {} => credited = Credit(Len(receipts))
      BY <2>1, NoFaultIsAVerdict DEF IInv, Loop
    <2>5. base.admitted
      BY <2>4 DEF AdmitPlan
    <2>6. /\ found # {} /\ <<"ADMITTED">> \notin found
          /\ IF reasons = {} THEN found = {<<"REPLAY_DETECTED">>}
             ELSE found = AllFaults /\ <<"REPLAY_DETECTED">> \notin found
      BY <2>4 DEF Verdicts
    <2>7. Deny(base, found, Compared, digest).reason_codes = found
      <3>1. Admission(base)
        BY <2>4 DEF Admission
      <3> QED
        BY <3>1, DenySays
    <2>8. reasons = {} <=> ExactChain(attestation, policy, now)
      BY <2>1, JudgedExactly
    <2>9. plan.nonce' = plan.nonce
      BY <2>2
    <2> HIDE DEF found
    <2>10. CASE reasons = {} /\ decision' = AdmitAttestation(base, credited, digest)
      <3>1. withStore' => plan.nonce' \in remembered'
        BY <2>1, <2>2, <2>9, <2>10
      <3> QED
        BY <2>2, <2>3, <2>4, <2>5, <2>8, <2>10, <3>1 DEF Outcome
    <2>11. CASE ~(reasons = {} /\ decision' = AdmitAttestation(base, credited, digest))
      <3>1. decision' = Deny(base, found, Compared, digest) /\ decision'.reason_codes = found
        BY <2>1, <2>7, <2>11
      <3>2. reasons = {} => withStore' /\ plan.nonce' \in remembered'
        BY <2>1, <2>2, <2>9, <2>11
      <3>3. Denial(decision.reason_codes)'
        <4>1. Denial(decision.reason_codes)' <=>
                 LET codes == decision'.reason_codes
                 IN  /\ codes # {} /\ <<"ADMITTED">> \notin codes
                     /\ IF ExactChain(attestation, policy, now)'
                        THEN codes = {<<"REPLAY_DETECTED">>} /\ withStore' /\ plan.nonce' \in remembered'
                        ELSE codes = AllFaults' /\ <<"REPLAY_DETECTED">> \notin codes
          BY DEF Denial
        <4> QED
          BY <2>2, <2>3, <2>6, <2>8, <3>1, <3>2, <4>1
      <3>4. decision' = Deny(base, decision'.reason_codes, Compared, digest)
        BY <2>7, <3>1
      <3> QED
        BY <2>2, <2>4, <2>5, <3>1, <3>3, <3>4 DEF Outcome
    <2> QED
      BY <2>10, <2>11
  <1>3. CASE StoreRaises
    BY <1>3 DEF StoreRaises, ReturnDecision
  <1>4. CASE Tick \/ CheckReceipt \/ ExtraReceipt \/ EndOfReceipts \/ Leave
    BY <1>4 DEF Tick, CheckReceipt, ExtraReceipt, EndOfReceipts, Leave
  <1>5. ASSUME NEW a \in Attestations, NEW p \in Policies, NEW stored \in BOOLEAN, Call(a, p, stored)
        PROVE  Outcome'
    BY <1>5 DEF Call
  <1>6. CASE UNCHANGED vars
    <2>1. /\ UNCHANGED <<pc, decision, base, plan, policy, now, digest, attestation, receipts, credited,
                         withStore, remembered, Compared, AllFaults>>
          /\ \A i : Credit(i)' = Credit(i)
      BY <1>6 DEF vars, plan, receipts, digest, arguments, locals, Credit, Compared, HopCount,
                  AllFaults, Faults, Found
    <2>2. ExactChain(attestation, policy, now)' <=> ExactChain(attestation, policy, now)
      BY <2>1
    <2>3. \A codes : Denial(codes)' <=> Denial(codes)
      BY <2>1, <2>2 DEF Denial
    <2> QED
      BY <2>1, <2>2, <2>3 DEF Outcome
  <1> QED
    BY <1>1, <1>2, <1>3, <1>4, <1>5, <1>6 DEF Next, Step

LEMMA OutcomeInvariant == Spec => [](IInv /\ Outcome)
  <1>1. Init => Outcome
    BY DEF Init, Outcome
  <1> QED
    BY <1>1, LoopInvariant, OutcomeKept, PTL DEF Spec

\* A call finds no fault exactly when the attestation is an exact chain, and what
\* it returns says so: an exact chain is denied only as a replay, by a store that
\* knows its nonce, and nothing else is admitted or called a replay
\* (attestation.py:104-239).
THEOREM ExactVerdict == Spec => []AcceptsExactlyTheExactChains
  <1>1. ASSUME IInv, Outcome, decision # None
        PROVE  IF ExactChain(attestation, policy, now)
               THEN /\ \/ decision.admitted
                       \/ withStore /\ decision.reason_codes = {<<"REPLAY_DETECTED">>}
                    /\ withStore => plan.nonce \in remembered
               ELSE ~decision.admitted /\ <<"REPLAY_DETECTED">> \notin decision.reason_codes
    <2>1. pc = "returned" /\ base = AdmitPlan(plan, policy, now)
      BY <1>1 DEF IInv, Loop, Outcome
    <2>2. Admission(base)
      BY <2>1 DEF Admission
    <2>3. CASE ~base.admitted /\ decision = DenyPlan(base, digest)
      <3>1. /\ AdmitReasons(plan, policy, now) # {}
            /\ base.reason_codes = AdmitReasons(plan, policy, now)
        BY <2>1, <2>3 DEF AdmitPlan
      <3>2. ~decision.admitted /\ decision.reason_codes = base.reason_codes
        BY <2>2, <2>3, DenyPlanKeeps
      <3>3. <<"REPLAY_DETECTED">> \notin decision.reason_codes
        BY <3>1, <3>2, NoCheckIsAVerdict DEF Verdicts
      <3>4. ~ExactChain(attestation, policy, now)
        BY <3>1 DEF ExactChain, plan
      <3> QED
        BY <3>2, <3>3, <3>4
    <2>4. CASE /\ Denial(decision.reason_codes)
               /\ decision = Deny(base, decision.reason_codes, Compared, digest)
      <3>1. ~decision.admitted
        BY <2>2, <2>4, DenySays
      <3> QED
        BY <2>4, <3>1 DEF Denial
    <2>5. CASE /\ base.admitted /\ ExactChain(attestation, policy, now)
               /\ withStore => plan.nonce \in remembered
               /\ decision = AdmitAttestation(base, credited, digest)
      <3>1. decision.admitted
        BY <2>2, <2>5, AdmitKeeps
      <3> QED
        BY <2>5, <3>1
    <2> QED
      BY <1>1, <2>1, <2>3, <2>4, <2>5 DEF Outcome
  <1>2. IInv /\ Outcome => AcceptsExactlyTheExactChains
    BY <1>1, JudgedExactly DEF AcceptsExactlyTheExactChains
  <1> QED
    BY <1>2, OutcomeInvariant, PTL

\* A denial conceals nothing: it reports all reasons of the plan admission, or of
\* an admissible plan all that is wrong with any receipt that has a hop and with
\* their number, or else the replay (attestation.py:120-231).
DenialsTellAll ==
    decision # None /\ ~decision.admitted =>
        IF AdmitReasons(plan, policy, now) # {}
        THEN decision.reason_codes = AdmitReasons(plan, policy, now)
        ELSE /\ decision.reason_codes =
                    IF ExactChain(attestation, policy, now) THEN {<<"REPLAY_DETECTED">>} ELSE AllFaults
             /\ decision.checked_hops = Compared

THEOREM AllFaultsReported == Spec => []DenialsTellAll
  <1>1. IInv /\ Outcome => DenialsTellAll
    <2> SUFFICES ASSUME IInv, Outcome, decision # None, ~decision.admitted
                 PROVE  DenialsTellAll
      BY DEF DenialsTellAll
    <2>1. base = AdmitPlan(plan, policy, now) /\ Admission(base)
      BY DEF IInv, Loop, Outcome, Admission
    <2>2. /\ base.admitted <=> AdmitReasons(plan, policy, now) = {}
          /\ ~base.admitted => base.reason_codes = AdmitReasons(plan, policy, now)
      BY <2>1 DEF AdmitPlan
    <2>3. CASE ~base.admitted /\ decision = DenyPlan(base, digest)
      BY <2>1, <2>2, <2>3, DenyPlanKeeps DEF DenialsTellAll
    <2>4. CASE /\ base.admitted /\ Denial(decision.reason_codes)
               /\ decision = Deny(base, decision.reason_codes, Compared, digest)
      <3>1. decision.checked_hops = Compared
        BY <2>1, <2>4, DenySays
      <3> QED
        BY <2>2, <2>4, <3>1 DEF DenialsTellAll, Denial
    <2>5. ~(base.admitted /\ decision = AdmitAttestation(base, credited, digest))
      BY <2>1, AdmitKeeps
    <2> QED
      BY <2>3, <2>4, <2>5 DEF IInv, Loop, Outcome
  <1> QED
    BY <1>1, OutcomeInvariant, PTL

\* Every decision returned satisfies the validator that model_copy does not run,
\* and names the attestation and the plan it is about
\* (attestation.py:93, 117, 233; models.py:367-381).
THEOREM ConsistentDecisions == Spec => []DecisionsAreConsistent
  <1>1. IInv /\ Outcome => DecisionsAreConsistent
    <2> SUFFICES ASSUME IInv, Outcome, decision # None
                 PROVE  /\ ValidDecision(decision)
                        /\ decision.decision_kind = "attestation_verification"
                        /\ decision.attestation_digest = digest
                        /\ decision.route_digest = Sha256Digest(plan)
      BY DEF DecisionsAreConsistent
    <2>1. pc = "returned" /\ base = AdmitPlan(plan, policy, now)
      BY DEF IInv, Loop, Outcome
    <2>2. attestation \in Attestations /\ policy \in Policies /\ plan.intent \in Intents
      BY <2>1, Arguments DEF IInv, TypeOK, ValidPlan
    <2>3. /\ base.route_digest = Sha256Digest(plan)
          /\ base.policy_digest = PolicyDigest(policy)
          /\ base.topology_digest = TopologyDigest(policy.topology)
          /\ base.requested_intent = plan.intent
          /\ base.admitted <=> AdmitReasons(plan, policy, now) = {}
          /\ base.reason_codes = IF AdmitReasons(plan, policy, now) = {} THEN {<<"ADMITTED">>}
                                 ELSE AdmitReasons(plan, policy, now)
      BY <2>1 DEF AdmitPlan
    <2>4. /\ None \notin {base.route_digest, base.policy_digest, base.topology_digest}
          /\ base.requested_intent # None
          /\ digest # None
      BY <2>2, <2>3, ResultsAreNotNone, NoneAssumption DEF plan, digest
    <2>5. /\ Keeps(decision, base, digest)
          /\ decision.admitted => decision.reason_codes = {<<"ADMITTED">>}
          /\ ~decision.admitted => decision.reason_codes # {} /\ <<"ADMITTED">> \notin decision.reason_codes
      <3>4. Admission(base)
        BY <2>1 DEF Admission
      <3>1. CASE ~base.admitted /\ decision = DenyPlan(base, digest)
        <4>1. base.reason_codes # {} /\ <<"ADMITTED">> \notin base.reason_codes
          BY <2>3, <3>1, NoCheckIsAVerdict DEF Verdicts
        <4>2. /\ Keeps(decision, base, digest) /\ ~decision.admitted
              /\ decision.reason_codes = base.reason_codes
          BY <3>1, <3>4, DenyPlanKeeps
        <4> QED
          BY <4>1, <4>2
      <3>2. CASE /\ base.admitted
                 /\ Denial(decision.reason_codes)
                 /\ decision = Deny(base, decision.reason_codes, Compared, digest)
        BY <3>2, <3>4, DenyKeeps, DenySays DEF Denial
      <3>3. CASE base.admitted /\ decision = AdmitAttestation(base, credited, digest)
        BY <2>3, <3>3, <3>4, AdmitKeeps
      <3>5. \/ ~base.admitted /\ decision = DenyPlan(base, digest)
            \/ /\ base.admitted
               /\ Denial(decision.reason_codes)
               /\ decision = Deny(base, decision.reason_codes, Compared, digest)
            \/ base.admitted /\ decision = AdmitAttestation(base, credited, digest)
        BY <2>1 DEF Outcome
      <3> QED
        BY <3>1, <3>2, <3>3, <3>5
    <2> QED
      BY <2>3, <2>4, <2>5 DEF ValidDecision, Keeps
  <1> QED
    BY <1>1, OutcomeInvariant, PTL

\* The evidence an admission reports is carried by every single receipt and
\* meets the floor (attestation.py:206, 232).
THEOREM CarriedEvidence == Spec => []ReportedEvidenceIsCarried
  <1>1. IInv /\ Outcome => ReportedEvidenceIsCarried
    <2> SUFFICES ASSUME IInv, Outcome, decision # None, decision.admitted
                 PROVE  /\ EvidenceRank(policy.minimum_evidence[plan.intent])
                               <= EvidenceRank(decision.effective_evidence)
                        /\ \A i \in DOMAIN receipts :
                              EvidenceRank(decision.effective_evidence)
                                  <= EvidenceRank(EffectiveEvidence(receipts[i].evidence_level))
      BY DEF ReportedEvidenceIsCarried
    <2>1. pc = "returned" /\ base = AdmitPlan(plan, policy, now)
      BY DEF IInv, Loop, Outcome
    <2>2. Admission(base)
      BY <2>1 DEF Admission
    <2>3. /\ ExactChain(attestation, policy, now)
          /\ credited = Credit(Len(receipts))
          /\ decision = AdmitAttestation(base, credited, digest)
      BY <2>1, <2>2, DenyPlanKeeps, DenySays DEF Outcome
    <2>4. decision.effective_evidence = WeakestEvidence(credited)
      BY <2>2, <2>3, AdmitKeeps
    <2>5. /\ DOMAIN receipts = 1..Len(receipts) /\ 1 \in DOMAIN receipts
          /\ \A i \in DOMAIN receipts : EffectiveEvidence(receipts[i].evidence_level) \in EvidenceLevels
      BY <2>1, Arguments DEF RouteLimit
    <2>6. credited = {EffectiveEvidence(receipts[i].evidence_level) : i \in DOMAIN receipts}
      BY <2>3, <2>5 DEF Credit
    <2>7. credited \in SUBSET EvidenceLevels /\ credited # {}
      BY <2>5, <2>6
    <2>8. /\ WeakestEvidence(credited) \in credited
          /\ \A e \in credited : EvidenceRank(WeakestEvidence(credited)) <= EvidenceRank(e)
      BY <2>7, WeakestIsCarried
    <2>9. \A i \in DOMAIN receipts :
              EvidenceRank(policy.minimum_evidence[plan.intent])
                  <= EvidenceRank(EffectiveEvidence(receipts[i].evidence_level))
      BY <2>3 DEF ExactChain, ExactReceipt, receipts, plan
    <2> QED
      BY <2>4, <2>6, <2>8, <2>9
  <1> QED
    BY <1>1, OutcomeInvariant, PTL

\* The store learns a nonce only in the step that admits it, for an exact
\* chain, and never forgets one (attestation.py:221-231).
THEOREM NoncesOfAdmissions == Spec => OnlyAdmissionConsumesNonces
  <1>1. ASSUME IInv, [Next]_vars, remembered' # remembered
        PROVE  /\ decision' # None /\ decision'.admitted
               /\ remembered' = remembered \cup {plan.nonce} /\ plan.nonce \notin remembered
               /\ ExactChain(attestation, policy, now)
    <2>1. Accept
      <3>1. CASE Tick \/ AdmitFirst \/ CheckReceipt \/ ExtraReceipt \/ EndOfReceipts \/ Leave
        BY <1>1, <3>1 DEF Tick, AdmitFirst, CheckReceipt, ExtraReceipt, EndOfReceipts, Leave
      <3>2. CASE DenyReceipts \/ DenyReplay \/ StoreRaises \/ UNCHANGED vars
        BY <1>1, <3>2 DEF DenyReceipts, DenyReplay, StoreRaises, vars
      <3>3. ASSUME NEW a \in Attestations, NEW p \in Policies, NEW stored \in BOOLEAN, Call(a, p, stored)
            PROVE  FALSE
        BY <1>1, <3>3 DEF Call
      <3> QED
        BY <1>1, <3>1, <3>2, <3>3 DEF Next, Step
    <2>2. /\ pc = "judge" /\ reasons = {} /\ withStore
          /\ plan.nonce \notin remembered /\ remembered' = remembered \cup {plan.nonce}
          /\ decision' = AdmitAttestation(base, credited, digest)
      BY <1>1, <2>1 DEF Accept, ReturnDecision
    <2>3. base = AdmitPlan(plan, policy, now) /\ AdmitReasons(plan, policy, now) = {}
      BY <1>1, <2>2 DEF IInv, Loop
    <2>4. base.admitted /\ Admission(base)
      BY <2>3 DEF Admission, AdmitPlan
    <2>5. decision'.admitted
      BY <2>2, <2>4, AdmitKeeps
    <2>6. /\ attestation \in Attestations /\ policy \in Policies /\ now \in 0..Horizon
          /\ credited \in SUBSET EvidenceLevels
      BY <1>1, <2>2 DEF IInv, TypeOK
    <2>7. decision' # None
      BY <2>2, <2>3, <2>6, ResultsAreNotNone DEF plan, digest
    <2> QED
      BY <1>1, <2>2, <2>5, <2>7, JudgedExactly
  <1> QED
    BY <1>1, LoopInvariant, PTL DEF Spec, OnlyAdmissionConsumesNonces

-----------------------------------------------------------------------------
(* Honest chains *)

\* A set of numbers that has a member has a least one.
LEMMA Least ==
    ASSUME NEW T, T \subseteq Nat, T # {}
    PROVE  \E m \in T : \A n \in T : m <= n
  <1> DEFINE R == {ss \in Nat \X Nat : ss[1] < ss[2]}
  <1>1. IsWellFoundedOn(R, Nat)
    BY NatLessThanWellFounded DEF OpToRel
  <1>2. PICK m \in T : \A n \in T : <<n, m>> \notin R
    <2> HIDE DEF R
    <2> QED
      BY <1>1, WFMin
  <1>3. \A n \in T : ~(n < m)
    <2> TAKE n \in T
    <2>1. <<n, m>> \in Nat \X Nat
      BY <1>2
    <2> QED
      BY <1>2, <2>1
  <1> QED
    BY <1>2, <1>3

\* The receipt that build_attestation makes of hop i after the one before.
BuiltReceipt(a, p, signers, t, levels, i, previous) ==
    LET id == a.hop_peer_ids[i]
    IN  SignedReceipt(ReceiptBinding(a, p, i, previous),
                      IF id \in DOMAIN levels THEN levels[id] ELSE p.topology.peers[id].evidence_level,
                      t, signers[id])

BuiltChain(f, k, a, p, signers, t, levels) ==
    f = [i \in 1..k |->
            BuiltReceipt(a, p, signers, t, levels, i, IF i = 1 THEN None ELSE f[i - 1])]

\* The recursion of build_attestation has a solution: were there a shortest
\* chain that cannot be built, the chain before it could be built and extended.
LEMMA ChainExists ==
    ASSUME NEW a, NEW p, NEW signers, NEW t, NEW levels
    PROVE  \A k \in Nat : \E f : BuiltChain(f, k, a, p, signers, t, levels)
  <1> DEFINE Built(k) == \E f : BuiltChain(f, k, a, p, signers, t, levels)
             T == {k \in Nat : ~Built(k)}
             R(i, previous) == BuiltReceipt(a, p, signers, t, levels, i, previous)
  <1> SUFFICES ASSUME T # {}
               PROVE  FALSE
    OBVIOUS
  <1>1. PICK m \in T : \A n \in T : m <= n
    <2>1. T \subseteq Nat
      OBVIOUS
    <2> HIDE DEF T
    <2> QED
      BY <2>1, Least
  <1>2. Built(0)
    <2> DEFINE f == [i \in 1..0 |-> None]
    <2>1. BuiltChain(f, 0, a, p, signers, t, levels)
      BY DEF BuiltChain
    <2> QED
      BY <2>1
  <1>3. m \in Nat /\ m # 0
    BY <1>2
  <1>4. m - 1 \in Nat /\ m - 1 \notin T
    BY <1>1, <1>3
  <1>5. PICK f : BuiltChain(f, m - 1, a, p, signers, t, levels)
    BY <1>4
  <1> DEFINE g == [i \in 1..m |-> IF i < m THEN f[i] ELSE R(m, IF m = 1 THEN None ELSE f[m - 1])]
  <1>6. ASSUME NEW i \in 1..m
        PROVE  g[i] = R(i, IF i = 1 THEN None ELSE g[i - 1])
    <2>1. i \in Int /\ m \in Int /\ i >= 1 /\ i <= m
      BY <1>3
    <2>2. i > 1 => g[i - 1] = f[i - 1]
      BY <2>1
    <2>3. CASE i < m
      <3>1. i \in 1..(m - 1)
        BY <2>1, <2>3
      <3>2. f[i] = R(i, IF i = 1 THEN None ELSE f[i - 1])
        BY <1>5, <3>1 DEF BuiltChain
      <3>3. g[i] = f[i]
        BY <2>3
      <3> HIDE DEF g, R
      <3> QED
        BY <2>1, <2>2, <3>2, <3>3
    <2>4. CASE i = m
      <3>1. g[i] = R(m, IF m = 1 THEN None ELSE f[m - 1])
        BY <2>1, <2>4
      <3> HIDE DEF g, R
      <3> QED
        BY <2>1, <2>2, <2>4, <3>1
    <2> QED
      BY <2>1, <2>3, <2>4
  <1>7. BuiltChain(g, m, a, p, signers, t, levels)
    <2>1. g = [i \in 1..m |-> g[i]]
      OBVIOUS
    <2> HIDE DEF g
    <2> QED
      BY <1>6, <2>1 DEF BuiltChain
  <1> QED
    BY <1>7

BuiltFor(built, a, p, signers, t, levels) ==
    /\ built = [plan |-> a, receipts |-> built.receipts] /\ built.plan = a
    /\ BuiltChain(built.receipts, Len(a.hop_peer_ids), a, p, signers, t, levels)

\* So what build_attestation returns is the plan with such a chain, one receipt
\* per hop.
LEMMA BuildAttestationBuilds ==
    ASSUME NEW a, NEW p, NEW signers, NEW t, NEW levels, Len(a.hop_peer_ids) \in Nat
    PROVE  BuiltFor(BuildAttestation(a, p, signers, t, levels), a, p, signers, t, levels)
  <1> DEFINE hops     == a.hop_peer_ids
             level(id) == IF id \in DOMAIN levels THEN levels[id]
                          ELSE p.topology.peers[id].evidence_level
             solution == CHOOSE f : f = [i \in 1..Len(hops) |->
                 SignedReceipt(
                     ReceiptBinding(a, p, i, IF i = 1 THEN None ELSE f[i - 1]),
                     level(hops[i]), t, signers[hops[i]])]
  <1>1. BuildAttestation(a, p, signers, t, levels) = [plan |-> a, receipts |-> solution]
    BY DEF BuildAttestation
  <1>2. solution = CHOOSE f : BuiltChain(f, Len(hops), a, p, signers, t, levels)
    BY DEF BuiltChain, BuiltReceipt
  <1>3. BuiltChain(solution, Len(hops), a, p, signers, t, levels)
    <2> HIDE DEF solution
    <2> QED
      BY <1>2, ChainExists
  <1> QED
    BY <1>1, <1>3 DEF BuiltFor

\* Every hop of a plan is pinned with a manifest that is valid at t.
InEveryWindow(k, p, t) ==
    \A id \in Hops(k) :
        Within(t, p.topology.peers[id].valid_from, p.topology.peers[id].expires_at)

\* Each peer of the route signs with the key that is pinned for it.
PinnedSigners(signers, k, p) ==
    \A id \in Hops(k) : signers[id] = p.topology.peers[id].public_key

\* With the pinned keys and without overrides a receipt carries its peer's claims.
LEMMA HonestReceipt ==
    ASSUME NEW k, NEW p, NEW signers, NEW t, NEW i, NEW previous,
           k.hop_peer_ids[i] \in Hops(k), PinnedSigners(signers, k, p)
    PROVE  BuiltReceipt(k, p, signers, t, <<>>, i, previous)
             = SignedReceipt(ReceiptBinding(k, p, i, previous),
                             p.topology.peers[k.hop_peer_ids[i]].evidence_level, t,
                             p.topology.peers[k.hop_peer_ids[i]].public_key)
  <1> DEFINE id == k.hop_peer_ids[i]
  <1>1. id \notin DOMAIN <<>>
    OBVIOUS
  <1>2. signers[id] = p.topology.peers[id].public_key
    BY DEF PinnedSigners
  <1>3. BuiltReceipt(k, p, signers, t, <<>>, i, previous)
          = SignedReceipt(ReceiptBinding(k, p, i, previous),
                          p.topology.peers[id].evidence_level, t, p.topology.peers[id].public_key)
    <2> HIDE DEF id
    <2>1. BuiltReceipt(k, p, signers, t, <<>>, i, previous)
            = SignedReceipt(ReceiptBinding(k, p, i, previous),
                            IF id \in DOMAIN <<>> THEN <<>>[id] ELSE p.topology.peers[id].evidence_level,
                            t, signers[id])
      BY Zenon DEF BuiltReceipt, id
    <2> QED
      BY <1>1, <1>2, <2>1
  <1> QED
    BY <1>3

\* What build_attestation makes of an admissible plan with the pinned keys is an
\* exact chain, as long as it is observed inside the windows.
LEMMA BuiltIsExact ==
    ASSUME NEW a, NEW p, NEW signers, NEW instant \in Int, NEW t \in Int, t <= instant,
           ValidAttestation(a), ValidPolicy(p), AdmitReasons(a.plan, p, instant) = {},
           PinnedSigners(signers, a.plan, p),
           a = BuildAttestation(a.plan, p, signers, t, <<>>),
           Within(t, a.plan.created_at, a.plan.expires_at),
           Within(t, p.topology.captured_at, p.topology.expires_at),
           InEveryWindow(a.plan, p, t)
    PROVE  ExactChain(a, p, instant)
  <1> DEFINE n == Len(a.plan.hop_peer_ids)
             Previous(j) == IF j = 1 THEN None ELSE a.receipts[j - 1]
  <1>1. /\ ValidPlan(a.plan) /\ n \in 1..RouteLimit /\ n \in Nat
        /\ DOMAIN a.receipts = 1..Len(a.receipts) /\ Len(a.receipts) \in 1..RouteLimit
        /\ Len(a.receipts) \in Nat
    BY DEF ValidAttestation, ValidPlan, RouteLimit
  <1>2. BuiltChain(a.receipts, n, a.plan, p, signers, t, <<>>)
    <2> DEFINE built == BuildAttestation(a.plan, p, signers, t, <<>>)
    <2>1. BuiltChain(built.receipts, n, a.plan, p, signers, t, <<>>)
      BY <1>1, BuildAttestationBuilds DEF BuiltFor
    <2>2. a = built
      OBVIOUS
    <2> HIDE DEF built, n
    <2> QED
      BY <2>1, <2>2
  <1>3. DOMAIN a.receipts = 1..n /\ Len(a.receipts) = n
    <2>1. DOMAIN a.receipts = 1..n
      BY <1>2 DEF BuiltChain
    <2> HIDE DEF n
    <2> QED
      BY <1>1, <2>1
  <1>4. \A j \in 1..n : a.plan.hop_peer_ids[j] \in Hops(a.plan)
    BY <1>1, Positions
  <1>5. \A j \in 1..n :
            a.receipts[j] = SignedReceipt(ReceiptBinding(a.plan, p, j, Previous(j)),
                                          p.topology.peers[a.plan.hop_peer_ids[j]].evidence_level, t,
                                          p.topology.peers[a.plan.hop_peer_ids[j]].public_key)
    <2> SUFFICES ASSUME NEW j \in 1..n
                 PROVE  a.receipts[j]
                          = SignedReceipt(ReceiptBinding(a.plan, p, j, Previous(j)),
                                p.topology.peers[a.plan.hop_peer_ids[j]].evidence_level, t,
                                p.topology.peers[a.plan.hop_peer_ids[j]].public_key)
      OBVIOUS
    <2>1. a.receipts[j] = BuiltReceipt(a.plan, p, signers, t, <<>>, j, Previous(j))
      <3> HIDE DEF n
      <3> QED
        BY <1>2 DEF BuiltChain
    <2>2. BuiltReceipt(a.plan, p, signers, t, <<>>, j, Previous(j))
            = SignedReceipt(ReceiptBinding(a.plan, p, j, Previous(j)),
                            p.topology.peers[a.plan.hop_peer_ids[j]].evidence_level, t,
                            p.topology.peers[a.plan.hop_peer_ids[j]].public_key)
      <3>1. a.plan.hop_peer_ids[j] \in Hops(a.plan)
        BY <1>4
      <3> HIDE DEF n, Previous
      <3> QED
        BY <3>1, HonestReceipt
    <2> HIDE DEF n, Previous
    <2> QED
      BY Zenon, <2>1, <2>2
  <1>6. \A j \in 1..n : a.receipts[j].observed_at = t
    <2>1. \A binding, level, key : SignedReceipt(binding, level, t, key).observed_at = t
      BY DEF SignedReceipt
    <2> TAKE j \in 1..n
    <2> DEFINE binding == ReceiptBinding(a.plan, p, j, Previous(j))
               level   == p.topology.peers[a.plan.hop_peer_ids[j]].evidence_level
               key     == p.topology.peers[a.plan.hop_peer_ids[j]].public_key
    <2> HIDE DEF n, Previous
    <2>2. a.receipts[j] = SignedReceipt(binding, level, t, key)
      BY Zenon, <1>5
    <2> HIDE DEF binding, level, key
    <2> QED
      BY <2>1, <2>2
  <1>7. ASSUME NEW i \in 1..n
        PROVE  ExactReceipt(a, p, i, instant)
    <2> DEFINE id       == a.plan.hop_peer_ids[i]
               peer     == p.topology.peers[id]
               previous == Previous(i)
               r        == a.receipts[i]
    <2>1. id \in Hops(a.plan)
      BY <1>4
    <2>2. /\ peer.evidence_level \in EvidenceLevels
          /\ EvidenceRank(p.minimum_evidence[a.plan.intent])
                <= EvidenceRank(EffectiveEvidence(peer.evidence_level))
      <3>1. PinnedFor(id, a.plan, p)
        BY <1>1, <2>1, AdmissiblePlan
      <3> HIDE DEF id
      <3> QED
        BY <3>1 DEF PinnedFor
    <2>3. r = SignedReceipt(ReceiptBinding(a.plan, p, i, previous),
                            peer.evidence_level, t, peer.public_key)
      <3> HIDE DEF n, Previous
      <3> QED
        BY Zenon, <1>5
    <2>4. r.observed_at = t
      BY <1>6
    <2>5. r.evidence_level = peer.evidence_level
      <3>1. \A binding, level, key : SignedReceipt(binding, level, t, key).evidence_level = level
        BY DEF SignedReceipt
      <3> DEFINE binding == ReceiptBinding(a.plan, p, i, previous)
                 level   == peer.evidence_level
                 key     == peer.public_key
      <3>2. r = SignedReceipt(binding, level, t, key)
        BY <2>3
      <3> HIDE DEF r, binding, level, key
      <3>3. r.evidence_level = level
        BY <3>1, <3>2
      <3> QED
        BY <3>3 DEF level
    <2>6. i > 1 => previous.observed_at = t
      <3>1. i > 1 => i # 1 /\ i - 1 \in 1..n
        BY <1>1
      <3> HIDE DEF n
      <3> QED
        BY <1>6, <3>1
    <2>7. EvidenceRank(peer.evidence_level) \in Int
      <3> HIDE DEF peer
      <3> QED
        BY <2>2, Ranks
    <2>8. Within(t, peer.valid_from, peer.expires_at)
      BY <2>1 DEF InEveryWindow
    <2>9. /\ r = SignedReceipt(ReceiptBinding(a.plan, p, i, previous),
                               r.evidence_level, r.observed_at, peer.public_key)
          /\ r.observed_at <= instant
          /\ Within(r.observed_at, a.plan.created_at, a.plan.expires_at)
          /\ Within(r.observed_at, p.topology.captured_at, p.topology.expires_at)
          /\ Within(r.observed_at, peer.valid_from, peer.expires_at)
          /\ i > 1 => previous.observed_at <= r.observed_at
          /\ EvidenceRank(r.evidence_level) <= EvidenceRank(peer.evidence_level)
          /\ EvidenceRank(p.minimum_evidence[a.plan.intent])
                 <= EvidenceRank(EffectiveEvidence(r.evidence_level))
      <3> HIDE DEF r, peer, previous
      <3> QED
        BY <2>2, <2>3, <2>4, <2>5, <2>6, <2>7, <2>8
    <2> QED
      BY Zenon, <2>9 DEF ExactReceipt
  <1> QED
    BY <1>3, <1>7 DEF ExactChain

\* An honest chain passes every check (attestation.py:33-83 against 136-211).
THEOREM HonestyPasses == Spec => []HonestChainsPass
  <1>1. IInv => HonestChainsPass
    <2> DEFINE pinned  == policy.topology.peers
               signers == [id \in Hops(plan) |-> pinned[id].public_key]
    <2> SUFFICES ASSUME IInv, pc = "judge", reasons # {}, NEW t \in 0..now,
                        attestation = BuildAttestation(plan, policy, signers, t, <<>>),
                        Within(t, plan.created_at, plan.expires_at),
                        Within(t, policy.topology.captured_at, policy.topology.expires_at),
                        \A id \in Hops(plan) : Within(t, pinned[id].valid_from, pinned[id].expires_at)
                 PROVE  FALSE
      BY DEF HonestChainsPass
    <2>1. AdmitReasons(attestation.plan, policy, now) = {}
      BY DEF IInv, Loop, plan
    <2>2. t \in Int /\ t <= now /\ now \in Int /\ ValidAttestation(attestation) /\ ValidPolicy(policy)
      BY Arguments
    <2>3. PinnedSigners(signers, attestation.plan, policy)
      BY DEF PinnedSigners, plan
    <2>4. attestation = BuildAttestation(attestation.plan, policy, signers, t, <<>>)
      BY DEF plan
    <2> HIDE DEF signers
    <2>5. ExactChain(attestation, policy, now)
      BY <2>1, <2>2, <2>3, <2>4, BuiltIsExact DEF plan, InEveryWindow
    <2> QED
      BY <2>5, JudgedExactly
  <1> QED
    BY <1>1, LoopInvariant, PTL

-----------------------------------------------------------------------------
(* The demo *)

\* What the demo pins, one peer at a time.
LEMMA DemoPins ==
    LET peers == DemoPolicy.topology.peers
    IN  /\ DOMAIN peers = DemoPeers
        /\ peers["device-local"] = DemoManifest("device-local", "device_only")
        /\ peers["private-peer"] = DemoManifest("private-peer", "private_mesh")
        /\ peers["loopback-public"] = DemoManifest("loopback-public", "public_mesh")
  BY DEF DemoPolicy, DemoTopology, DemoPeers

LEMMA DemoRanks ==
    /\ ScopeRank("device_only") = 0 /\ ScopeRank("private_mesh") = 1 /\ ScopeRank("public_mesh") = 2
    /\ EvidenceRank("observed") = 0 /\ EvidenceRank("peer_asserted") = 1
  BY DEF ScopeRank, EvidenceRank

\* The floor of each intent the demo allows.
LEMMA DemoFloors ==
    /\ RequiredEvidence(DemoPolicy, "device_only") = "observed"
    /\ RequiredEvidence(DemoPolicy, "private_mesh") = "peer_asserted"
    /\ DemoPolicy.minimum_evidence["device_only"] = "observed"
    /\ DemoPolicy.minimum_evidence["private_mesh"] = "peer_asserted"
  BY DEF RequiredEvidence, DemoPolicy

\* A plan of one hop has no leg and repeats no peer.
LEMMA OneHop ==
    ASSUME NEW k, NEW id, k.hop_peer_ids = <<id>>
    PROVE  /\ Hops(k) = {id} /\ Legs(k) = {}
           /\ Len(k.hop_peer_ids) = 1 /\ DOMAIN k.hop_peer_ids = {1}
  BY DEF Hops, Legs

\* What admit_plan says of the manifest of a demo peer.
LEMMA DemoPeerReasons ==
    ASSUME DemoPeers \subseteq CanonicalKeys, NEW id \in DemoPeers, NEW scope \in Intents,
           NEW name, NEW intent \in {"device_only", "private_mesh"}, NEW hops
    PROVE  PeerReasons(id, DemoManifest(id, scope), DemoPlan(name, intent, hops),
                       RequiredEvidence(DemoPolicy, intent), DemoTime)
             = Flag(ScopeRank(scope) > ScopeRank(intent), <<"SCOPE_WIDENING", id>>)
  <1> DEFINE peer == DemoManifest(id, scope)
             k    == DemoPlan(name, intent, hops)
             floor == RequiredEvidence(DemoPolicy, intent)
  <1>1. /\ peer.execution_scope = scope
        /\ peer.model_digest = k.model_digest /\ peer.runtime_digest = k.runtime_digest
        /\ peer.public_key = id /\ peer.key_id = DeriveKeyId(id)
        /\ peer.evidence_level = "peer_asserted"
        /\ k.intent = intent
    BY DEF DemoManifest, DemoPlan
  <1>2. ~(DemoTime < peer.valid_from) /\ ~Ended(DemoTime, peer.expires_at)
    BY DEF DemoManifest, DemoTime, Ended
  <1>3. KeyDerives(id)
    BY DEF KeyDerives
  <1>4. ~(EvidenceRank(EffectiveEvidence("peer_asserted")) < EvidenceRank(floor))
    BY DemoRanks, DemoFloors DEF EffectiveEvidence
  <1> HIDE DEF peer, k, floor
  <1>5. PeerReasons(id, peer, k, floor, DemoTime)
          = Flag(ScopeRank(scope) > ScopeRank(intent), <<"SCOPE_WIDENING", id>>)
    BY <1>1, <1>2, <1>3, <1>4 DEF PeerReasons, Flag
  <1> QED
    BY <1>5 DEF peer, k, floor

\* What it says of the route as a whole, if the route is one of the demo's.
LEMMA DemoRouteReasons ==
    ASSUME NEW k, k \in {DevicePlan, PrivatePlan, EscapePlan}
    PROVE  RouteReasons(k, DemoPolicy, DemoTime)
             = Flag(k = EscapePlan, <<"DEVICE_ONLY_REQUIRES_LOCAL_SINGLE_HOP">>)
  <1> DEFINE hops == k.hop_peer_ids
             topology == DemoPolicy.topology
  <1>1. /\ k.intent \in DemoPolicy.allowed_intents
        /\ ~(DemoTime < k.created_at) /\ ~Ended(DemoTime, k.expires_at)
        /\ ~(DemoTime < topology.captured_at) /\ ~Ended(DemoTime, topology.expires_at)
    BY DEF DevicePlan, PrivatePlan, EscapePlan, DemoPlan, DemoPolicy, DemoTopology, DemoTime, Ended
  <1>2. /\ ~(Len(hops) > DemoPolicy.max_hops)
        /\ ~ \E i, j \in DOMAIN hops : i # j /\ hops[i] = hops[j]
        /\ Legs(k) \subseteq topology.edges
    <2>1. CASE \E id : hops = <<id>>
      <3>1. Legs(k) = {} /\ Len(hops) = 1 /\ DOMAIN hops = {1}
        BY <2>1, OneHop
      <3> HIDE DEF hops
      <3> QED
        BY <3>1 DEF DemoPolicy
    <2>2. CASE hops = <<"device-local", "private-peer">>
      <3>1. Len(hops) = 2 /\ DOMAIN hops = {1, 2} /\ hops[1] = "device-local" /\ hops[2] = "private-peer"
        BY <2>2
      <3>2. Legs(k) = {<<"device-local", "private-peer">>}
        <4>1. 1..(Len(hops) - 1) = {1}
          BY <3>1
        <4> QED
          BY <3>1, <4>1 DEF Legs
      <3> HIDE DEF hops
      <3> QED
        BY <3>1, <3>2 DEF DemoPolicy, DemoTopology
    <2> QED
      BY <2>1, <2>2 DEF DevicePlan, PrivatePlan, EscapePlan, DemoPlan
  <1>3. k.intent = "device_only" /\ hops # <<topology.local_peer_id>> <=> k = EscapePlan
    BY DEF DevicePlan, PrivatePlan, EscapePlan, DemoPlan, DemoPolicy, DemoTopology
  <1>4. RequiredEvidence(DemoPolicy, k.intent) # "hardware_attested"
    BY DemoFloors DEF DevicePlan, PrivatePlan, EscapePlan, DemoPlan
  <1> HIDE DEF hops, topology
  <1> QED
    BY <1>1, <1>2, <1>3, <1>4 DEF RouteReasons, Flag, hops, topology

LEMMA EscapeIsDenied ==
    ASSUME DemoPeers \subseteq CanonicalKeys
    PROVE  EscapeReasons =
              {<<"DEVICE_ONLY_REQUIRES_LOCAL_SINGLE_HOP">>, <<"SCOPE_WIDENING", "loopback-public">>}
  <1> DEFINE id == "loopback-public"
             peers == DemoPolicy.topology.peers
             floor == RequiredEvidence(DemoPolicy, EscapePlan.intent)
  <1>1. EscapePlan.intent = "device_only" /\ EscapePlan.hop_peer_ids = <<id>>
    BY DEF EscapePlan, DemoPlan
  <1>2. Hops(EscapePlan) = {id} /\ id \in DemoPeers
    BY <1>1, OneHop DEF DemoPeers
  <1>3. PeerReasons(id, peers[id], EscapePlan, floor, DemoTime) = {<<"SCOPE_WIDENING", id>>}
    BY <1>1, <1>2, DemoPins, DemoPeerReasons, DemoRanks DEF Flag, Intents, EscapePlan
  <1>4. RouteReasons(EscapePlan, DemoPolicy, DemoTime) = {<<"DEVICE_ONLY_REQUIRES_LOCAL_SINGLE_HOP">>}
    BY DemoRouteReasons DEF Flag
  <1>5. Hops(EscapePlan) \ DOMAIN peers = {} /\ KnownHops(EscapePlan, DemoPolicy) = {id}
    BY <1>2, DemoPins DEF KnownHops
  <1> HIDE DEF peers, floor, id
  <1> QED
    BY <1>3, <1>4, <1>5 DEF EscapeReasons, AdmitReasons, peers, floor, id

\* The other two plans are admitted.
LEMMA DemoPlansAdmitted ==
    ASSUME DemoPeers \subseteq CanonicalKeys, NEW k, k \in {DevicePlan, PrivatePlan}
    PROVE  /\ AdmitReasons(k, DemoPolicy, DemoTime) = {}
           /\ Hops(k) \subseteq DemoPeers
  <1> DEFINE peers == DemoPolicy.topology.peers
             floor == RequiredEvidence(DemoPolicy, k.intent)
  <1>1. k # EscapePlan
    BY DEF DevicePlan, PrivatePlan, EscapePlan, DemoPlan
  <1>2. RouteReasons(k, DemoPolicy, DemoTime) = {}
    BY <1>1, DemoRouteReasons DEF Flag
  <1>3. ASSUME NEW id \in Hops(k)
        PROVE  id \in DemoPeers /\ PeerReasons(id, peers[id], k, floor, DemoTime) = {}
    <2>1. CASE k = DevicePlan
      <3>1. id = "device-local"
        BY <1>3, <2>1, OneHop DEF DevicePlan, DemoPlan
      <3> QED
        BY <2>1, <3>1, DemoPins, DemoPeerReasons, DemoRanks
           DEF DemoPeers, Flag, Intents, DevicePlan, DemoPlan
    <2>2. CASE k = PrivatePlan
      <3>1. id = "device-local" \/ id = "private-peer"
        BY <1>3, <2>2 DEF Hops, PrivatePlan, DemoPlan
      <3> QED
        BY <2>2, <3>1, DemoPins, DemoPeerReasons, DemoRanks
           DEF DemoPeers, Flag, Intents, PrivatePlan, DemoPlan
    <2> QED
      BY <2>1, <2>2
  <1>4. Hops(k) \ DOMAIN peers = {} /\ KnownHops(k, DemoPolicy) \subseteq Hops(k)
    BY <1>3, DemoPins DEF KnownHops
  <1> HIDE DEF peers, floor
  <1> QED
    BY <1>2, <1>3, <1>4 DEF AdmitReasons, peers, floor

\* The demo's signers hold the pinned keys, and its instant is in every window.
LEMMA DemoIsInTime ==
    ASSUME NEW k, k \in {DevicePlan, PrivatePlan}, Hops(k) \subseteq DemoPeers
    PROVE  /\ PinnedSigners([id \in DemoPeers |-> id], k, DemoPolicy)
           /\ Within(DemoTime, k.created_at, k.expires_at)
           /\ Within(DemoTime, DemoPolicy.topology.captured_at, DemoPolicy.topology.expires_at)
           /\ InEveryWindow(k, DemoPolicy, DemoTime)
  <1>1. ASSUME NEW id \in DemoPeers
        PROVE  LET peer == DemoPolicy.topology.peers[id]
               IN  peer.public_key = id /\ Within(DemoTime, peer.valid_from, peer.expires_at)
    <2>1. \A scope : LET peer == DemoManifest(id, scope)
                     IN  peer.public_key = id /\ Within(DemoTime, peer.valid_from, peer.expires_at)
      BY DEF DemoManifest, Within, DemoTime
    <2>2. \E scope : DemoPolicy.topology.peers[id] = DemoManifest(id, scope)
      BY DemoPins DEF DemoPeers
    <2> QED
      BY <2>1, <2>2
  <1>2. Within(DemoTime, k.created_at, k.expires_at)
    BY DEF DevicePlan, PrivatePlan, DemoPlan, Within, DemoTime
  <1>3. Within(DemoTime, DemoPolicy.topology.captured_at, DemoPolicy.topology.expires_at)
    BY DEF DemoPolicy, DemoTopology, Within, DemoTime
  <1> QED
    BY <1>1, <1>2, <1>3 DEF PinnedSigners, InEveryWindow

\* What the demo's signers attest is an exact chain.
LEMMA DemoChainIsExact ==
    ASSUME DemoPeers \subseteq CanonicalKeys, ValidPolicy(DemoPolicy),
           NEW k, k \in {DevicePlan, PrivatePlan}, ValidAttestation(Attested(k))
    PROVE  ExactChain(Attested(k), DemoPolicy, DemoTime)
  <1> DEFINE a == Attested(k)
             signers == [id \in DemoPeers |-> id]
  <1>1. Len(k.hop_peer_ids) \in Nat
    BY DEF DevicePlan, PrivatePlan, DemoPlan
  <1>2. a = BuildAttestation(k, DemoPolicy, signers, DemoTime, <<>>)
    BY DEF Attested
  <1>3. a.plan = k
    <2> HIDE DEF a, signers
    <2> QED
      BY <1>1, <1>2, BuildAttestationBuilds DEF BuiltFor
  <1>4. /\ AdmitReasons(k, DemoPolicy, DemoTime) = {}
        /\ PinnedSigners(signers, k, DemoPolicy)
        /\ Within(DemoTime, k.created_at, k.expires_at)
        /\ Within(DemoTime, DemoPolicy.topology.captured_at, DemoPolicy.topology.expires_at)
        /\ InEveryWindow(k, DemoPolicy, DemoTime)
    BY DemoPlansAdmitted, DemoIsInTime
  <1>5. ValidAttestation(a) /\ DemoTime \in Int /\ DemoTime <= DemoTime
    BY DEF DemoTime
  <1> HIDE DEF a, signers, DemoTime
  <1>6. ExactChain(a, DemoPolicy, DemoTime)
    BY <1>2, <1>3, <1>4, <1>5, BuiltIsExact
  <1> QED
    BY <1>6 DEF a

\* Another signature on a receipt without fault is found, and only by the
\* signature check: nothing else looks at it.
LEMMA OnlyTheSignature ==
    ASSUME NEW r, NEW forged, NEW i, NEW previous, NEW k, NEW p, NEW t,
           "signature" \in DOMAIN r, forged # r.signature,
           k.hop_peer_ids[i] \in DOMAIN p.topology.peers,
           ReceiptReasons(r, i, previous, k, p, t) = {}
    PROVE  ReceiptReasons([r EXCEPT !.signature = forged], i, previous, k, p, t)
             = {<<"SIGNATURE_INVALID">>}
  <1> DEFINE peer == p.topology.peers[k.hop_peer_ids[i]]
             expected == ExpectedBinding(k, p, i, previous)
             f == [r EXCEPT !.signature = forged]
  <1>1. /\ f.binding = r.binding /\ f.observed_at = r.observed_at
        /\ f.evidence_level = r.evidence_level /\ f.key_id = r.key_id
        /\ f.signature = forged
    OBVIOUS
  <1>2. BindingReasons(r, expected) = {} /\ ManifestReasons(r, previous, peer, k, p, t) = {}
    BY DEF ReceiptReasons
  <1> HIDE DEF f, peer, expected
  <1>3. BindingReasons(f, expected) = {}
    BY <1>1, <1>2 DEF BindingReasons
  <1>4. ManifestReasons(f, previous, peer, k, p, t) = {<<"SIGNATURE_INVALID">>}
    <2>1. SigningPayload(f) = SigningPayload(r)
      BY <1>1 DEF SigningPayload
    <2>2. /\ KeyDerives(peer.public_key)
          /\ VerifyEd25519(peer.public_key, SigningPayload(r), r.signature)
      BY <1>2 DEF ManifestReasons, Flag
    <2>3. ~VerifyEd25519(peer.public_key, SigningPayload(f), f.signature)
      BY <1>1, <2>1, <2>2 DEF VerifyEd25519
    <2>4. TimeReversed(f, previous) = TimeReversed(r, previous)
      BY <1>1 DEF TimeReversed
    <2> QED
      BY <1>1, <1>2, <2>2, <2>3, <2>4 DEF ManifestReasons, Flag
  <1>5. ReceiptReasons(f, i, previous, k, p, t)
          = BindingReasons(f, expected) \cup ManifestReasons(f, previous, peer, k, p, t)
    BY DEF ReceiptReasons, peer, expected
  <1> QED
    BY <1>3, <1>4, <1>5 DEF f

\* The only receipt of the demo's device attestation, and the checks it passes.
LEMMA DemoReceipt ==
    ASSUME DemoPeers \subseteq CanonicalKeys
    PROVE  LET r == DeviceAttestation.receipts[1]
           IN  /\ DeviceAttestation = [plan |-> DevicePlan, receipts |-> DeviceAttestation.receipts]
               /\ r = SignedReceipt(ReceiptBinding(DevicePlan, DemoPolicy, 1, None),
                                    "peer_asserted", DemoTime, "device-local")
               /\ ReceiptReasons(r, 1, None, DevicePlan, DemoPolicy, DemoTime) = {}
  <1> DEFINE id == "device-local"
             peer == DemoPolicy.topology.peers[id]
             binding == ReceiptBinding(DevicePlan, DemoPolicy, 1, None)
             r == SignedReceipt(binding, "peer_asserted", DemoTime, id)
             signers == [q \in DemoPeers |-> q]
  <1>1. DevicePlan.hop_peer_ids = <<id>> /\ DevicePlan.intent = "device_only"
    BY DEF DevicePlan, DemoPlan
  <1>2. /\ peer.public_key = id /\ peer.key_id = DeriveKeyId(id) /\ KeyDerives(id)
        /\ peer.evidence_level = "peer_asserted"
        /\ Within(DemoTime, peer.valid_from, peer.expires_at)
    BY DemoPins DEF DemoManifest, KeyDerives, DemoPeers, Within, DemoTime
  <1>3. /\ DeviceAttestation = [plan |-> DevicePlan, receipts |-> DeviceAttestation.receipts]
        /\ DeviceAttestation.receipts[1]
              = BuiltReceipt(DevicePlan, DemoPolicy, signers, DemoTime, <<>>, 1, None)
    <2>1. Len(DevicePlan.hop_peer_ids) = 1
      BY <1>1
    <2>2. DeviceAttestation = BuildAttestation(DevicePlan, DemoPolicy, signers, DemoTime, <<>>)
      BY DEF DeviceAttestation, Attested
    <2> DEFINE built == BuildAttestation(DevicePlan, DemoPolicy, signers, DemoTime, <<>>)
    <2> HIDE DEF signers
    <2>4. Len(DevicePlan.hop_peer_ids) \in Nat
      BY <2>1
    <2>3. BuiltFor(built, DevicePlan, DemoPolicy, signers, DemoTime, <<>>)
      BY <2>4, BuildAttestationBuilds
    <2> HIDE DEF built
    <2> QED
      BY <2>1, <2>2, <2>3 DEF BuiltFor, BuiltChain, built
  <1>4. BuiltReceipt(DevicePlan, DemoPolicy, signers, DemoTime, <<>>, 1, None) = r
    <2>1. DevicePlan.hop_peer_ids[1] = id /\ id \in Hops(DevicePlan)
      BY <1>1, OneHop
    <2>2. PinnedSigners(signers, DevicePlan, DemoPolicy)
      BY DemoPlansAdmitted, DemoIsInTime
    <2>3. peer = DemoPolicy.topology.peers[DevicePlan.hop_peer_ids[1]]
      BY <2>1
    <2> HIDE DEF signers, id, peer, binding
    <2>4. BuiltReceipt(DevicePlan, DemoPolicy, signers, DemoTime, <<>>, 1, None)
            = SignedReceipt(ReceiptBinding(DevicePlan, DemoPolicy, 1, None),
                            DemoPolicy.topology.peers[DevicePlan.hop_peer_ids[1]].evidence_level,
                            DemoTime,
                            DemoPolicy.topology.peers[DevicePlan.hop_peer_ids[1]].public_key)
      BY <2>1, <2>2, HonestReceipt
    <2> QED
      BY <1>2, <2>3, <2>4 DEF binding
  <1>5. /\ r.binding = binding /\ r.evidence_level = "peer_asserted"
        /\ r.observed_at = DemoTime /\ r.key_id = DeriveKeyId(id)
        /\ r.signature = Sign(id, SigningPayload(r))
    BY DEF SignedReceipt, SigningPayload
  <1> HIDE DEF r
  <1>6. BindingReasons(r, ExpectedBinding(DevicePlan, DemoPolicy, 1, None)) = {}
    BY <1>5, SameBinding DEF BindingReasons
  <1>7. ManifestReasons(r, None, peer, DevicePlan, DemoPolicy, DemoTime) = {}
    <2>1. /\ Within(DemoTime, DevicePlan.created_at, DevicePlan.expires_at)
          /\ Within(DemoTime, DemoPolicy.topology.captured_at, DemoPolicy.topology.expires_at)
          /\ ~(DemoTime > DemoTime)
      BY DEF DevicePlan, DemoPlan, DemoPolicy, DemoTopology, Within, DemoTime
    <2>2. VerifyEd25519(id, SigningPayload(r), r.signature)
      BY <1>2, <1>5 DEF VerifyEd25519
    <2>3. /\ ~(EvidenceRank("peer_asserted") > EvidenceRank("peer_asserted"))
          /\ ~(EvidenceRank(EffectiveEvidence("peer_asserted"))
                  < EvidenceRank(DemoPolicy.minimum_evidence[DevicePlan.intent]))
      BY <1>1, DemoRanks, DemoFloors DEF EffectiveEvidence
    <2>4. ~TimeReversed(r, None)
      BY DEF TimeReversed
    <2> HIDE DEF peer, id
    <2> QED
      BY <1>2, <1>5, <2>1, <2>2, <2>3, <2>4 DEF ManifestReasons, Flag
  <1>8. DevicePlan.hop_peer_ids[1] = id /\ id \in DOMAIN DemoPolicy.topology.peers
    BY <1>1, DemoPins DEF DemoPeers
  <1> HIDE DEF binding, peer, id, signers
  <1>9. ReceiptReasons(r, 1, None, DevicePlan, DemoPolicy, DemoTime) = {}
    BY <1>6, <1>7, <1>8 DEF ReceiptReasons, peer
  <1> QED
    BY <1>3, <1>4, <1>9 DEF r, binding, id

\* The tampered attestation has that receipt with a signature nobody made.
LEMMA TamperedIsFound ==
    ASSUME DemoPeers \subseteq CanonicalKeys
    PROVE  /\ Tampered.plan = DevicePlan /\ Len(Tampered.receipts) = 1
           /\ ReceiptReasons(Tampered.receipts[1], 1, None, DevicePlan, DemoPolicy, DemoTime)
                = {<<"SIGNATURE_INVALID">>}
           /\ ~ExactChain(Tampered, DemoPolicy, DemoTime)
  <1> DEFINE r == DeviceAttestation.receipts[1]
             forged == <<"altered", r.signature>>
             peers == DemoPolicy.topology.peers
  <1>1. /\ DeviceAttestation = [plan |-> DevicePlan, receipts |-> DeviceAttestation.receipts]
        /\ r = SignedReceipt(ReceiptBinding(DevicePlan, DemoPolicy, 1, None),
                             "peer_asserted", DemoTime, "device-local")
        /\ ReceiptReasons(r, 1, None, DevicePlan, DemoPolicy, DemoTime) = {}
    BY DemoReceipt
  <1>3. /\ Tampered.plan = DevicePlan
        /\ Tampered.receipts = <<[r EXCEPT !.signature = forged]>>
    BY <1>1 DEF Tampered, TamperedReceipt
  <1>4. "signature" \in DOMAIN r /\ forged # r.signature
    <2>1. \A binding, level, at, key :
            LET signed == SignedReceipt(binding, level, at, key)
            IN  "signature" \in DOMAIN signed /\ \E payload : signed.signature = Sign(key, payload)
      BY DEF SignedReceipt
    <2>2. \A key, payload, s : <<"altered", s>> # Sign(key, payload)
      BY DEF Sign
    <2> HIDE DEF r
    <2> QED
      BY <1>1, <2>1, <2>2
  <1>6. DevicePlan.hop_peer_ids[1] \in DOMAIN peers
    BY DemoPins DEF DevicePlan, DemoPlan, DemoPeers
  <1> HIDE DEF r, forged
  <1>5. ReceiptReasons([r EXCEPT !.signature = forged], 1, None, DevicePlan, DemoPolicy, DemoTime)
          = {<<"SIGNATURE_INVALID">>}
    BY <1>1, <1>4, <1>6, OnlyTheSignature
  <1>7. Len(Tampered.receipts) = 1 /\ Tampered.receipts[1] = [r EXCEPT !.signature = forged]
    <2> DEFINE f == [r EXCEPT !.signature = forged]
    <2> HIDE DEF f
    <2>1. Tampered.receipts = <<f>>
      BY <1>3 DEF f
    <2> QED
      BY <2>1 DEF f
  <1>8. ~ExactReceipt(Tampered, DemoPolicy, 1, DemoTime)
    <2>1. \A b, l, at, key : \E payload : SignedReceipt(b, l, at, key).signature = Sign(key, payload)
      BY DEF SignedReceipt
    <2>2. \A key, payload : Tampered.receipts[1].signature # Sign(key, payload)
      BY <1>4, <1>7 DEF forged, Sign
    <2> QED
      BY <2>1, <2>2 DEF ExactReceipt
  <1>9. 1 \in DOMAIN Tampered.receipts
    BY <1>3
  <1> QED
    BY <1>3, <1>5, <1>7, <1>8, <1>9 DEF ExactChain

\* The demo tells one story whoever else uses the library in between
\* (demo.py:145-169): of the properties of a call, only the names of the demo's
\* keys are assumed to decode.
THEOREM DemoHolds ==
    ASSUME DemoPeers \subseteq CanonicalKeys
    PROVE  Spec => []DemoTellsItsStory
  <1>1. ASSUME IInv, Outcome, DenialsTellAll, AcceptsExactlyTheExactChains
        PROVE  DemoTellsItsStory
    <2> SUFFICES ASSUME decision # None, policy = DemoPolicy, now = DemoTime
                 PROVE  /\ attestation \in {DeviceAttestation, PrivateAttestation} =>
                              \/ decision.admitted
                              \/ withStore /\ decision.reason_codes = {<<"REPLAY_DETECTED">>}
                        /\ attestation = Tampered => decision.reason_codes = {<<"SIGNATURE_INVALID">>}
      BY EscapeIsDenied DEF DemoTellsItsStory
    <2>1. pc = "returned" /\ ValidAttestation(attestation) /\ ValidPolicy(policy)
      BY <1>1, Arguments DEF IInv, Loop
    <2>2. ASSUME NEW k, k \in {DevicePlan, PrivatePlan}, attestation = Attested(k)
          PROVE  \/ decision.admitted
                 \/ withStore /\ decision.reason_codes = {<<"REPLAY_DETECTED">>}
      <3>1. ExactChain(attestation, policy, now)
        BY <2>1, <2>2, DemoChainIsExact
      <3> QED
        BY <1>1, <3>1 DEF AcceptsExactlyTheExactChains
    <2>3. ASSUME attestation = Tampered
          PROVE  decision.reason_codes = {<<"SIGNATURE_INVALID">>}
      <3>1. /\ plan = DevicePlan /\ Len(receipts) = 1 /\ Found(1) = {<<"SIGNATURE_INVALID">>}
            /\ ~ExactChain(attestation, policy, now)
        BY <2>3, TamperedIsFound DEF plan, receipts, Found, Preceding
      <3>2. HopCount = 1 /\ AdmitReasons(plan, policy, now) = {}
        BY <3>1, DemoPlansAdmitted, OneHop DEF HopCount, DevicePlan, DemoPlan
      <3>3. ~decision.admitted
        BY <1>1, <3>1 DEF AcceptsExactlyTheExactChains
      <3>4. decision.reason_codes = AllFaults
        BY <1>1, <3>1, <3>2, <3>3 DEF DenialsTellAll
      <3>5. AllFaults = Found(1)
        <4>1. Compared = 1 /\ ~(Len(receipts) > HopCount) /\ Len(receipts) = HopCount
          BY <3>1, <3>2 DEF Compared
        <4>2. UNION {Found(i) : i \in 1..1} = Found(1)
          OBVIOUS
        <4> QED
          BY <4>1, <4>2 DEF AllFaults, Faults, Flag
      <3> QED
        BY <3>1, <3>4, <3>5
    <2> QED
      BY <2>2, <2>3 DEF DeviceAttestation, PrivateAttestation
  <1> QED
    BY <1>1, OutcomeInvariant, AllFaultsReported, ExactVerdict, PTL
=============================================================================
