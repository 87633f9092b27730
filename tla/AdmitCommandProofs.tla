------------------------- MODULE AdmitCommandProofs -------------------------
(***************************************************************************)
(* The properties of `locusmesh admit` for every set of plans, policies    *)
(* and edits, at any horizon.  All rest on AdmissibleMeans, which says     *)
(* what an empty collection of reasons is, and on an invariant that says   *)
(* where the last decision came from.                                      *)
(***************************************************************************)
EXTENDS AdmitCommand, TLAPS

-----------------------------------------------------------------------------
(* What it means that admit_plan finds no reason *)

\* What the contracts say about the numbers admission compares.
LEMMA Numbers ==
    ASSUME NEW k, NEW q, ValidPlan(k), ValidPolicy(q)
    PROVE  /\ k.created_at \in Int /\ k.expires_at \in Int
           /\ q.topology.captured_at \in Int /\ q.topology.expires_at \in Int
           /\ Len(k.hop_peer_ids) \in Int /\ q.max_hops \in Int
           /\ DOMAIN k.hop_peer_ids = 1..Len(k.hop_peer_ids)
           /\ \A p \in DOMAIN q.topology.peers :
                 /\ q.topology.peers[p].valid_from \in Int
                 /\ q.topology.peers[p].expires_at \in Int
  <1>1. k.created_at \in Int /\ k.expires_at \in Int
    BY DEF ValidPlan
  <1>2. DOMAIN k.hop_peer_ids = 1..Len(k.hop_peer_ids)
    BY DEF ValidPlan
  <1>3. q.max_hops \in 1..RouteLimit /\ ValidTopology(q.topology)
    BY DEF ValidPolicy
  <1>4. /\ q.topology.captured_at \in Int /\ q.topology.expires_at \in Int
        /\ \A p \in DOMAIN q.topology.peers : ValidManifest(q.topology.peers[p])
    BY <1>3 DEF ValidTopology
  <1>5. \A p \in DOMAIN q.topology.peers :
            /\ q.topology.peers[p].valid_from \in Int
            /\ q.topology.peers[p].expires_at \in Int
    BY <1>4 DEF ValidManifest
  <1>6. Len(k.hop_peer_ids) \in Int /\ q.max_hops \in Int
    <2>1. Len(k.hop_peer_ids) \in 1..RouteLimit
      BY DEF ValidPlan
    <2>2. \A n \in 1..RouteLimit : n \in Int
      BY DEF RouteLimit
    <2> QED
      BY <1>3, <2>1, <2>2
  <1> QED
    BY <1>1, <1>2, <1>4, <1>5, <1>6

\* The checks of the route as a whole (policy.py:131-154).
RouteFits(k, q, t) ==
    LET hops     == k.hop_peer_ids
        topology == q.topology
    IN  /\ k.intent \in q.allowed_intents
        /\ Within(t, k.created_at, k.expires_at)
        /\ Within(t, topology.captured_at, topology.expires_at)
        /\ Len(hops) <= q.max_hops
        /\ \A i, j \in DOMAIN hops : hops[i] = hops[j] => i = j
        /\ k.intent = "device_only" => hops = <<topology.local_peer_id>>
        /\ Legs(k) \subseteq topology.edges
        /\ RequiredEvidence(q, k.intent) # "hardware_attested"

\* No reason from these checks means that they all hold.
LEMMA RouteReasonsEmpty ==
    ASSUME NEW k, NEW q, NEW t \in Int, ValidPlan(k), ValidPolicy(q)
    PROVE  RouteReasons(k, q, t) = {} <=> RouteFits(k, q, t)
  <1> DEFINE hops     == k.hop_peer_ids
             topology == q.topology
             repeated == \E i, j \in DOMAIN hops : i # j /\ hops[i] = hops[j]
             strayLegs == {<<"EDGE_NOT_ALLOWED", leg[1], leg[2]>> : leg \in Legs(k) \ topology.edges}
  <1>1. RouteReasons(k, q, t) = {} <=>
            /\ ~(k.intent \notin q.allowed_intents)
            /\ ~(t < k.created_at) /\ ~Ended(t, k.expires_at)
            /\ ~(t < topology.captured_at) /\ ~Ended(t, topology.expires_at)
            /\ ~(Len(hops) > q.max_hops)
            /\ ~repeated
            /\ ~(k.intent = "device_only" /\ hops # <<topology.local_peer_id>>)
            /\ strayLegs = {}
            /\ ~(RequiredEvidence(q, k.intent) = "hardware_attested")
    BY DEF RouteReasons, Flag
  <1>2. strayLegs = {} <=> Legs(k) \subseteq topology.edges
    OBVIOUS
  <1>3. ~repeated <=> \A i, j \in DOMAIN hops : hops[i] = hops[j] => i = j
    OBVIOUS
  <1>4. /\ ~(t < k.created_at) /\ ~Ended(t, k.expires_at)
            <=> Within(t, k.created_at, k.expires_at)
        /\ ~(t < topology.captured_at) /\ ~Ended(t, topology.expires_at)
            <=> Within(t, topology.captured_at, topology.expires_at)
        /\ ~(Len(hops) > q.max_hops) <=> Len(hops) <= q.max_hops
    BY Numbers DEF Ended, Within
  <1> QED
    BY <1>1, <1>2, <1>3, <1>4 DEF RouteFits

\* The checks of one hop against its manifest (policy.py:164-182).
PeerFits(peer, k, required, t) ==
    /\ Within(t, peer.valid_from, peer.expires_at)
    /\ ScopeRank(peer.execution_scope) <= ScopeRank(k.intent)
    /\ peer.model_digest = k.model_digest
    /\ peer.runtime_digest = k.runtime_digest
    /\ KeyDerives(peer.public_key)
    /\ peer.key_id = DeriveKeyId(peer.public_key)
    /\ required # None =>
          EvidenceRank(required) <= EvidenceRank(EffectiveEvidence(peer.evidence_level))

\* The ranks are numbers, so "not above" and "at most" are the same.
LEMMA Ranks ==
    /\ \A s \in Intents : ScopeRank(s) \in Int
    /\ \A e \in EvidenceLevels : EvidenceRank(e) \in Int /\ EffectiveEvidence(e) \in EvidenceLevels
  BY DEF Intents, EvidenceLevels, ScopeRank, EvidenceRank, EffectiveEvidence

\* No reason about a pinned hop means that its manifest fits the plan.
LEMMA PeerReasonsEmpty ==
    ASSUME NEW id, NEW peer, NEW k, NEW required \in EvidenceLevels \cup {None}, NEW t \in Int,
           ValidManifest(peer), ValidPlan(k)
    PROVE  PeerReasons(id, peer, k, required, t) = {} <=> PeerFits(peer, k, required, t)
  <1>1. /\ peer.valid_from \in Int /\ peer.expires_at \in Int
        /\ peer.execution_scope \in Intents /\ peer.evidence_level \in EvidenceLevels
        /\ k.intent \in Intents
    BY DEF ValidManifest, ValidPlan
  <1>2. PeerReasons(id, peer, k, required, t) = {} <=>
            /\ ~(t < peer.valid_from) /\ ~Ended(t, peer.expires_at)
            /\ ~(ScopeRank(peer.execution_scope) > ScopeRank(k.intent))
            /\ ~(peer.model_digest # k.model_digest)
            /\ ~(peer.runtime_digest # k.runtime_digest)
            /\ ~~KeyDerives(peer.public_key)
            /\ ~(KeyDerives(peer.public_key) /\ DeriveKeyId(peer.public_key) # peer.key_id)
            /\ ~ ( /\ required # None
                   /\ EvidenceRank(EffectiveEvidence(peer.evidence_level)) < EvidenceRank(required))
    BY DEF PeerReasons, Flag
  <1>3. /\ ~(t < peer.valid_from) /\ ~Ended(t, peer.expires_at)
            <=> Within(t, peer.valid_from, peer.expires_at)
        /\ ~(ScopeRank(peer.execution_scope) > ScopeRank(k.intent))
            <=> ScopeRank(peer.execution_scope) <= ScopeRank(k.intent)
        /\ required # None =>
              (~(EvidenceRank(EffectiveEvidence(peer.evidence_level)) < EvidenceRank(required))
                 <=> EvidenceRank(required) <= EvidenceRank(EffectiveEvidence(peer.evidence_level)))
    BY <1>1, Ranks DEF Ended, Within
  <1> QED
    BY <1>2, <1>3 DEF PeerFits

\* A policy has a floor for each intent it allows, and it is an evidence level.
LEMMA FloorIsLevel ==
    ASSUME NEW k, NEW q, ValidPolicy(q)
    PROVE  /\ RequiredEvidence(q, k.intent) \in EvidenceLevels \cup {None}
           /\ k.intent \in q.allowed_intents =>
                 /\ k.intent \in DOMAIN q.minimum_evidence
                 /\ RequiredEvidence(q, k.intent) = q.minimum_evidence[k.intent]
                 /\ q.minimum_evidence[k.intent] \in EvidenceLevels
                 /\ q.minimum_evidence[k.intent] # None
  BY NoneAssumption DEF RequiredEvidence, ValidPolicy

\* _minimum_scope returns a scope of the set that no scope of it exceeds, and
\* _minimum_evidence a level of the set that none is below (policy.py:105-114).
LEMMA WidestAndWeakest ==
    /\ \A S \in SUBSET Intents : S # {} =>
          /\ WidestScope(S) \in S
          /\ \A s \in S : ScopeRank(s) <= ScopeRank(WidestScope(S))
    /\ \A L \in SUBSET EvidenceLevels : L # {} =>
          /\ WeakestEvidence(L) \in L
          /\ \A e \in L : EvidenceRank(WeakestEvidence(L)) <= EvidenceRank(e)
  <1>1. ASSUME NEW S \in SUBSET Intents, S # {}
        PROVE  \E s \in S : \A u \in S : ScopeRank(u) <= ScopeRank(s)
    BY <1>1 DEF Intents, ScopeRank
  <1>2. ASSUME NEW L \in SUBSET EvidenceLevels, L # {}
        PROVE  \E e \in L : \A u \in L : EvidenceRank(e) <= EvidenceRank(u)
    BY <1>2 DEF EvidenceLevels, EvidenceRank
  <1> QED
    BY <1>1, <1>2 DEF WidestScope, WeakestEvidence

\* admit_plan finds no reason exactly when the route fits as a whole, every hop
\* is pinned and every hop fits (policy.py:117-182).
THEOREM AdmissibleMeans ==
    ASSUME NEW k, NEW q, NEW t \in Int, ValidPlan(k), ValidPolicy(q)
    PROVE  AdmitReasons(k, q, t) = {} <=>
              /\ RouteFits(k, q, t)
              /\ \A id \in Hops(k) :
                    /\ id \in DOMAIN q.topology.peers
                    /\ PeerFits(q.topology.peers[id], k,
                                RequiredEvidence(q, k.intent), t)
  <1> DEFINE peers    == q.topology.peers
             required == RequiredEvidence(q, k.intent)
             unknown  == {<<"PEER_UNKNOWN", id>> : id \in Hops(k) \ DOMAIN peers}
  <1>1. AdmitReasons(k, q, t) = {} <=>
            /\ RouteReasons(k, q, t) = {}
            /\ unknown = {}
            /\ \A id \in KnownHops(k, q) :
                  PeerReasons(id, peers[id], k, required, t) = {}
    BY DEF AdmitReasons
  <1>2. unknown = {} <=> \A id \in Hops(k) : id \in DOMAIN peers
    OBVIOUS
  <1>3. ASSUME NEW id \in DOMAIN peers
        PROVE  PeerReasons(id, peers[id], k, required, t) = {}
                  <=> PeerFits(peers[id], k, required, t)
    BY PeerReasonsEmpty, FloorIsLevel DEF ValidPolicy, ValidTopology
  <1> QED
    BY <1>1, <1>2, <1>3, RouteReasonsEmpty DEF KnownHops

\* No check reports success.
LEMMA NoCheckReportsSuccess ==
    ASSUME NEW k, NEW q, NEW t
    PROVE  <<"ADMITTED">> \notin AdmitReasons(k, q, t)
  <1>1. \A id, peer, required : <<"ADMITTED">> \notin PeerReasons(id, peer, k, required, t)
    BY DEF PeerReasons, Flag
  <1>2. <<"ADMITTED">> \notin RouteReasons(k, q, t)
    BY DEF RouteReasons, Flag
  <1> QED
    BY <1>1, <1>2 DEF AdmitReasons

\* What admit_plan returns satisfies the validator of AdmissionDecision
\* (policy.py:184-198; models.py:367-381).
LEMMA AdmitPlanIsConsistent ==
    ASSUME NEW k, NEW q, NEW t, ValidPlan(k),
           \A v : Sha256Digest(v) # None
    PROVE  ValidDecision(AdmitPlan(k, q, t))
  <1> DEFINE d == AdmitPlan(k, q, t)
  <1>1. /\ d.decision_kind = "plan_admission"
        /\ d.attestation_digest = None
        /\ d.admitted <=> AdmitReasons(k, q, t) = {}
        /\ d.reason_codes = IF AdmitReasons(k, q, t) = {} THEN {<<"ADMITTED">>}
                            ELSE AdmitReasons(k, q, t)
        /\ d.route_digest = Sha256Digest(k)
        /\ d.policy_digest = PolicyDigest(q)
        /\ d.topology_digest = TopologyDigest(q.topology)
        /\ d.requested_intent = k.intent
    BY DEF AdmitPlan
  <1>2. None \notin {d.route_digest, d.policy_digest, d.topology_digest}
    BY <1>1 DEF PolicyDigest, TopologyDigest
  <1>3. d.requested_intent # None
    BY <1>1, NoneAssumption DEF ValidPlan
  <1> HIDE DEF d
  <1>4. /\ d.admitted => d.reason_codes = {<<"ADMITTED">>}
        /\ ~d.admitted => d.reason_codes # {} /\ <<"ADMITTED">> \notin d.reason_codes
    BY <1>1, NoCheckReportsSuccess
  <1>5. ValidDecision(d)
    BY <1>1, <1>2, <1>3, <1>4 DEF ValidDecision
  <1> QED
    BY <1>5 DEF d

-----------------------------------------------------------------------------
(* The command *)

\* The inputs are valid, and the last decision was made of this plan, at a time
\* not after now, under some policy.
IInv ==
    /\ ValidPlan(plan)
    /\ ValidPolicy(policy)
    /\ now \in Int
    /\ decision # None =>
          \E p, t : /\ ValidPolicy(p)
                    /\ t \in Int /\ t <= now
                    /\ decision = AdmitPlan(plan, p, t)

\* Edits lead to valid policies, time goes forward, and each run replaces the
\* decision by one of its own inputs.
LEMMA Inductive == Spec => []IInv
  <1>1. Init => IInv
    BY AdmitAssumption DEF Init, IInv
  <1>2. IInv /\ [Next]_vars => IInv'
    <2> SUFFICES ASSUME IInv, [Next]_vars
                 PROVE  IInv'
      OBVIOUS
    <2>1. CASE Admit
      <3>1. decision' = AdmitPlan(plan', policy', now')
        BY <2>1 DEF Admit
      <3>2. ValidPlan(plan') /\ ValidPolicy(policy') /\ now' \in Int /\ now' <= now'
        BY <2>1 DEF Admit, IInv
      <3> QED
        BY <3>1, <3>2 DEF IInv
    <2>2. CASE Tick
      <3>1. now' = now + 1 /\ UNCHANGED <<plan, policy, decision>>
        BY <2>2 DEF Tick
      <3>2. \A t \in Int : t <= now => t <= now'
        BY <3>1 DEF IInv
      <3> QED
        BY <3>1, <3>2 DEF IInv
    <2>3. CASE AmendPolicy
      BY <2>3 DEF AmendPolicy, IInv
    <2>4. CASE UNCHANGED vars
      BY <2>4 DEF vars, IInv
    <2> QED
      BY <2>1, <2>2, <2>3, <2>4 DEF Next
  <1> QED
    BY <1>1, <1>2, PTL DEF Spec

InTime == now \in 0..Horizon

\* Plan and policy stay valid, and every decision printed satisfies the
\* validator of its model; a digest is a string and never None
\* (policy.py:184-198; models.py:367-381; canonical.py:28-31).
THEOREM TypeCorrect ==
    ASSUME \A v : Sha256Digest(v) # None
    PROVE  Spec => []TypeOK
  <1>1. Init => InTime
    <2>1. 0 \in 0..Horizon
      BY AdmitAssumption
    <2> QED
      BY <2>1 DEF Init, InTime
  <1>2. InTime /\ [Next]_vars => InTime'
    BY AdmitAssumption DEF Next, Admit, Tick, AmendPolicy, vars, InTime
  <1>3. IInv /\ InTime => TypeOK
    BY AdmitPlanIsConsistent DEF IInv, TypeOK, InTime
  <1> QED
    BY <1>1, <1>2, <1>3, Inductive, PTL DEF Spec

\* The legs of a plan lie in the graph and its hops among the nodes exactly
\* when the plan, taken as a path, does.
LEMMA LegsAndHops ==
    ASSUME NEW p, ValidPlan(p), NEW arcs, NEW nodes
    PROVE  /\ Legs(p) \subseteq arcs <=>
                  \A i \in 1..(Len(p.hop_peer_ids) - 1) :
                      <<p.hop_peer_ids[i], p.hop_peer_ids[i + 1]>> \in arcs
           /\ Hops(p) \subseteq nodes <=>
                  \A i \in DOMAIN p.hop_peer_ids : p.hop_peer_ids[i] \in nodes
  BY DEF Legs, Hops

\* admit_plan admits exactly the contained routes (policy.py:117-182).
THEOREM AdmitsExactlyContained == Spec => []AdmittedIffContained
  <1>1. IInv => AdmittedIffContained
    <2> SUFFICES ASSUME IInv PROVE AdmittedIffContained
      OBVIOUS
    <2> DEFINE peers    == policy.topology.peers
               required == RequiredEvidence(policy, plan.intent)
               eligible == {id \in DOMAIN peers : Eligible(id)}
    <2>1. AdmitReasons(plan, policy, now) = {} <=>
              /\ RouteFits(plan, policy, now)
              /\ \A id \in Hops(plan) : id \in DOMAIN peers /\ PeerFits(peers[id], plan, required, now)
      BY AdmissibleMeans DEF IInv
    \* With the intent allowed there is a floor, and a floor no manifest can
    \* reach stops the hops as well as the check of its own.
    <2>2. ASSUME plan.intent \in policy.allowed_intents, NEW id \in DOMAIN peers
          PROVE  /\ Eligible(id) <=> PeerFits(peers[id], plan, required, now)
                 /\ Eligible(id) => required # "hardware_attested"
      <3>1. /\ required = policy.minimum_evidence[plan.intent]
            /\ required \in EvidenceLevels /\ required # None
        BY <2>2, FloorIsLevel DEF IInv
      <3>2. peers[id].evidence_level \in EvidenceLevels
        BY <2>2 DEF IInv, ValidPolicy, ValidTopology, ValidManifest
      <3>3. ~ EvidenceRank("hardware_attested")
                 <= EvidenceRank(EffectiveEvidence(peers[id].evidence_level))
        BY <3>2 DEF EvidenceRank, EffectiveEvidence, EvidenceLevels
      <3>4. Eligible(id) <=> PeerFits(peers[id], plan, required, now)
        BY <3>1 DEF Eligible, PeerFits, KeyDerives
      <3>5. Eligible(id) => required # "hardware_attested"
        BY <3>1, <3>3 DEF Eligible
      <3> QED
        BY <3>4, <3>5
    <2>3. Hops(plan) # {}
      <3>1. plan.hop_peer_ids[1] \in Hops(plan)
        BY Numbers DEF IInv, ValidPlan, Hops, RouteLimit
      <3> QED
        BY <3>1
    <2>4. RouteContained <=>
              /\ plan.intent \in policy.allowed_intents
              /\ Len(plan.hop_peer_ids) <= policy.max_hops
              /\ Within(now, plan.created_at, plan.expires_at)
              /\ Within(now, policy.topology.captured_at, policy.topology.expires_at)
              /\ plan.intent = "device_only" => plan.hop_peer_ids = <<policy.topology.local_peer_id>>
              /\ Hops(plan) \subseteq eligible
              /\ Legs(plan) \subseteq policy.topology.edges
              /\ \A i, j \in DOMAIN plan.hop_peer_ids :
                    plan.hop_peer_ids[i] = plan.hop_peer_ids[j] => i = j
      <3>1. SimplePath(plan.hop_peer_ids, eligible, policy.topology.edges) <=>
                /\ Hops(plan) \subseteq eligible
                /\ Legs(plan) \subseteq policy.topology.edges
                /\ \A i, j \in DOMAIN plan.hop_peer_ids :
                      plan.hop_peer_ids[i] = plan.hop_peer_ids[j] => i = j
        BY LegsAndHops DEF SimplePath, IInv
      <3> QED
        BY <3>1 DEF RouteContained
    <2> QED
      BY <2>1, <2>2, <2>3, <2>4 DEF RouteFits, AdmittedIffContained
  <1> QED
    BY <1>1, Inductive, PTL

\* A stricter policy never admits what the laxer one denied: every condition of
\* AdmissibleMeans that holds under the stricter one holds under the laxer one.
THEOREM Tightening == Spec => TighteningNeverAdmits
  <1>1. ASSUME NEW p, NEW q, NEW k, NEW t \in Int, ValidPlan(k), ValidPolicy(p), ValidPolicy(q),
               Restricts(q, p), AdmitReasons(k, q, t) = {}
        PROVE  AdmitReasons(k, p, t) = {}
    <2> DEFINE floor(r) == RequiredEvidence(r, k.intent)
    <2>1. /\ RouteFits(k, q, t)
          /\ \A id \in Hops(k) : /\ id \in DOMAIN q.topology.peers
                                 /\ PeerFits(q.topology.peers[id], k, floor(q), t)
      BY <1>1, AdmissibleMeans
    <2>2. k.intent \in q.allowed_intents /\ k.intent \in p.allowed_intents
      BY <1>1, <2>1 DEF RouteFits, Restricts
    <2>3. /\ floor(p) \in EvidenceLevels /\ floor(q) \in EvidenceLevels /\ floor(q) # None
          /\ EvidenceRank(floor(p)) <= EvidenceRank(floor(q))
      BY <1>1, <2>2, FloorIsLevel DEF Restricts
    <2>4. floor(p) # "hardware_attested"
      <3>1. floor(q) # "hardware_attested"
        BY <2>1 DEF RouteFits
      <3> QED
        BY <2>3, <3>1 DEF EvidenceRank, EvidenceLevels
    <2>5. RouteFits(k, p, t)
      <3>1. /\ Within(t, q.topology.captured_at, q.topology.expires_at)
               => Within(t, p.topology.captured_at, p.topology.expires_at)
            /\ Len(k.hop_peer_ids) <= q.max_hops => Len(k.hop_peer_ids) <= p.max_hops
        BY <1>1, Numbers DEF Restricts, Within
      <3>2. /\ Legs(k) \subseteq q.topology.edges => Legs(k) \subseteq p.topology.edges
            /\ q.topology.local_peer_id = p.topology.local_peer_id
        BY <1>1 DEF Restricts
      <3> QED
        BY <2>1, <2>2, <2>4, <3>1, <3>2 DEF RouteFits
    <2>6. ASSUME NEW id \in Hops(k)
          PROVE  /\ id \in DOMAIN p.topology.peers
                 /\ PeerFits(p.topology.peers[id], k, floor(p), t)
      <3> DEFINE peer == q.topology.peers[id]
      <3>1. id \in DOMAIN p.topology.peers /\ p.topology.peers[id] = peer
        BY <1>1, <2>1 DEF Restricts
      <3>2. EffectiveEvidence(peer.evidence_level) \in EvidenceLevels
        BY <1>1, <2>1, Ranks DEF ValidPolicy, ValidTopology, ValidManifest
      <3>3. EvidenceRank(floor(q)) <= EvidenceRank(EffectiveEvidence(peer.evidence_level))
        BY <2>1, <2>3 DEF PeerFits
      <3>4. EvidenceRank(floor(p)) <= EvidenceRank(EffectiveEvidence(peer.evidence_level))
        BY <2>3, <3>2, <3>3, Ranks
      <3> QED
        BY <2>1, <3>1, <3>4 DEF PeerFits
    <2> QED
      BY <1>1, <2>5, <2>6, AdmissibleMeans
  <1>2. IInv /\ IInv' /\ [Next]_vars =>
            [ /\ Restricts(policy', policy) /\ now' = now
              /\ AdmitReasons(plan, policy, now) # {}
              => AdmitReasons(plan', policy', now') # {} ]_vars
    <2> SUFFICES ASSUME IInv, IInv', [Next]_vars, Restricts(policy', policy), now' = now,
                        AdmitReasons(plan, policy, now) # {}, AdmitReasons(plan', policy', now') = {}
                 PROVE  FALSE
      OBVIOUS
    <2>1. plan' = plan
      BY DEF Next, Admit, Tick, AmendPolicy, vars
    <2>2. ValidPlan(plan) /\ ValidPolicy(policy) /\ ValidPolicy(policy') /\ now \in Int
      BY DEF IInv
    <2> QED
      BY <1>1, <2>1, <2>2
  <1> QED
    BY <1>2, Inductive, PTL DEF Spec, TighteningNeverAdmits

\* Peers and edges that a route does not use change neither the verdict nor the
\* reasons.
THEOREM UnusedAuthority == Spec => UnusedAuthorityIsIrrelevant
  <1>1. ASSUME NEW p, NEW q, NEW t, SameForThePlan(p, q)
        PROVE  AdmitReasons(plan, q, t) = AdmitReasons(plan, p, t)
    <2> DEFINE floor == RequiredEvidence(p, plan.intent)
    <2>1. Legs(plan) \ p.topology.edges = Legs(plan) \ q.topology.edges
      BY <1>1 DEF SameForThePlan
    <2>2. RouteReasons(plan, q, t) = RouteReasons(plan, p, t)
      BY <1>1, <2>1 DEF SameForThePlan, RouteReasons
    <2>3. Hops(plan) \ DOMAIN p.topology.peers = Hops(plan) \ DOMAIN q.topology.peers
      BY <1>1 DEF SameForThePlan
    <2>4. {PeerReasons(id, q.topology.peers[id], plan, floor, t) : id \in KnownHops(plan, q)}
            = {PeerReasons(id, p.topology.peers[id], plan, floor, t) : id \in KnownHops(plan, p)}
      BY <1>1 DEF SameForThePlan, KnownHops
    <2>5. RequiredEvidence(q, plan.intent) = floor
      BY <1>1 DEF SameForThePlan
    <2> QED
      BY <2>2, <2>3, <2>4, <2>5 DEF AdmitReasons
  <1>2. [Next]_vars =>
            [ SameForThePlan(policy, policy') /\ now' = now
              => AdmitReasons(plan', policy', now') = AdmitReasons(plan, policy, now) ]_vars
    <2>1. [Next]_vars => plan' = plan
      BY DEF Next, Admit, Tick, AmendPolicy, vars
    <2> QED
      BY <1>1, <2>1
  <1> QED
    BY <1>2, PTL DEF Spec, UnusedAuthorityIsIrrelevant

\* The policy digest names the policy: no two policies share one.
LEMMA DigestNamesPolicy ==
    ASSUME NEW p, NEW q, PolicyDigest(p) = PolicyDigest(q)
    PROVE  p = q
  BY DEF PolicyDigest, Sha256Digest

\* A decision that says that something expired was made when it had, and was no
\* admission.
LEMMA ExpiredMeans ==
    ASSUME NEW k, NEW p, NEW t, Expired(AdmitPlan(k, p, t))
    PROVE  /\ ~AdmitPlan(k, p, t).admitted
           /\ \/ Ended(t, k.expires_at)
              \/ Ended(t, p.topology.expires_at)
              \/ \E id \in KnownHops(k, p) : Ended(t, p.topology.peers[id].expires_at)
  <1> DEFINE reasons == AdmitReasons(k, p, t)
             peers == p.topology.peers
             required == RequiredEvidence(p, k.intent)
             tags == {"PLAN_EXPIRED", "TOPOLOGY_EXPIRED", "PEER_EXPIRED"}
  <1>1. PICK r \in AdmitPlan(k, p, t).reason_codes : r[1] \in tags
    BY DEF Expired
  <1>2. reasons # {} /\ r \in reasons
    BY <1>1 DEF AdmitPlan
  <1>3. ~AdmitPlan(k, p, t).admitted
    BY <1>2 DEF AdmitPlan
  <1>4. ASSUME r \in RouteReasons(k, p, t)
        PROVE  Ended(t, k.expires_at) \/ Ended(t, p.topology.expires_at)
    BY <1>1, <1>4 DEF RouteReasons, Flag
  <1>5. ASSUME NEW id \in KnownHops(k, p), r \in PeerReasons(id, peers[id], k, required, t)
        PROVE  Ended(t, peers[id].expires_at)
    BY <1>1, <1>5 DEF PeerReasons, Flag
  <1>6. \/ r \in RouteReasons(k, p, t)
        \/ \E id \in Hops(k) : r = <<"PEER_UNKNOWN", id>>
        \/ \E id \in KnownHops(k, p) : r \in PeerReasons(id, peers[id], k, required, t)
    BY <1>2 DEF AdmitReasons
  <1> QED
    BY <1>1, <1>3, <1>4, <1>5, <1>6

\* What expired stays expired while the policy is the same.
THEOREM Expiry == Spec => ExpiryIsPermanent
  <1>1. IInv /\ IInv' /\ [Next]_vars =>
            [ /\ decision # None /\ decision' # None
              /\ decision.policy_digest = decision'.policy_digest
              /\ Expired(decision)
              => ~decision'.admitted ]_vars
    <2> SUFFICES ASSUME IInv, Next,
                        decision # None, decision.policy_digest = decision'.policy_digest,
                        Expired(decision)
                 PROVE  ~decision'.admitted
      OBVIOUS
    <2>1. PICK p, t : /\ ValidPolicy(p) /\ t \in Int /\ t <= now
                      /\ decision = AdmitPlan(plan, p, t)
      BY DEF IInv
    <2>2. /\ ~decision.admitted
          /\ \/ Ended(t, plan.expires_at)
             \/ Ended(t, p.topology.expires_at)
             \/ \E id \in KnownHops(plan, p) : Ended(t, p.topology.peers[id].expires_at)
      BY <2>1, ExpiredMeans
    <2>3. CASE decision' = decision
      BY <2>2, <2>3
    <2>4. CASE Admit
      <3>1. decision' = AdmitPlan(plan, policy, now)
        BY <2>4 DEF Admit
      <3>2. p = policy
        BY <2>1, <3>1, DigestNamesPolicy DEF AdmitPlan
      <3>3. \/ Ended(now, plan.expires_at)
            \/ Ended(now, policy.topology.expires_at)
            \/ \E id \in KnownHops(plan, policy) : Ended(now, policy.topology.peers[id].expires_at)
        BY <2>1, <2>2, <3>2, Numbers DEF IInv, Ended, KnownHops
      <3>4. AdmitReasons(plan, policy, now) # {}
        BY <3>3, AdmissibleMeans, Numbers
        DEF IInv, RouteFits, PeerFits, Within, Ended, KnownHops
      <3> QED
        BY <3>1, <3>4 DEF AdmitPlan
    <2> QED
      BY <2>3, <2>4 DEF Next, Tick, AmendPolicy
  <1> QED
    BY <1>1, Inductive, PTL DEF Spec, ExpiryIsPermanent

\* The bounds an admission reports are kept by every hop and by the plan.
THEOREM ReportedBounds == Spec => []ReportedBoundsHold
  <1>1. IInv => ReportedBoundsHold
    <2> SUFFICES ASSUME IInv, decision # None, decision.admitted,
                        decision.policy_digest = PolicyDigest(policy)
                 PROVE  ReportedBoundsHold
      BY DEF ReportedBoundsHold
    <2> DEFINE peers  == policy.topology.peers
               floor  == policy.minimum_evidence[plan.intent]
               scopes == {peers[id].execution_scope : id \in KnownHops(plan, policy)}
               levels == {EffectiveEvidence(peers[id].evidence_level) : id \in KnownHops(plan, policy)}
    <2>1. PICK t \in Int : decision = AdmitPlan(plan, policy, t)
      <3>1. PICK p, t : t \in Int /\ decision = AdmitPlan(plan, p, t)
        BY DEF IInv
      <3>2. decision.policy_digest = PolicyDigest(p)
        BY <3>1 DEF AdmitPlan
      <3>3. p = policy
        BY <3>2, DigestNamesPolicy
      <3> QED
        BY <3>1, <3>3
    <2>2. /\ AdmitReasons(plan, policy, t) = {}
          /\ decision.effective_scope = WidestScope(scopes)
          /\ decision.effective_evidence = WeakestEvidence(levels)
      BY <2>1 DEF AdmitPlan
    <2>3. /\ RouteFits(plan, policy, t)
          /\ \A id \in Hops(plan) :
                /\ id \in DOMAIN peers
                /\ PeerFits(peers[id], plan, RequiredEvidence(policy, plan.intent), t)
      BY <2>2, AdmissibleMeans DEF IInv
    <2>4. /\ RequiredEvidence(policy, plan.intent) = floor
          /\ floor \in EvidenceLevels /\ floor # None
      BY <2>3, FloorIsLevel DEF IInv, RouteFits
    <2>5. \A id \in Hops(plan) :
              /\ peers[id].execution_scope \in Intents
              /\ peers[id].evidence_level \in EvidenceLevels
              /\ ScopeRank(peers[id].execution_scope) <= ScopeRank(plan.intent)
              /\ EvidenceRank(floor) <= EvidenceRank(EffectiveEvidence(peers[id].evidence_level))
      BY <2>3, <2>4 DEF PeerFits, IInv, ValidPolicy, ValidTopology, ValidManifest
    <2>6. KnownHops(plan, policy) = Hops(plan) /\ Hops(plan) # {}
      <3>1. plan.hop_peer_ids[1] \in Hops(plan)
        BY Numbers DEF IInv, ValidPlan, Hops, RouteLimit
      <3> QED
        BY <2>3, <3>1 DEF KnownHops
    <2>7. /\ scopes \in SUBSET Intents /\ scopes # {}
          /\ levels \in SUBSET EvidenceLevels /\ levels # {}
      BY <2>5, <2>6, Ranks
    <2>8. /\ ScopeRank(WidestScope(scopes)) <= ScopeRank(plan.intent)
          /\ \A id \in Hops(plan) : ScopeRank(peers[id].execution_scope) <= ScopeRank(WidestScope(scopes))
      BY <2>5, <2>6, <2>7, WidestAndWeakest
    <2>9. \A id \in Hops(plan) :
              EvidenceRank(WeakestEvidence(levels)) <= EvidenceRank(EffectiveEvidence(peers[id].evidence_level))
      BY <2>6, <2>7, WidestAndWeakest
    <2>10. PICK weakest \in Hops(plan) :
               WeakestEvidence(levels) = EffectiveEvidence(peers[weakest].evidence_level)
      BY <2>6, <2>7, WidestAndWeakest
    <2>11. /\ EvidenceRank(floor) <= EvidenceRank(WeakestEvidence(levels))
           /\ WeakestEvidence(levels) # "hardware_attested"
      BY <2>5, <2>10 DEF EffectiveEvidence
    \* What a peer is credited with is never above what it claims.
    <2>12. \A e \in EvidenceLevels : EvidenceRank(EffectiveEvidence(e)) <= EvidenceRank(e)
      BY DEF EvidenceLevels, EvidenceRank, EffectiveEvidence
    <2>13. \A id \in Hops(plan) :
               EvidenceRank(WeakestEvidence(levels)) <= EvidenceRank(peers[id].evidence_level)
      <3> SUFFICES ASSUME NEW id \in Hops(plan)
                   PROVE  EvidenceRank(WeakestEvidence(levels)) <= EvidenceRank(peers[id].evidence_level)
        OBVIOUS
      <3> DEFINE claimed == peers[id].evidence_level
      <3>1. WeakestEvidence(levels) \in EvidenceLevels
        BY <2>5, <2>10, Ranks
      <3>2. claimed \in EvidenceLevels /\ EffectiveEvidence(claimed) \in EvidenceLevels
        BY <2>5, Ranks
      <3>3. /\ EvidenceRank(WeakestEvidence(levels)) \in Int
            /\ EvidenceRank(EffectiveEvidence(claimed)) \in Int
            /\ EvidenceRank(claimed) \in Int
        BY <3>1, <3>2, Ranks
      <3>4. EvidenceRank(WeakestEvidence(levels)) <= EvidenceRank(EffectiveEvidence(claimed))
        BY <2>9
      <3>5. EvidenceRank(EffectiveEvidence(claimed)) <= EvidenceRank(claimed)
        BY <2>12, <3>2
      <3> HIDE DEF claimed, levels, peers
      <3> QED
        BY <3>3, <3>4, <3>5 DEF claimed
    <2> QED
      BY <2>2, <2>8, <2>11, <2>13 DEF ReportedBoundsHold
  <1> QED
    BY <1>1, Inductive, PTL
=============================================================================
