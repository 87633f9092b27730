---------------------------- MODULE AdmitCommand ----------------------------
(***************************************************************************)
(* `locusmesh admit` (src/locusmesh/cli.py) run again and again on one     *)
(* plan while time passes and the operator amends the policy file.  The    *)
(* properties compare decisions along such a history: admission is a pure  *)
(* function, so what can be wrong is how it responds to change.            *)
(***************************************************************************)
EXTENDS Admission

CONSTANTS
    Plans,          \* the plans a caller may submit
    Policies,       \* the policy files the operator starts from
    Amended(_),     \* the policy files one edit away from a given one
    Horizon,        \* the last instant considered
    Edits           \* how many times the policy file is edited

ASSUME AdmitAssumption ==
    /\ \A p \in Plans : ValidPlan(p)
    /\ \A p \in Policies : ValidPolicy(p)
    /\ Horizon \in Nat /\ Edits \in Nat

VARIABLES
    plan, policy, now,
    decision,       \* the output of the last run, None before the first
    edits

vars == <<plan, policy, now, decision, edits>>

Init ==
    /\ plan \in Plans
    /\ policy \in Policies
    /\ now = 0
    /\ decision = None
    /\ edits = 0

\* Load both files, sample the clock, evaluate; exit 0 or 3.
Admit ==
    /\ decision' = AdmitPlan(plan, policy, now)
    /\ UNCHANGED <<plan, policy, now, edits>>

Tick ==
    /\ now < Horizon
    /\ now' = now + 1
    /\ UNCHANGED <<plan, policy, decision, edits>>

\* A file that does not load gives no decision, so edits lead to valid ones.
AmendPolicy ==
    /\ edits < Edits
    /\ policy' \in Amended(policy)
    /\ ValidPolicy(policy')
    /\ edits' = edits + 1
    /\ UNCHANGED <<plan, now, decision>>

Next == Admit \/ Tick \/ AmendPolicy

Spec == Init /\ [][Next]_vars

-----------------------------------------------------------------------------
(* Properties *)

TypeOK ==
    /\ ValidPlan(plan)
    /\ ValidPolicy(policy)
    /\ now \in 0..Horizon
    /\ decision # None => ValidDecision(decision)

\* What an admitted route is, said once and for all hops together rather than
\* check by check: a simple path of the operator's graph through peers that
\* are all live, in scope, rightly keyed and on the plan's model and runtime
\* (the intent of policy.py:117-182).
Eligible(id) ==
    LET peer == policy.topology.peers[id]
    IN  /\ Within(now, peer.valid_from, peer.expires_at)
        /\ ScopeRank(peer.execution_scope) <= ScopeRank(plan.intent)
        /\ <<peer.model_digest, peer.runtime_digest>> = <<plan.model_digest, plan.runtime_digest>>
        /\ peer.public_key \in CanonicalKeys /\ peer.key_id = DeriveKeyId(peer.public_key)
        /\ EvidenceRank(policy.minimum_evidence[plan.intent])
               <= EvidenceRank(EffectiveEvidence(peer.evidence_level))

SimplePath(path, nodes, arcs) ==
    /\ \A i \in DOMAIN path : path[i] \in nodes
    /\ \A i \in 1..(Len(path) - 1) : <<path[i], path[i + 1]>> \in arcs
    /\ \A i, j \in DOMAIN path : path[i] = path[j] => i = j

RouteContained ==
    LET topology == policy.topology
    IN  /\ plan.intent \in policy.allowed_intents
        /\ Len(plan.hop_peer_ids) <= policy.max_hops
        /\ Within(now, plan.created_at, plan.expires_at)
        /\ Within(now, topology.captured_at, topology.expires_at)
        /\ plan.intent = "device_only" => plan.hop_peer_ids = <<topology.local_peer_id>>
        /\ SimplePath(plan.hop_peer_ids,
                      {id \in DOMAIN topology.peers : Eligible(id)}, topology.edges)

AdmittedIffContained == (AdmitReasons(plan, policy, now) = {}) <=> RouteContained

\* What an admission reports is true of every hop: the scope covers them all and
\* stays within the intent, the evidence is carried by them all, meets the floor
\* and is never hardware (policy.py:184-198; _minimum_scope is a maximum).
ReportedBoundsHold ==
    LET peers == policy.topology.peers
    IN  decision # None /\ decision.admitted /\ decision.policy_digest = PolicyDigest(policy) =>
            /\ ScopeRank(decision.effective_scope) <= ScopeRank(plan.intent)
            /\ EvidenceRank(policy.minimum_evidence[plan.intent])
                   <= EvidenceRank(decision.effective_evidence)
            /\ decision.effective_evidence # "hardware_attested"
            /\ \A id \in Hops(plan) :
                  /\ ScopeRank(peers[id].execution_scope) <= ScopeRank(decision.effective_scope)
                  /\ EvidenceRank(decision.effective_evidence)
                         <= EvidenceRank(peers[id].evidence_level)

\* A plan denied because something expired stays denied for as long as the
\* policy is the same: no later run under the same digest admits it
\* (policy.py:133-140, 164-167).
Expired(d) == \E r \in d.reason_codes : r[1] \in {"PLAN_EXPIRED", "TOPOLOGY_EXPIRED", "PEER_EXPIRED"}

ExpiryIsPermanent ==
    [][ /\ decision # None /\ decision' # None
        /\ decision.policy_digest = decision'.policy_digest
        /\ Expired(decision)
        => ~decision'.admitted ]_vars

\* q takes something away from p and adds nothing.
Restricts(q, p) ==
    /\ q.allowed_intents \subseteq p.allowed_intents
    /\ q.max_hops <= p.max_hops
    /\ DOMAIN p.minimum_evidence \cap q.allowed_intents \subseteq DOMAIN q.minimum_evidence
    /\ \A i \in DOMAIN q.minimum_evidence \cap DOMAIN p.minimum_evidence :
          EvidenceRank(p.minimum_evidence[i]) <= EvidenceRank(q.minimum_evidence[i])
    /\ q.topology.local_peer_id = p.topology.local_peer_id
    /\ q.topology.edges \subseteq p.topology.edges
    /\ DOMAIN q.topology.peers \subseteq DOMAIN p.topology.peers
    /\ \A id \in DOMAIN q.topology.peers : q.topology.peers[id] = p.topology.peers[id]
    /\ p.topology.captured_at <= q.topology.captured_at
    /\ q.topology.expires_at <= p.topology.expires_at

\* Tightening the policy never turns a denial into an admission.
TighteningNeverAdmits ==
    [][ /\ Restricts(policy', policy) /\ now' = now
        /\ AdmitReasons(plan, policy, now) # {}
        => AdmitReasons(plan', policy', now') # {} ]_vars

\* p and q say the same about everything this plan names.
SameForThePlan(p, q) ==
    /\ p.allowed_intents = q.allowed_intents
    /\ p.max_hops = q.max_hops
    /\ RequiredEvidence(p, plan.intent) = RequiredEvidence(q, plan.intent)
    /\ p.topology.local_peer_id = q.topology.local_peer_id
    /\ p.topology.captured_at = q.topology.captured_at
    /\ p.topology.expires_at = q.topology.expires_at
    /\ Legs(plan) \cap p.topology.edges = Legs(plan) \cap q.topology.edges
    /\ Hops(plan) \cap DOMAIN p.topology.peers = Hops(plan) \cap DOMAIN q.topology.peers
    /\ \A id \in Hops(plan) \cap DOMAIN p.topology.peers : p.topology.peers[id] = q.topology.peers[id]

\* Peers and edges a route does not use lend it nothing and cost it nothing:
\* amending them leaves the verdict and its reasons as they were.
UnusedAuthorityIsIrrelevant ==
    [][ SameForThePlan(policy, policy') /\ now' = now
        => AdmitReasons(plan', policy', now') = AdmitReasons(plan, policy, now) ]_vars
=============================================================================
