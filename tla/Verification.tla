---------------------------- MODULE Verification ----------------------------
(***************************************************************************)
(* verify_attestation (src/locusmesh/attestation.py) step by step, called  *)
(* again and again on attestations that carriers hand in, against policies *)
(* the operator pins and a replay store that outlives each call.  The loop *)
(* keeps going after a reason is found, as the code does, and carries the  *)
(* previous receipt and the credited evidence from one turn to the next.   *)
(***************************************************************************)
EXTENDS Attestation

CONSTANTS
    Attestations,     \* what callers may hand in
    Policies,         \* what operators may pin
    Horizon           \* the last instant considered

ASSUME VerificationAssumption ==
    /\ \A a \in Attestations : ValidAttestation(a)
    /\ \A p \in Policies : ValidPolicy(p)
    /\ None \notin Attestations
    /\ \A a \in Attestations : \A i \in DOMAIN a.receipts : a.receipts[i] # None
    /\ Horizon \in Nat

\* No digest and no decision is Python's None.
ASSUME ResultsAreNotNone ==
    \A a \in Attestations, p \in Policies :
        /\ Sha256Digest(a.plan) # None /\ AttestationDigest(a) # None
        /\ PolicyDigest(p) # None /\ TopologyDigest(p.topology) # None
        /\ \A t \in 0..Horizon, levels \in SUBSET EvidenceLevels :
              AdmitAttestation(AdmitPlan(a.plan, p, t), levels, AttestationDigest(a)) # None

VARIABLES
    now,              \* the time given to the call under way, or to the next one
    remembered,       \* the nonces in the replay store
    pc,
    attestation, policy, withStore,           \* the arguments of the call
    base,             \* what admit_plan returned
    index,            \* the 1-based position of the next receipt
    previousReceipt,
    credited,         \* effective_receipt_evidence, order left out
    reasons,
    decision          \* what the call returned, None if it raised or still runs

arguments == <<attestation, policy, withStore>>
locals == <<base, index, previousReceipt, credited, reasons>>
vars == <<now, remembered, pc, attestation, policy, withStore,
          base, index, previousReceipt, credited, reasons, decision>>

Steps == {"idle", "admit", "receipts", "judge", "returned"}

Init ==
    /\ now = 0 /\ remembered = {}
    /\ pc = "idle"
    /\ attestation = None /\ policy = None /\ withStore = FALSE
    /\ base = None /\ index = 1 /\ previousReceipt = None
    /\ credited = {} /\ reasons = {}
    /\ decision = None

Tick ==
    /\ pc = "idle" /\ now < Horizon
    /\ now' = now + 1
    /\ UNCHANGED <<remembered, pc, arguments, locals, decision>>

\* Mutant: The policy argument is dropped.
CallUnpinned(a, p, stored) ==
    /\ pc = "idle"
    /\ pc' = "admit"
    /\ attestation' = a /\ policy' = None /\ withStore' = stored
    /\ UNCHANGED <<now, remembered, locals, decision>>

Call(a, p, stored) ==
    /\ pc = "idle"
    /\ pc' = "admit"
    /\ attestation' = a /\ policy' = p /\ withStore' = stored
    /\ UNCHANGED <<now, remembered, locals, decision>>

-----------------------------------------------------------------------------
plan == attestation.plan
receipts == attestation.receipts
digest == AttestationDigest(attestation)
HopCount == Len(plan.hop_peer_ids)

ReturnDecision(d) ==
    /\ decision' = d
    /\ pc' = "returned"
    /\ UNCHANGED <<now, arguments>>

\* Plan admission first; an inadmissible plan is denied without a look at the
\* receipts.
AdmitFirst ==
    LET b == AdmitPlan(plan, policy, now)
    IN  /\ pc = "admit"
        /\ base' = b
        /\ UNCHANGED <<remembered, index, previousReceipt, credited>>
        /\ \/ /\ ~b.admitted
              /\ UNCHANGED reasons
              /\ ReturnDecision(DenyPlan(b, digest))
           \/ /\ b.admitted
              /\ reasons' = Flag(Len(receipts) # HopCount, <<"RECEIPT_COUNT_MISMATCH">>)
              /\ pc' = "receipts"
              /\ UNCHANGED <<now, arguments, decision>>

\* Mutant: Evidence is credited only where a link to the receipt before it was made.
CreditLinkedReceipt ==
    LET receipt == receipts[index]
    IN  /\ pc = "receipts"
        /\ index <= Len(receipts) /\ index <= HopCount
        /\ reasons' = reasons \cup
              ReceiptReasons(receipt, index, previousReceipt, plan, policy, now)
        /\ credited' = credited \cup
              (IF previousReceipt # None THEN {EffectiveEvidence(receipt.evidence_level)} ELSE {})
        /\ previousReceipt' = receipt
        /\ index' = index + 1
        /\ UNCHANGED <<now, remembered, pc, arguments, base, decision>>

CheckReceipt ==
    LET receipt == receipts[index]
        known   == plan.hop_peer_ids[index] \in DOMAIN policy.topology.peers
    IN  /\ pc = "receipts"
        /\ index <= Len(receipts) /\ index <= HopCount
        /\ reasons' = reasons \cup
              ReceiptReasons(receipt, index, previousReceipt, plan, policy, now)
        /\ credited' = credited \cup
              (IF known THEN {EffectiveEvidence(receipt.evidence_level)} ELSE {})
        /\ previousReceipt' = receipt
        /\ index' = index + 1
        /\ UNCHANGED <<now, remembered, pc, arguments, base, decision>>

\* break: receipts beyond the route are not looked at.
ExtraReceipt ==
    /\ pc = "receipts"
    /\ index <= Len(receipts) /\ index > HopCount
    /\ reasons' = reasons \cup {<<"EXTRA_RECEIPT">>}
    /\ pc' = "judge"
    /\ UNCHANGED <<now, remembered, arguments, base, index, previousReceipt, credited, decision>>

EndOfReceipts ==
    /\ pc = "receipts"
    /\ index > Len(receipts)
    /\ pc' = "judge"
    /\ UNCHANGED <<now, remembered, arguments, locals, decision>>

\* Mutant: The nonce is recorded before the verdict is known.
DenyAndRecord ==
    /\ pc = "judge" /\ reasons # {}
    /\ ReturnDecision(Deny(base, reasons, HopCount, digest))
    /\ remembered' = IF withStore THEN remembered \cup {plan.nonce} ELSE remembered
    /\ UNCHANGED locals

DenyReceipts ==
    /\ pc = "judge" /\ reasons # {}
    /\ ReturnDecision(
          Deny(base, reasons, IF Len(receipts) < HopCount THEN Len(receipts) ELSE HopCount, digest))
    /\ UNCHANGED <<remembered, locals>>

\* The store is asked only now, when nothing else is left to fail.
DenyReplay ==
    /\ pc = "judge" /\ reasons = {}
    /\ withStore /\ plan.nonce \in remembered
    /\ ReturnDecision(Deny(base, {<<"REPLAY_DETECTED">>}, Len(receipts), digest))
    /\ UNCHANGED <<remembered, locals>>

Accept ==
    /\ pc = "judge" /\ reasons = {}
    /\ withStore => plan.nonce \notin remembered
    /\ remembered' = IF withStore THEN remembered \cup {plan.nonce} ELSE remembered
    /\ ReturnDecision(AdmitAttestation(base, credited, digest))
    /\ UNCHANGED locals

\* The store raises: the exception leaves verify_attestation without a decision.
StoreRaises ==
    /\ pc = "judge" /\ reasons = {} /\ withStore
    /\ ReturnDecision(None)
    /\ UNCHANGED <<remembered, locals>>

\* The caller has its decision, or its exception.
Leave ==
    /\ pc = "returned"
    /\ pc' = "idle"
    /\ attestation' = None /\ policy' = None /\ withStore' = FALSE
    /\ base' = None /\ index' = 1 /\ previousReceipt' = None
    /\ credited' = {} /\ reasons' = {}
    /\ decision' = None
    /\ UNCHANGED <<now, remembered>>

Step ==
    \/ AdmitFirst \/ CheckReceipt \/ ExtraReceipt \/ EndOfReceipts
    \/ DenyReceipts \/ DenyReplay \/ Accept \/ StoreRaises
    \/ Leave

Next ==
    \/ Tick
    \/ \E a \in Attestations, p \in Policies, stored \in BOOLEAN : Call(a, p, stored)
    \/ Step

Spec == Init /\ [][Next]_vars

-----------------------------------------------------------------------------
(* Properties *)

\* The arguments of a call are among those callers hand in, and the loop stays
\* within the 64 receipts a RouteAttestation may have (models.py:330-337).
TypeOK ==
    /\ now \in 0..Horizon
    /\ pc \in Steps
    /\ pc # "idle" => attestation \in Attestations /\ policy \in Policies
    /\ withStore \in BOOLEAN
    /\ pc \in {"receipts", "judge"} =>
          /\ index \in 1..(RouteLimit + 1)
          /\ credited \subseteq EvidenceLevels

\* The whole meaning of an attestation, without the loop: one receipt per hop,
\* each the receipt that the peer's pinned key signs for exactly this position
\* of exactly this plan under exactly this policy after exactly the previous
\* receipt, at a time and with a claim the manifest and the policy allow.
ExactReceipt(a, p, i, t) ==
    LET receipt  == a.receipts[i]
        peer     == p.topology.peers[a.plan.hop_peer_ids[i]]
        previous == IF i = 1 THEN None ELSE a.receipts[i - 1]
        at       == receipt.observed_at
    IN  /\ receipt = SignedReceipt(ReceiptBinding(a.plan, p, i, previous),
                                   receipt.evidence_level, at, peer.public_key)
        /\ at <= t
        /\ Within(at, a.plan.created_at, a.plan.expires_at)
        /\ Within(at, p.topology.captured_at, p.topology.expires_at)
        /\ Within(at, peer.valid_from, peer.expires_at)
        /\ i > 1 => previous.observed_at <= at
        /\ EvidenceRank(receipt.evidence_level) <= EvidenceRank(peer.evidence_level)
        /\ EvidenceRank(p.minimum_evidence[a.plan.intent])
               <= EvidenceRank(EffectiveEvidence(receipt.evidence_level))

ExactChain(a, p, t) ==
    /\ AdmitReasons(a.plan, p, t) = {}
    /\ Len(a.receipts) = Len(a.plan.hop_peer_ids)
    /\ \A i \in DOMAIN a.receipts : ExactReceipt(a, p, i, t)

\* A call finds no fault exactly when the attestation is an exact chain: no
\* splice, reordering, truncation, extension or foreign signature passes, and
\* nothing sound is refused.  What it returns says so too: an exact chain is
\* denied only as a replay, by a store that knows its nonce, and nothing else is
\* admitted or called a replay (attestation.py:104-239).
AcceptsExactlyTheExactChains ==
    /\ pc = "judge" => (reasons = {} <=> ExactChain(attestation, policy, now))
    /\ decision # None =>
          IF ExactChain(attestation, policy, now)
          THEN /\ \/ decision.admitted
                  \/ withStore /\ decision.reason_codes = {<<"REPLAY_DETECTED">>}
               /\ withStore => plan.nonce \in remembered
          ELSE ~decision.admitted /\ <<"REPLAY_DETECTED">> \notin decision.reason_codes

\* What build_attestation makes of an admissible plan with the pinned keys
\* passes every check, as long as it is observed inside the windows
\* (attestation.py:33-83 against 136-211).
HonestChainsPass ==
    pc = "judge" /\ reasons # {} =>
        \A t \in 0..now :
            LET pinned == policy.topology.peers
            IN  attestation = BuildAttestation(plan, policy,
                    [id \in Hops(plan) |-> pinned[id].public_key], t, <<>>)
                => ~ ( /\ Within(t, plan.created_at, plan.expires_at)
                       /\ Within(t, policy.topology.captured_at, policy.topology.expires_at)
                       /\ \A id \in Hops(plan) :
                             Within(t, pinned[id].valid_from, pinned[id].expires_at) )

\* Nothing in the loop can raise: the peer it looks up is pinned, so the
\* PEER_UNKNOWN branch and its `continue` are dead, the floor it reads without
\* .get exists, and the levels min() is taken over are never empty
\* (attestation.py:171-175, 205, 232).
NothingRaises ==
    /\ pc \in {"receipts", "judge"} =>
          /\ Hops(plan) \subseteq DOMAIN policy.topology.peers
          /\ plan.intent \in DOMAIN policy.minimum_evidence
    /\ pc = "judge" /\ reasons = {} => credited # {}

\* model_copy runs no validator, and still every decision returned satisfies
\* the one of AdmissionDecision, and names the attestation it is about
\* (attestation.py:93, 117, 233; models.py:367-381).
DecisionsAreConsistent ==
    decision # None =>
        /\ ValidDecision(decision)
        /\ decision.decision_kind = "attestation_verification"
        /\ decision.attestation_digest = digest
        /\ decision.route_digest = Sha256Digest(plan)

\* The evidence an admission reports is carried by every single receipt, meets
\* the floor and is never hardware (attestation.py:206, 232).
ReportedEvidenceIsCarried ==
    (decision # None /\ decision.admitted) =>
        /\ EvidenceRank(policy.minimum_evidence[plan.intent])
               <= EvidenceRank(decision.effective_evidence)
        /\ \A i \in DOMAIN receipts :
              EvidenceRank(decision.effective_evidence)
                  <= EvidenceRank(EffectiveEvidence(receipts[i].evidence_level))

\* The store learns a nonce only in the step that admits it, for an exact
\* chain, and never forgets one: invalid evidence consumes nothing
\* (attestation.py:221-231).
OnlyAdmissionConsumesNonces ==
    [][ remembered' # remembered =>
          /\ decision' # None /\ decision'.admitted
          /\ remembered' = remembered \cup {plan.nonce} /\ plan.nonce \notin remembered
          /\ ExactChain(attestation, policy, now) ]_vars

\* "the returned decision reports only the evidence level the verifier can
\* support" (docs/threat-model.md:17-18), read for any decision that looked at
\* receipts: no level is reported above what one of them carries.
ReportsOnlySupportedEvidence ==
    (decision # None /\ base.admitted) =>
        \A i \in DOMAIN receipts :
            EvidenceRank(decision.effective_evidence) <= EvidenceRank(receipts[i].evidence_level)
=============================================================================
