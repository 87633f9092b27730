------------------------------ MODULE Digests ------------------------------
(***************************************************************************)
(* topology_digest and policy_digest (src/locusmesh/policy.py) over files  *)
(* as they are written: lists in some order, times with an offset.  An     *)
(* operator edits the policy and, apart from it, the topology fixture that *)
(* `locusmesh probe` reads (src/locusmesh/cli.py).  Peer ids are numbers,  *)
(* in the order of their code points.                                      *)
(***************************************************************************)
EXTENDS Admission, FiniteSets, Functions

CONSTANTS
    PolicyFiles,          \* the policy files the operator starts from
    TopologyEdits(_),     \* the topologies one edit away from a given one
    Plans,                \* the plans decisions are compared on
    Horizon,              \* the last instant considered
    Edits                 \* bound: how many edits are made

VARIABLES pinned, fixture, original, edits

vars == <<pinned, fixture, original, edits>>

-----------------------------------------------------------------------------
(* What the loader and the validators make of a file *)

\* TopologySnapshot as Contracts has it; a written time is <<instant, offset>>.
Snapshot(t) ==
    [ local_peer_id |-> t.local_peer_id,
      captured_at   |-> t.captured_at[1],
      expires_at    |-> t.expires_at[1],
      edges         |-> Range(t.edges),
      peers         |-> [id \in {t.peers[i].peer_id : i \in DOMAIN t.peers} |->
                            t.peers[CHOOSE i \in DOMAIN t.peers : t.peers[i].peer_id = id].manifest] ]

PeerIds(t) == {t.peers[i].peer_id : i \in DOMAIN t.peers}

\* No peer twice and no edge twice.
UniqueEntries(t) ==
    /\ \A i, j \in DOMAIN t.peers : t.peers[i].peer_id = t.peers[j].peer_id => i = j
    /\ IsInjective(t.edges)

\* The lists are lists, and the validators accept what they say.
TopologyLoads(t) ==
    /\ t.peers \in Seq(Range(t.peers)) /\ PeerIds(t) \subseteq Int
    /\ t.edges \in Seq(Range(t.edges))
    /\ UniqueEntries(t)
    /\ ValidTopology(Snapshot(t))

Policy(file) ==
    [ allowed_intents  |-> Range(file.allowed_intents),
      max_hops         |-> file.max_hops,
      minimum_evidence |-> file.minimum_evidence,
      topology         |-> Snapshot(file.topology) ]

\* The intents are a set to the loader, in some order wherever they are listed.
Loads(file) ==
    /\ file.allowed_intents \in Seq(Intents) /\ IsInjective(file.allowed_intents)
    /\ TopologyLoads(file.topology)
    /\ ValidPolicy(Policy(file))

ASSUME DigestsAssumption ==
    /\ Horizon \in Nat /\ Edits \in Nat
    /\ Plans # {} /\ \A p \in Plans : ValidPlan(p)
    /\ \A file \in PolicyFiles : Loads(file)

-----------------------------------------------------------------------------
(* The digests *)

\* Python's sorted(list, key): an entry goes where as many entries are before it
\* as have a smaller key, or the same key and an earlier place in the list.
\* "before" is the order of the keys, as a relation on the entries.
Earlier(list, before, i) ==
    {j \in DOMAIN list : \/ <<list[j], list[i]>> \in before
                         \/ <<list[i], list[j]>> \notin before /\ j < i}

Sorted(list, before) ==
    [n \in DOMAIN list |->
        list[CHOOSE i \in DOMAIN list : Cardinality(Earlier(list, before, i)) = n - 1]]

\* The pairs of entries of a list in which the first has the smaller key.
PeerOrder(peers) ==
    {pair \in Range(peers) \X Range(peers) : pair[1].peer_id < pair[2].peer_id}

\* Mutant: Edges of one source in the order of the file.
SourceOrder(edges) ==
    {pair \in Range(edges) \X Range(edges) : pair[1][1] < pair[2][1]}

EdgeOrder(edges) ==
    {pair \in Range(edges) \X Range(edges) :
        \/ pair[1][1] < pair[2][1]
        \/ pair[1][1] = pair[2][1] /\ pair[1][2] < pair[2][2]}

\* The order of the intents' values, which is that of their ranks.
IntentOrder(intents) ==
    {pair \in Range(intents) \X Range(intents) : ScopeRank(pair[1]) < ScopeRank(pair[2])}

\* isoformat keeps the offset a time was written with.
TopologyFileDigest(t) ==
    Sha256Digest([ snapshot_id   |-> t.snapshot_id,
                   local_peer_id |-> t.local_peer_id,
                   captured_at   |-> t.captured_at,
                   expires_at    |-> t.expires_at,
                   peers         |-> Sorted(t.peers, PeerOrder(t.peers)),
                   edges         |-> Sorted(t.edges, EdgeOrder(t.edges)) ])

PolicyFileDigest(file) ==
    Sha256Digest(<<Sorted(file.allowed_intents, IntentOrder(file.allowed_intents)),
                   file.max_hops, file.minimum_evidence, TopologyFileDigest(file.topology)>>)

\* Mutant: The window without its beginning.
ProbeUnended(t, now) ==
    [ valid_now       |-> now < t.expires_at[1],
      peer_count      |-> Len(t.peers),
      edge_count      |-> Len(t.edges),
      topology_digest |-> TopologyFileDigest(t) ]

\* The data `probe` prints.
Probe(t, now) ==
    [ valid_now       |-> Within(now, t.captured_at[1], t.expires_at[1]),
      peer_count      |-> Len(t.peers),
      edge_count      |-> Len(t.edges),
      topology_digest |-> TopologyFileDigest(t) ]

-----------------------------------------------------------------------------
(* Two files and their editor *)

Init ==
    /\ pinned \in PolicyFiles
    /\ fixture = pinned.topology
    /\ original = pinned
    /\ edits = 0

\* Only files that load: of the others the loader makes no policy and no digest.
Edited == edits < Edits /\ edits' = edits + 1 /\ UNCHANGED original

EditPinnedTopology ==
    /\ Edited
    /\ \E t \in TopologyEdits(pinned.topology) :
          pinned' = [pinned EXCEPT !.topology = t]
    /\ Loads(pinned')
    /\ UNCHANGED fixture

\* Another limit or floor, or the allowed intents listed anew, the same ones in
\* another order among them: as the file has them, or as the hash seed of the
\* process makes a frozenset enumerate them.
EditPolicy ==
    /\ Edited
    /\ \/ \E n \in 1..3 \ {pinned.max_hops} : pinned' = [pinned EXCEPT !.max_hops = n]
       \/ \E n \in 0..3 : \E list \in [1..n -> Intents] :
             pinned' = [pinned EXCEPT !.allowed_intents = list]
       \/ \E e \in EvidenceLevels, i \in DOMAIN pinned.minimum_evidence :
             pinned' = [pinned EXCEPT !.minimum_evidence[i] = e]
    /\ Loads(pinned')
    /\ UNCHANGED fixture

EditFixture ==
    /\ Edited
    /\ fixture' \in TopologyEdits(fixture)
    /\ TopologyLoads(fixture')
    /\ UNCHANGED pinned

Next == EditPinnedTopology \/ EditPolicy \/ EditFixture

Spec == Init /\ [][Next]_vars

-----------------------------------------------------------------------------
(* Properties *)

\* The two say the same, in whatever order, in the same notation.
SameTopology(t, u) ==
    /\ Range(t.peers) = Range(u.peers) /\ Range(t.edges) = Range(u.edges)
    /\ t.snapshot_id = u.snapshot_id /\ t.local_peer_id = u.local_peer_id
    /\ t.captured_at = u.captured_at /\ t.expires_at = u.expires_at

SamePolicy(p, q) ==
    /\ Range(p.allowed_intents) = Range(q.allowed_intents)
    /\ p.max_hops = q.max_hops /\ p.minimum_evidence = q.minimum_evidence
    /\ SameTopology(p.topology, q.topology)

\* After any number of edits the policy has the digest it began with exactly
\* when it says what it said then: order never shows, everything else does
\* ("Same semantic policy/topology ordering | Same policy/topology digest",
\* docs/delivery-contract.md:346; policy.py:61-96).
DigestTellsContent ==
    (PolicyFileDigest(pinned) = PolicyFileDigest(original)) <=> SamePolicy(pinned, original)

\* A probe of the fixture speaks of the policy's topology exactly when the
\* digests agree, and then truly: the counts are those of its peers and edges,
\* and a topology it calls invalid admits no plan (cli.py:118-139).
ProbeSpeaksOfThePolicy ==
    \A t \in 0..Horizon :
        LET probe    == Probe(fixture, t)
            topology == Policy(pinned).topology
        IN  /\ (probe.topology_digest = TopologyFileDigest(pinned.topology))
                   <=> SameTopology(fixture, pinned.topology)
            /\ probe.topology_digest = TopologyFileDigest(pinned.topology) =>
                  /\ probe.peer_count = Cardinality(DOMAIN topology.peers)
                  /\ probe.edge_count = Cardinality(topology.edges)
                  /\ probe.valid_now <=>
                        \A plan \in Plans :
                            {<<"TOPOLOGY_NOT_YET_VALID">>, <<"TOPOLOGY_EXPIRED">>}
                                \cap AdmitReasons(plan, Policy(pinned), t) = {}
=============================================================================
