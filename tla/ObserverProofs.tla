--------------------------- MODULE ObserverProofs ---------------------------
(***************************************************************************)
(* `observe mesh-llm` for every endpoint, command line and limit: what it  *)
(* prints is an accepted projection of one document, dated before the      *)
(* document was taken, and no pace of the endpoint keeps it longer than    *)
(* one timeout for each address and each piece, wherever the counting of   *)
(* pieces and seconds stops.                                               *)
(***************************************************************************)
EXTENDS Observer, SequenceTheorems, FiniteSetTheorems, TLAPS

\* The types and control states of TypeOK are inductive by themselves.
THEOREM TypeCorrect == Spec => []TypeOK
  <1>1. Init => TypeOK
    BY ObserverAssumption DEF Init, TypeOK, Waiting
  <1>2. TypeOK /\ [Next]_vars => TypeOK'
    <2> SUFFICES ASSUME TypeOK, [Next]_vars
                 PROVE  TypeOK'
      OBVIOUS
    <2> USE ObserverAssumption DEF TypeOK, Waiting
    <2>1. CASE Start
      BY <2>1 DEF Start, Report, ValidCall
    <2>2. CASE ConnectTimesOut \/ Refuse
      BY <2>2 DEF ConnectTimesOut, Refuse, NextAddress, Unavailable, Report, ValidCall
    <2>3. CASE TimesOut \/ Break
      BY <2>3 DEF TimesOut, Break, Unavailable, Report
    <2>4. CASE ReadEnds \/ CloseBody
      BY <2>4 DEF ReadEnds, CloseBody
    <2>5. CASE Decode
      BY <2>5 DEF Decode, Unavailable, Internal, PrintData, Project, Report
    <2>6. CASE Accept
      BY <2>6 DEF Accept, ValidCall
    <2>7. ASSUME NEW r \in Responses, Respond(r) PROVE TypeOK'
      BY <2>7 DEF Respond
    <2>8. CASE SendFraming
      BY <2>8 DEF SendFraming, Smaller, ValidCall
    <2>9. CASE SendHead
      BY <2>9 DEF SendHead, Unavailable, Report, ValidCall
    <2>10. ASSUME NEW n \in 1..MaxBytes + 1, SendBytes(n) PROVE TypeOK'
      BY <2>10 DEF SendBytes, Smaller, ValidCall
    <2>11. CASE BreakProtocol
      BY <2>11 DEF BreakProtocol, Internal, Report
    <2>12. CASE Tick
      BY <2>12 DEF Tick, Smaller
    <2>13. CASE UNCHANGED vars
      BY <2>13 DEF vars, ValidCall
    <2> QED
      BY <2>1, <2>2, <2>3, <2>4, <2>5, <2>6, <2>7, <2>8, <2>9, <2>10, <2>11, <2>12, <2>13
         DEF Next, Client, Endpoint
  <1> QED
    BY <1>1, <1>2, PTL DEF Spec

-----------------------------------------------------------------------------
(* What is printed *)

\* A document that is being read was taken after the observation was dated, and
\* what a run printed is the accepted projection of that document.
Provenance ==
    /\ phase = "idle" => response = None
    /\ observedAt <= clock
    /\ response # None => observedAt <= takenAt
    /\ Printed =>
          LET o == Project(response.status, observedAt, call.ttl, call.max_scope)
          IN  /\ response # None
              /\ result.data = o
              /\ result.exit = IF o.within_requested_scope THEN 0 ELSE 5
              /\ ValidObservation(o)
              /\ received = response.size /\ received <= MaxBytes
              /\ response.form = "object" /\ Supported(response.status)

\* Only Decode prints, and only what _project accepts.
LEMMA DecodePrints ==
    ASSUME TypeOK, Provenance, Decode
    PROVE  Provenance'
  <1> DEFINE o == Project(response.status, observedAt, call.ttl, call.max_scope)
  <1>1. UNCHANGED <<call, clock, observedAt, response, takenAt, received>> /\ phase' = "done" /\ response # None
    BY DEF TypeOK, Decode, Unavailable, Internal, PrintData, Report
  <1>2. CASE Unavailable \/ Internal
    BY <1>1, <1>2 DEF Unavailable, Internal, Report, Provenance, Printed
  <1>3. CASE /\ received <= MaxBytes /\ received = response.size
             /\ response.form = "object" /\ Supported(response.status)
             /\ ValidObservation(o) /\ PrintData(o)
    <2>1. result' = [exit |-> IF o.within_requested_scope THEN 0 ELSE 5, error |-> None, data |-> o]
      BY <1>3 DEF PrintData, Report
    <2> HIDE DEF o
    <2>2. result'.data = o /\ result'.exit = IF o.within_requested_scope THEN 0 ELSE 5
      BY <2>1
    <2>3. (Project(response.status, observedAt, call.ttl, call.max_scope))' = o
      BY <1>1 DEF o
    <2> QED
      BY <1>1, <1>3, <2>2, <2>3 DEF Provenance, ValidObservation
  <1> QED
    BY <1>2, <1>3 DEF Decode

\* The end of a run without data prints nothing.
LEMMA ErrorsPrintNothing ==
    ASSUME NEW exit, NEW error, Report(exit, error, None)
    PROVE  ~Printed'
  BY DEF Report, Printed

\* The moment observe was given, the moment the endpoint answered, the clock:
\* in this order along every run.
LEMMA ProvenanceKept == Spec => []Provenance
  <1>1. Init => Provenance
    BY DEF Init, Provenance, Printed
  <1>2. TypeOK /\ Provenance /\ [Next]_vars => Provenance'
    <2> SUFFICES ASSUME TypeOK, Provenance, [Next]_vars
                 PROVE  Provenance'
      OBVIOUS
    <2>1. CASE Decode
      BY <2>1, DecodePrints
    <2>2. CASE Start
      BY <2>2, ErrorsPrintNothing DEF Start, Report, Provenance, TypeOK, Printed
    <2>3. CASE ConnectTimesOut \/ Refuse
      BY <2>3 DEF ConnectTimesOut, Refuse, NextAddress, Unavailable, Report, Provenance, Printed
    <2>4. CASE TimesOut \/ Break \/ BreakProtocol
      BY <2>4 DEF TimesOut, Break, BreakProtocol, Unavailable, Internal, Report, Provenance, Printed
    <2>5. CASE ReadEnds \/ CloseBody \/ Accept \/ SendFraming
      BY <2>5 DEF ReadEnds, CloseBody, Accept, SendFraming, Provenance, Printed
    <2>6. CASE SendHead
      BY <2>6 DEF SendHead, Unavailable, Report, Provenance, Printed
    <2>7. ASSUME NEW r \in Responses, Respond(r) PROVE Provenance'
      BY <2>7 DEF Respond, Provenance, Printed
    <2>8. ASSUME NEW n \in 1..MaxBytes + 1, SendBytes(n) PROVE Provenance'
      BY <2>8 DEF SendBytes, Provenance, Printed
    <2>9. CASE Tick
      BY <2>9, ObserverAssumption DEF Tick, Smaller, Provenance, Printed, Waiting, TypeOK
    <2>10. CASE UNCHANGED vars
      BY <2>10 DEF vars, Provenance, Printed
    <2> QED
      BY <2>1, <2>2, <2>3, <2>4, <2>5, <2>6, <2>7, <2>8, <2>9, <2>10 DEF Next, Client, Endpoint
  <1> QED
    BY <1>1, <1>2, TypeCorrect, PTL DEF Spec

\* The lifetime of an observation ends no later than its ttl after the status
\* was taken (cli.py:142-147, mesh_llm.py:79-84, 180-181).
THEOREM LifetimeCovers == Spec => []LifetimeCoversStatus
  <1>1. TypeOK /\ Provenance => LifetimeCoversStatus
    <2> SUFFICES ASSUME TypeOK, Provenance, Printed
                 PROVE  /\ result.data.observed_at <= takenAt
                        /\ result.data.expires_at <= takenAt + call.ttl
      BY DEF LifetimeCoversStatus
    <2>1. result.data.observed_at = observedAt /\ result.data.expires_at = observedAt + call.ttl
      BY DEF Provenance, Project
    <2>2. observedAt \in Nat /\ takenAt \in Nat /\ call.ttl \in Int /\ observedAt <= takenAt
      BY ObserverAssumption DEF TypeOK, Provenance
    <2> QED
      BY <2>1, <2>2
  <1> QED
    BY <1>1, TypeCorrect, ProvenanceKept, PTL

\* The scope shown is the widest signal, and the exit code tells whether the
\* maximum admits it (mesh_llm.py:146-158, 222, cli.py:150).
THEOREM ExitTellsScope == Spec => []ExitTellsTheWidestSignal
  <1>1. TypeOK /\ Provenance => ExitTellsTheWidestSignal
    <2> SUFFICES ASSUME TypeOK, Provenance, Printed
                 PROVE  ExitTellsTheWidestSignal
      BY DEF ExitTellsTheWidestSignal
    <2> DEFINE d       == response.status.discovery
               scope   == ObservedScope(d)
               signals == Signals(d)
    <2>1. scope \in signals /\ signals \subseteq {"private_mesh", "public_mesh"}
      BY DEF ObservedScope, Signals
    <2>2. \A s \in signals : ScopeRank(s) <= ScopeRank(scope)
      BY DEF ObservedScope, Signals, ScopeRank
    <2>3. ScopeRank(call.max_scope) \in 0..2 /\ \A s \in signals : ScopeRank(s) \in 1..2
      BY <2>1, ObserverAssumption DEF TypeOK, Intents, ScopeRank
    <2> DEFINE o == Project(response.status, observedAt, call.ttl, call.max_scope)
    <2>a. o.observed_scope = scope
      BY DEF Project
    <2>b. o.within_requested_scope = (ScopeRank(scope) <= ScopeRank(call.max_scope))
      BY DEF Project
    <2>c. result.data = o /\ result.exit = (IF o.within_requested_scope THEN 0 ELSE 5) /\ ValidObservation(o)
      BY DEF Provenance
    <2> HIDE DEF o
    <2>4. /\ result.data.observed_scope = scope
          /\ result.exit = IF ScopeRank(scope) <= ScopeRank(call.max_scope) THEN 0 ELSE 5
          /\ ValidObservation(result.data)
      BY <2>a, <2>b, <2>c
    <2>5. \A i \in DOMAIN result.data.candidates : result.data.candidates[i].observed_scope = scope
      BY <2>4 DEF ValidObservation
    <2>6. result.exit = 0 <=> \A s \in signals : ScopeRank(s) <= ScopeRank(call.max_scope)
      BY <2>1, <2>2, <2>3, <2>4
    <2>7. call.max_scope = "device_only" => result.exit = 5
      BY <2>1, <2>3, <2>4 DEF ScopeRank
    <2> QED
      BY <2>1, <2>2, <2>5, <2>6, <2>7 DEF ExitTellsTheWidestSignal
  <1> QED
    BY <1>1, TypeCorrect, ProvenanceKept, PTL

\* The candidates are the local node and the peers, in the order of the document.
LEMMA CandidatesAreTheNodes ==
    ASSUME NEW status, NEW scope, status.peers \in Seq({status.peers[i] : i \in DOMAIN status.peers})
    PROVE  LET nodes == <<status.local>> \o status.peers
               shown == Candidates(Projection(status), scope)
           IN  /\ DOMAIN nodes = 1..Len(nodes) /\ Len(nodes) = 1 + Len(status.peers)
               /\ Len(nodes) \in Nat
               /\ DOMAIN shown = 1..Len(nodes) /\ Len(shown) = Len(nodes)
               /\ \A i \in 1..Len(nodes) :
                     /\ shown[i].candidate = ProjectNode(nodes[i])
                     /\ shown[i].local_node <=> i = 1
  <1> DEFINE peers == status.peers
             n     == Len(peers)
             NodeAt(i) == IF i = 1 THEN status.local ELSE peers[i - 1]
             Nodes == {NodeAt(i) : i \in 1..(n + 1)}
             Shown(i) == IF i = 1 THEN Candidate(ProjectNode(status.local), TRUE, scope)
                         ELSE Candidate(ProjectNode(peers[i - 1]), FALSE, scope)
             All   == {Shown(i) : i \in 1..(n + 1)}
             projected == [i \in DOMAIN peers |-> ProjectNode(peers[i])]
             rest  == [i \in DOMAIN projected |-> Candidate(projected[i], FALSE, scope)]
             nodes == <<status.local>> \o peers
             shown == Candidates(Projection(status), scope)
  <1>1. n \in Nat /\ DOMAIN peers = 1..n
    BY LenProperties
  <1>2. \A i \in 1..n : i + 1 \in 1..(n + 1) /\ NodeAt(i + 1) = peers[i] /\ peers[i] \in Nodes
    <2> TAKE i \in 1..n
    <2>1. i + 1 \in 1..(n + 1) /\ i + 1 # 1 /\ (i + 1) - 1 = i
      BY <1>1
    <2> QED
      BY <2>1
  <1>3. peers \in Seq(Nodes) /\ <<status.local>> \in Seq(Nodes) /\ Len(<<status.local>>) = 1
    <2>1. {peers[i] : i \in DOMAIN peers} \subseteq Nodes
      BY <1>1, <1>2
    <2>2. peers \in Seq(Nodes)
      <3> HIDE DEF Nodes, peers
      <3> QED
        BY <2>1, SeqMonotonic DEF peers
    <2>3. status.local \in Nodes
      BY <1>1
    <2> HIDE DEF Nodes
    <2> QED
      BY <2>2, <2>3
  <1>4. /\ nodes \in Seq(Nodes) /\ Len(nodes) = 1 + n
        /\ \A i \in 1..(n + 1) : nodes[i] = NodeAt(i)
    <2> HIDE DEF Nodes, peers
    <2>1. /\ nodes \in Seq(Nodes) /\ Len(nodes) = 1 + n
          /\ \A i \in 1..(1 + n) : nodes[i] = IF i <= 1 THEN <<status.local>>[i] ELSE peers[i - 1]
      BY <1>1, <1>3, ConcatProperties
    <2> QED
      BY <1>1, <2>1
  <1>5. /\ rest \in Seq(All) /\ Len(rest) = n
        /\ \A i \in 1..n : rest[i] = Shown(i + 1)
    <2>1. rest = [i \in 1..n |-> Candidate(ProjectNode(peers[i]), FALSE, scope)]
      BY <1>1
    <2>2. \A i \in 1..n : rest[i] = Shown(i + 1) /\ Shown(i + 1) \in All
      <3> TAKE i \in 1..n
      <3>1. i + 1 \in 1..(n + 1) /\ i + 1 # 1 /\ (i + 1) - 1 = i
        BY <1>1
      <3>2. rest[i] = Candidate(ProjectNode(peers[i]), FALSE, scope)
        BY <2>1
      <3> HIDE DEF rest
      <3> QED
        BY <3>1, <3>2
    <2>3. rest \in [1..n -> All]
      BY <2>1, <2>2
    <2>4. rest \in Seq(All) /\ Len(rest) = n
      <3> HIDE DEF rest, All
      <3> QED
        BY <1>1, <2>3
    <2> HIDE DEF rest, All, Shown
    <2> QED
      BY <2>2, <2>4
  <1>6. /\ shown = <<Shown(1)>> \o rest
        /\ <<Shown(1)>> \in Seq(All) /\ Len(<<Shown(1)>>) = 1
    <2>1. shown = <<Shown(1)>> \o rest
      BY DEF Candidates, Projection
    <2>2. 1 \in 1..(n + 1)
      BY <1>1
    <2>3. Shown(1) \in All
      <3> HIDE DEF Shown
      <3> QED
        BY <2>2
    <2> HIDE DEF All, Shown
    <2> QED
      BY <2>1, <2>3
  <1>7. /\ shown \in Seq(All) /\ Len(shown) = 1 + n
        /\ \A i \in 1..(n + 1) : shown[i] = Shown(i)
    <2> HIDE DEF All, Shown, rest, shown
    <2>1. /\ shown \in Seq(All) /\ Len(shown) = 1 + n
          /\ \A i \in 1..(1 + n) : shown[i] = IF i <= 1 THEN <<Shown(1)>>[i] ELSE rest[i - 1]
      BY <1>1, <1>5, <1>6, ConcatProperties
    <2>2. \A i \in 1..(n + 1) : i # 1 => i - 1 \in 1..n /\ (i - 1) + 1 = i
      BY <1>1
    <2>3. ASSUME NEW i \in 1..(n + 1)
          PROVE  shown[i] = Shown(i)
      <3>1. CASE i = 1
        BY <1>1, <2>1, <3>1
      <3>2. CASE i # 1
        <4>1. shown[i] = rest[i - 1]
          BY <1>1, <2>1, <3>2
        <4>2. rest[i - 1] = Shown((i - 1) + 1)
          BY <1>5, <2>2, <3>2
        <4> QED
          BY <2>2, <3>2, <4>1, <4>2
      <3> QED
        BY <3>1, <3>2
    <2> QED
      BY <2>1, <2>3
  <1>8. \A i \in 1..(n + 1) : shown[i].candidate = ProjectNode(nodes[i]) /\ (shown[i].local_node <=> i = 1)
    <2> TAKE i \in 1..(n + 1)
    <2>1. nodes[i] = NodeAt(i) /\ shown[i] = Shown(i)
      BY <1>4, <1>7
    <2>2. Shown(i).candidate = ProjectNode(NodeAt(i))
      <3>1. CASE i = 1
        BY <3>1 DEF Candidate
      <3>2. CASE i # 1
        BY <3>2 DEF Candidate
      <3> QED
        BY <3>1, <3>2
    <2>3. Shown(i).local_node <=> i = 1
      BY DEF Candidate
    <2> HIDE DEF shown, nodes, Shown, NodeAt
    <2> QED
      BY <2>1, <2>2, <2>3
  <1> HIDE DEF Nodes, All, peers, nodes, shown
  <1>9. Len(nodes) \in Nat /\ DOMAIN nodes = 1..Len(nodes) /\ DOMAIN shown = 1..Len(nodes)
    BY <1>1, <1>4, <1>7, LenProperties
  <1> QED
    BY <1>1, <1>4, <1>7, <1>8, <1>9 DEF nodes, shown, peers

\* As many different values as places, when none is twice.
LEMMA AllDifferent ==
    ASSUME NEW n \in Nat, NEW f, DOMAIN f = 1..n, \A i, j \in 1..n : f[i] = f[j] => i = j
    PROVE  Cardinality({f[i] : i \in 1..n}) = n
  <1> DEFINE T == {f[i] : i \in 1..n}
             g == [i \in 1..n |-> f[i]]
  <1>1. g \in Injection(1..n, T) /\ g \in Surjection(1..n, T)
    BY DEF Injection, IsInjective, Surjection
  <1>2. ExistsBijection(1..n, T)
    BY <1>1 DEF ExistsBijection, Bijection
  <1>3. IsFiniteSet(1..n) /\ Cardinality(1..n) = n
    BY FS_Interval
  <1> HIDE DEF T
  <1> QED
    BY <1>2, <1>3, FS_Bijection DEF T

\* What is printed stands for one whole document, received to its last byte, each
\* node of it one candidate, in its order (mesh_llm.py:101-135, models.py:226-228).
THEOREM PrintsTheWholeStatus == Spec => []WholeStatusOnly
  <1>1. TypeOK /\ Provenance => WholeStatusOnly
    <2> SUFFICES ASSUME TypeOK, Provenance, Printed
                 PROVE  WholeStatusOnly
      BY DEF WholeStatusOnly
    <2> DEFINE status == response.status
               scope  == ObservedScope(status.discovery)
               nodes  == <<status.local>> \o status.peers
               o      == Project(status, observedAt, call.ttl, call.max_scope)
               shown  == Candidates(Projection(status), scope)
    <2>1. /\ response # None /\ response.form = "object" /\ Supported(status)
          /\ received = response.size /\ received <= MaxBytes
          /\ result.data = o /\ ValidObservation(o)
      BY DEF Provenance
    <2>2. status.peers \in Seq({status.peers[i] : i \in DOMAIN status.peers})
      BY <2>1, DocumentAssumption DEF TypeOK, Supported
    <2>3. /\ DOMAIN nodes = 1..Len(nodes) /\ Len(nodes) = 1 + Len(status.peers)
          /\ Len(nodes) \in Nat
          /\ DOMAIN shown = 1..Len(nodes) /\ Len(shown) = Len(nodes)
          /\ \A i \in 1..Len(nodes) :
                /\ shown[i].candidate = ProjectNode(nodes[i])
                /\ shown[i].local_node <=> i = 1
      BY <2>2, CandidatesAreTheNodes
    <2>4. o.candidates = shown
      BY DEF Project
    <2> HIDE DEF o, shown, nodes
    <2>5. Len(nodes) <= MaxCandidates
      BY <2>1, <2>3, <2>4 DEF ValidObservation
    <2>6. IsInjective([i \in DOMAIN shown |-> shown[i].candidate.candidate_id])
      BY <2>1, <2>4 DEF ValidObservation
    <2>7. ASSUME NEW i \in 1..Len(nodes)
          PROVE  shown[i].candidate.candidate_id = nodes[i].id
      <3>1. shown[i].candidate = ProjectNode(nodes[i])
        BY <2>3
      <3>2. ProjectNode(nodes[i]).candidate_id = nodes[i].id
        BY DEF ProjectNode
      <3> QED
        BY <3>1, <3>2
    <2>8. Cardinality({nodes[i].id : i \in 1..Len(nodes)}) = Len(nodes)
      <3> DEFINE f == [i \in 1..Len(nodes) |-> nodes[i].id]
      <3>1. \A i, j \in DOMAIN shown :
               shown[i].candidate.candidate_id = shown[j].candidate.candidate_id => i = j
        BY <2>6 DEF IsInjective
      <3>2. DOMAIN f = 1..Len(nodes) /\ \A i, j \in 1..Len(nodes) : f[i] = f[j] => i = j
        BY <2>3, <2>7, <3>1
      <3>3. {f[i] : i \in 1..Len(nodes)} = {nodes[i].id : i \in 1..Len(nodes)}
        OBVIOUS
      <3> HIDE DEF f
      <3>4. Cardinality({f[i] : i \in 1..Len(nodes)}) = Len(nodes)
        BY <2>3, <3>2, AllDifferent
      <3> QED
        BY <3>3, <3>4
    <2> QED
      BY <2>1, <2>3, <2>4, <2>5, <2>8 DEF WholeStatusOnly, nodes
  <1> QED
    BY <1>1, TypeCorrect, ProvenanceKept, PTL

-----------------------------------------------------------------------------
(* How long it takes *)

\* What the pending socket call may still wait is paid for: every address and
\* every piece bought one timeout, the request and the body one more each.  Said,
\* like RunIsShort, while all framing is counted.
Bought == attempts + pieces + received
Owed(n) == clock + patience <= call.timeout * (Bought + n)

Debt ==
    /\ phase = "connecting" => Owed(0)
    /\ phase = "requesting" => Owed(1)
    /\ phase = "reading" => Owed(2)
    /\ clock <= call.timeout * (Bought + 2)

Paid ==
    /\ phase = "idle" => clock = 0
    /\ pieces < MaxPieces => Debt

\* Timeouts add up.
LEMMA OneMoreTimeout ==
    ASSUME NEW t \in Nat, NEW n \in Nat
    PROVE  t * n \in Nat /\ t * (n + 1) = t * n + t
  OBVIOUS

\* With n timeouts owed and two allowed, the run is short.
LEMMA OwedIsShort ==
    ASSUME NEW t \in Nat, NEW k \in Nat, NEW c \in Nat, NEW p \in Nat, NEW n \in 0..2,
           c + p <= t * (k + n)
    PROVE  c <= t * (k + 2)
  <1>1. t * (k + 1) = t * k + t /\ t * (k + 1 + 1) = t * (k + 1) + t /\ t * k \in Nat
    BY OneMoreTimeout
  <1>2. CASE n = 0
    BY <1>1, <1>2
  <1>3. CASE n = 1
    BY <1>1, <1>3
  <1>4. CASE n = 2
    BY <1>1, <1>4
  <1> QED
    BY <1>2, <1>3, <1>4

\* A new socket call costs at most one timeout more.
LEMMA Buys ==
    ASSUME TypeOK, NEW n \in Nat, Owed(n),
           UNCHANGED <<call, clock>>, patience' = call.timeout,
           NEW m \in Nat, Bought' \in Nat, Bought' + m = Bought + n + 1
    PROVE  Owed(m)'
  <1>1. call.timeout \in Nat /\ Bought \in Nat /\ clock \in Nat /\ patience \in Nat
    BY ObserverAssumption DEF TypeOK, Bought
  <1>2. call.timeout * (Bought + n + 1) = call.timeout * (Bought + n) + call.timeout
        /\ call.timeout * (Bought + n) \in Nat
    BY <1>1, OneMoreTimeout
  <1>3. clock + call.timeout <= call.timeout * (Bought + n + 1)
    BY <1>1, <1>2 DEF Owed
  <1>4. call.timeout * (Bought' + m) = call.timeout * (Bought + n + 1)
    OBVIOUS
  <1>5. clock' + patience' <= call'.timeout * (Bought' + m)
    BY <1>3, <1>4
  <1> QED
    BY <1>5 DEF Owed

\* The end of the run leaves the clock where it was.
LEMMA Stops ==
    ASSUME Debt, phase' \in {"decoding", "done"}, UNCHANGED <<call, clock, pieces, received, attempts>>
    PROVE  Debt'
  BY DEF Debt, Bought

\* A socket call waits no longer than its timeout, and a new one begins only
\* with a new address, a new phase or a new piece.
LEMMA PaidKept == Spec => []Paid
  <1>1. Init => Paid
    BY ObserverAssumption DEF Init, Paid, Debt, Owed, Bought
  <1>2. TypeOK /\ TypeOK' /\ Paid /\ [Next]_vars => Paid'
    <2>i. TypeOK /\ Paid /\ [Next]_vars => (phase' = "idle" => clock' = 0)
      BY DEF Paid, Next, Client, Endpoint, Start, ConnectTimesOut, Refuse, NextAddress, TimesOut,
         Break, BreakProtocol, ReadEnds, CloseBody, Decode, Accept, Respond, SendFraming, SendHead,
         SendBytes, Tick, Report, Unavailable, Internal, PrintData, Waiting, vars
    <2>m. TypeOK /\ [Next]_vars => pieces' = pieces \/ pieces' = Smaller(pieces + 1, MaxPieces)
      BY DEF Next, Client, Endpoint, Start, ConnectTimesOut, Refuse, NextAddress, TimesOut,
         Break, BreakProtocol, ReadEnds, CloseBody, Decode, Accept, Respond, SendFraming, SendHead,
         SendBytes, Tick, vars
    <2> SUFFICES ASSUME TypeOK, TypeOK', Paid, [Next]_vars, pieces' < MaxPieces
                 PROVE  Debt'
      BY <2>i DEF Paid
    <2>d. Debt
      <3>1. pieces \in 0..MaxPieces /\ MaxPieces \in Nat
        BY ObserverAssumption DEF TypeOK
      <3>2. pieces < MaxPieces
        BY <2>m, <3>1 DEF Smaller
      <3> QED
        BY <3>2 DEF Paid
    <2>0. /\ call.timeout \in Nat /\ clock \in Nat /\ patience \in Nat
          /\ attempts \in Nat /\ pieces \in Nat /\ received \in Nat /\ Bought \in Nat
      BY ObserverAssumption DEF TypeOK, Bought
    <2>p. /\ call'.timeout \in Nat /\ clock' \in Nat /\ patience' \in Nat
          /\ attempts' \in Nat /\ pieces' \in Nat /\ received' \in Nat /\ Bought' \in Nat
      <3>1. call' \in Calls /\ {clock', observedAt', takenAt'} \subseteq Nat /\ patience' \in 0..MaxTimeout
            /\ attempts' \in 0..call'.addresses /\ pieces' \in 0..MaxPieces
            /\ received' \in 0..MaxBytes + 1
        BY DEF TypeOK
      <3>2. /\ call'.timeout \in Nat /\ clock' \in Nat /\ patience' \in Nat
            /\ attempts' \in Nat /\ pieces' \in Nat /\ received' \in Nat
        BY <3>1, ObserverAssumption
      <3>3. \A i, j, k \in Nat : i + j + k \in Nat
        OBVIOUS
      <3>4. Bought' \in Nat
        BY <3>2, <3>3 DEF Bought
      <3> QED
        BY <3>2, <3>4
    \* Whatever is still owed in a new state is within the two timeouts allowed.
    <2>S. /\ phase' = "connecting" /\ Owed(0)' => Debt'
          /\ phase' = "requesting" /\ Owed(1)' => Debt'
          /\ phase' = "reading" /\ Owed(2)' => Debt'
      <3>1. \A n \in 0..2 : Owed(n)' => clock' <= call'.timeout * (Bought' + 2)
        <4> SUFFICES ASSUME NEW n \in 0..2, Owed(n)'
                     PROVE  clock' <= call'.timeout * (Bought' + 2)
          OBVIOUS
        <4>1. clock' + patience' <= call'.timeout * (Bought' + n)
          BY DEF Owed
        <4> QED
          BY <4>1, <2>p, OwedIsShort
      <3> QED
        BY <3>1 DEF Debt
    <2>1. CASE Start
      <3>1. CASE phase' = "done"
        BY <2>1, <3>1, <2>d, Stops DEF Start, Report
      <3>2. CASE phase' = "connecting"
        <4>1. /\ clock = 0 /\ UNCHANGED <<call, clock>> /\ patience' = call.timeout
              /\ attempts' = 1 /\ UNCHANGED <<pieces, received>>
          BY <2>1, <3>2 DEF Start, Report, Paid
        <4>2. Bought' = pieces + received + 1
          BY <4>1, <2>0 DEF Bought
        <4>3. call.timeout <= call.timeout * (pieces + received + 1)
          <5>1. pieces + received \in Nat
            BY <2>0
          <5> QED
            BY <2>0, <5>1, OneMoreTimeout
        <4>4. Owed(0)'
          BY <2>0, <4>1, <4>2, <4>3 DEF Owed
        <4> QED
          BY <2>S, <3>2, <4>4
      <3> QED
        BY <2>1, <3>1, <3>2 DEF Start, Report
    <2>2. CASE ConnectTimesOut \/ Refuse
      <3>1. CASE phase' = "done" /\ UNCHANGED attempts
        BY <2>2, <3>1, <2>d, Stops DEF ConnectTimesOut, Refuse, NextAddress
      <3>2. CASE /\ phase = "connecting" /\ phase' = "connecting"
                 /\ attempts' = attempts + 1 /\ patience' = call.timeout
        <4>0. UNCHANGED <<call, clock, pieces, received>>
          BY <2>2 DEF ConnectTimesOut, Refuse, NextAddress
        <4>1. Bought' = Bought + 1 /\ UNCHANGED <<call, clock>>
          BY <4>0, <3>2, <2>0 DEF Bought
        <4>2. Owed(0)
          BY <2>d, <3>2 DEF Debt
        <4>3. Owed(0)'
          BY <2>p, <2>0, <3>2, <4>1, <4>2, Buys
        <4> QED
          BY <2>S, <3>2, <4>3
      <3> QED
        BY <2>2, <3>1, <3>2 DEF ConnectTimesOut, Refuse, NextAddress, Unavailable, Report
    <2>3. CASE TimesOut \/ Break \/ BreakProtocol
      BY <2>3, <2>d, Stops DEF TimesOut, Break, BreakProtocol, Unavailable, Internal, Report
    <2>4. CASE ReadEnds \/ CloseBody
      BY <2>4, <2>d, Stops DEF ReadEnds, CloseBody
    <2>5. CASE Decode
      BY <2>5, <2>d, Stops DEF Decode, Unavailable, Internal, PrintData, Report
    <2>6. CASE Accept
      <3>1. /\ Bought' = Bought /\ UNCHANGED <<call, clock>> /\ patience' = call.timeout
            /\ phase = "connecting" /\ phase' = "requesting" /\ Owed(0)
        BY <2>6, <2>d DEF Accept, Bought, Debt
      <3>2. Owed(1)'
        BY <2>p, <2>0, <3>1, Buys
      <3> QED
        BY <2>S, <3>1, <3>2
    <2>7. ASSUME NEW r \in Responses, Respond(r) PROVE Debt'
      BY <2>7, <2>d DEF Respond, Debt, Owed, Bought
    <2>8. CASE SendFraming
      <3>1. Bought' = Bought + 1 /\ UNCHANGED <<call, clock, phase>> /\ patience' = call.timeout
        <4>1. pieces' = pieces + 1
          BY <2>8, <2>0, ObserverAssumption DEF SendFraming, Smaller
        <4> QED
          BY <2>8, <2>0, <4>1 DEF SendFraming, Bought
      <3>2. CASE phase = "requesting"
        <4>1. Owed(1)
          BY <2>d, <3>2 DEF Debt
        <4>2. Owed(1)'
          BY <2>p, <2>0, <3>1, <4>1, Buys
        <4> QED
          BY <2>S, <3>1, <3>2, <4>2
      <3>3. CASE phase = "reading"
        <4>1. Owed(2)
          BY <2>d, <3>3 DEF Debt
        <4>2. Owed(2)'
          BY <2>p, <2>0, <3>1, <4>1, Buys
        <4> QED
          BY <2>S, <3>1, <3>3, <4>2
      <3> QED
        BY <2>8, <3>2, <3>3 DEF SendFraming
    <2>9. CASE SendHead
      <3>1. CASE phase' = "done"
        BY <2>9, <3>1, <2>d, Stops DEF SendHead
      <3>2. CASE phase' = "reading" /\ patience' = call.timeout
        <4>1. /\ Bought' = Bought /\ UNCHANGED <<call, clock>> /\ Owed(1)
          BY <2>9, <2>d DEF SendHead, Bought, Debt
        <4>2. Owed(2)'
          BY <2>p, <2>0, <3>2, <4>1, Buys
        <4> QED
          BY <2>S, <3>2, <4>2
      <3> QED
        BY <2>9, <3>1, <3>2 DEF SendHead, Unavailable, Report
    <2>10. ASSUME NEW n \in 1..MaxBytes + 1, SendBytes(n) PROVE Debt'
      <3>1. /\ phase = "reading" /\ phase' = "reading" /\ UNCHANGED <<call, clock>>
            /\ patience' = call.timeout /\ n \in Nat /\ n >= 1 /\ Owed(2)
        BY <2>10, <2>d, ObserverAssumption DEF SendBytes, Debt
      <3>2. Bought' = Bought + n
        BY <2>10, <2>0, <3>1 DEF SendBytes, Bought
      <3>3. clock + call.timeout <= call.timeout * (Bought + 2 + 1)
        <4>1. call.timeout * (Bought + 2 + 1) = call.timeout * (Bought + 2) + call.timeout
              /\ call.timeout * (Bought + 2) \in Nat
          BY <2>0, OneMoreTimeout
        <4> QED
          BY <2>0, <3>1, <4>1 DEF Owed
      <3>4. call.timeout * (Bought + 2 + 1) <= call.timeout * (Bought + n + 2)
        <4>1. \A t, a, b \in Nat : a <= b => t * a <= t * b
          OBVIOUS
        <4> QED
          BY <2>0, <3>1, <4>1
      <3>5. Owed(2)'
        BY <2>0, <3>1, <3>2, <3>3, <3>4 DEF Owed
      <3> QED
        BY <2>S, <3>1, <3>5
    <2>11. CASE Tick
      <3>1. /\ UNCHANGED <<call, phase>> /\ Bought' = Bought /\ phase \in Waiting
            /\ clock' + patience' <= clock + patience
        <4>1. clock' <= clock + 1
          BY <2>11, <2>0, ObserverAssumption DEF Tick, Smaller
        <4> QED
          BY <2>11, <2>0, <2>p, <4>1 DEF Tick, Bought
      <3>2. \A n \in 0..2 : Owed(n) => Owed(n)'
        <4> SUFFICES ASSUME NEW n \in 0..2, Owed(n)
                     PROVE  Owed(n)'
          OBVIOUS
        <4> DEFINE owed == call.timeout * (Bought + n)
        <4>1. call'.timeout * (Bought' + n) = owed
          BY <3>1
        <4>2. owed \in Nat
          BY <2>0
        <4>3. clock + patience <= owed
          BY DEF Owed
        <4> HIDE DEF owed
        <4>4. clock' + patience' <= owed
          <5>1. clock' + patience' \in Int /\ clock + patience \in Int
            BY <2>0, <2>p
          <5>2. clock' + patience' <= clock + patience
            BY <3>1
          <5>3. \A x, y, z \in Int : x <= y /\ y <= z => x <= z
            OBVIOUS
          <5> QED
            BY <4>2, <4>3, <5>1, <5>2, <5>3
        <4> QED
          BY <4>1, <4>4 DEF Owed
      <3> QED
        BY <2>S, <2>d, <3>1, <3>2 DEF Debt, Waiting
    <2>12. CASE UNCHANGED vars
      BY <2>12, <2>d DEF vars, Debt, Owed, Bought
    <2> QED
      BY <2>1, <2>2, <2>3, <2>4, <2>5, <2>6, <2>7, <2>8, <2>9, <2>10, <2>11, <2>12
         DEF Next, Client, Endpoint
  <1> QED
    BY <1>1, <1>2, TypeCorrect, PTL DEF Spec

\* No pace of the endpoint keeps a run longer than one timeout for each address
\* and each piece, and two more (mesh_llm.py:97-101), as far as pieces are counted.
THEOREM RunsAreShort == Spec => []RunIsShort
  <1>1. Paid => RunIsShort
    BY DEF Paid, Debt, Bought, RunIsShort
  <1> QED
    BY <1>1, PaidKept, PTL
=============================================================================
