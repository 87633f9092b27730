------------------------------ MODULE Observer ------------------------------
(***************************************************************************)
(* `locusmesh observe mesh-llm` (src/locusmesh/cli.py, adapters/           *)
(* mesh_llm.py) against an endpoint that may answer anything, at any pace, *)
(* or not at all.  The timeout is one of the socket: it runs anew for each *)
(* address that is tried and for each piece that is received.  Time is     *)
(* counted from the start of the run and passes while the run waits.       *)
(* http.client bounds neither the interim responses nor the trailer lines  *)
(* it skips, so framing may go on for ever: the counters of pieces and of  *)
(* seconds stop at MaxPieces and MaxClock, the run does not.               *)
(***************************************************************************)
EXTENDS Observation, FiniteSets

CONSTANTS
    Calls,            \* command lines: [loopback, max_scope, timeout, ttl, addresses]
    Responses,        \* what the endpoint may answer: [code, framing, form, status, size]
    MaxBytes,         \* _MAX_RESPONSE_BYTES, 1 MiB
    MaxTimeout,       \* the longest timeout, 30 seconds
    MaxPieces,        \* pieces of framing are counted up to here
    MaxClock          \* and seconds up to here

\* "addresses" is how many addresses the host name has, "form" what the body
\* is to json.loads: "object" (then "status" is the document), "other" JSON,
\* "malformed", or "deep", nested beyond the recursion limit.
ASSUME ObserverAssumption ==
    /\ MaxBytes \in Nat /\ MaxTimeout \in Nat /\ MaxTtl \in Nat
    /\ MaxPieces \in Nat /\ MaxClock \in Nat
    /\ \A c \in Calls :
          /\ c.loopback \in BOOLEAN /\ c.max_scope \in Intents
          /\ c.timeout \in Nat /\ c.ttl \in Int /\ c.addresses \in Nat \ {0}
    /\ \A r \in Responses :
          /\ r.size \in Nat
          /\ r.framing \in {"length", "chunked", "close"}
          /\ r.form \in {"object", "other", "malformed", "deep"}

\* A list of the document is a sequence.
ASSUME DocumentAssumption ==
    \A r \in Responses : r.form = "object" =>
        LET peers == r.status.peers
        IN  peers = None \/ peers \in Seq({peers[i] : i \in DOMAIN peers})

VARIABLES
    phase,            \* what the run is doing
    call,             \* its command line
    clock,            \* seconds since it began, MaxClock of them or more at MaxClock
    observedAt,       \* the "now" handed to observe
    patience,         \* what is left of the timeout of the pending socket call
    attempts,         \* addresses tried
    pieces,           \* pieces received that are not body, likewise
    response,         \* what the endpoint decided to answer, None before
    takenAt,          \* when it did: the moment the status is true of
    received,         \* bytes of the body received
    result            \* exit code, error code and data of the envelope

vars == <<phase, call, clock, observedAt, patience, attempts, pieces,
          response, takenAt, received, result>>

Waiting == {"connecting", "requesting", "reading"}

Smaller(a, b) == IF a <= b THEN a ELSE b

Init ==
    /\ phase = "idle"
    /\ call \in Calls
    /\ clock = 0 /\ observedAt = 0 /\ patience = 0
    /\ attempts = 0 /\ pieces = 0 /\ received = 0
    /\ response = None /\ takenAt = 0
    /\ result = None

-----------------------------------------------------------------------------
(* Ends of the run: what main makes of an exception or of an observation *)

Report(exit, error, data) ==
    /\ phase' = "done"
    /\ result' = [exit |-> exit, error |-> error, data |-> data]

Unavailable == Report(2, "OBSERVATION_UNAVAILABLE", None)    \* FabricObservationError
Internal == Report(1, "INTERNAL_ERROR", None)                \* no handler of its own

PrintData(o) == Report(IF o.within_requested_scope THEN 0 ELSE 5, None, o)

-----------------------------------------------------------------------------
(* Connecting *)

\* MeshLlmStatusObserver.__init__ and _status_url
ValidCall(c) ==
    /\ c.loopback
    /\ c.timeout \in 1..MaxTimeout
    /\ c.ttl \in 1..MaxTtl

\* Build the observer, sample the time, try the first address.
Start ==
    /\ phase = "idle"
    /\ \/ /\ ~ValidCall(call)
          /\ Report(2, "INPUT_INVALID", None)
          /\ UNCHANGED <<observedAt, patience, attempts>>
       \/ /\ ValidCall(call)
          /\ phase' = "connecting" /\ observedAt' = clock /\ patience' = call.timeout
          /\ attempts' = 1
          /\ UNCHANGED result
    /\ UNCHANGED <<call, clock, pieces, response, takenAt, received>>

\* This address does not answer: the next one is tried with a timeout of its own.
NextAddress ==
    /\ \/ /\ attempts < call.addresses
          /\ attempts' = attempts + 1
          /\ patience' = call.timeout
          /\ UNCHANGED <<phase, result>>
       \/ /\ attempts = call.addresses
          /\ Unavailable
          /\ UNCHANGED <<attempts, patience>>
    /\ UNCHANGED <<call, clock, observedAt, pieces, response, takenAt, received>>

ConnectTimesOut == phase = "connecting" /\ patience = 0 /\ NextAddress

Refuse == phase = "connecting" /\ NextAddress

Accept ==
    /\ phase = "connecting"
    /\ phase' = "requesting"
    /\ patience' = call.timeout
    /\ UNCHANGED <<call, clock, observedAt, attempts, pieces, response, takenAt, received, result>>

-----------------------------------------------------------------------------
(* The endpoint *)

\* The endpoint looks at its state and composes the answer.
Respond(r) ==
    /\ phase = "requesting" /\ response = None
    /\ response' = r /\ takenAt' = clock
    /\ UNCHANGED <<phase, call, clock, observedAt, patience, attempts, pieces, received, result>>

\* A part of the status line, of the headers or of the lines between chunks, or
\* an interim response: as many of them as the endpoint likes.
SendFraming ==
    /\ \/ phase = "requesting"
       \/ phase = "reading" /\ response.framing = "chunked"
    /\ pieces' = Smaller(pieces + 1, MaxPieces)
    /\ patience' = call.timeout
    /\ UNCHANGED <<phase, call, clock, observedAt, attempts, response, takenAt, received, result>>

\* The rest of the head: a redirect or an error status raises HTTPError, any
\* other status but 200 is refused.
SendHead ==
    /\ phase = "requesting" /\ response # None
    /\ \/ /\ response.code = 200
          /\ phase' = "reading" /\ patience' = call.timeout
          /\ UNCHANGED result
       \/ /\ response.code # 200
          /\ Unavailable
          /\ UNCHANGED patience
    /\ UNCHANGED <<call, clock, observedAt, attempts, pieces, response, takenAt, received>>

\* Mutant: read() without a bound.
SendUnboundedBytes(n) ==
    /\ phase = "reading"
    /\ received + n <= response.size
    /\ received' = received + n
    /\ patience' = call.timeout
    /\ UNCHANGED <<phase, call, clock, observedAt, attempts, pieces, response, takenAt, result>>

\* read(MaxBytes + 1) takes no more than it asked for.
SendBytes(n) ==
    /\ phase = "reading"
    /\ received + n <= Smaller(response.size, MaxBytes + 1)
    /\ received' = received + n
    /\ patience' = call.timeout
    /\ UNCHANGED <<phase, call, clock, observedAt, attempts, pieces, response, takenAt, result>>

\* The connection breaks with an OSError, which _fetch catches.
Break ==
    /\ phase \in {"requesting", "reading"}
    /\ Unavailable
    /\ UNCHANGED <<call, clock, observedAt, patience, attempts, pieces, response, takenAt, received>>

\* http.client raises HTTPException, which is neither URLError nor OSError: no
\* HTTP status line, a header too long, or chunks that end before the last one.
BreakProtocol ==
    /\ \/ phase = "requesting"
       \/ phase = "reading" /\ response.framing = "chunked"
    /\ Internal
    /\ UNCHANGED <<call, clock, observedAt, patience, attempts, pieces, response, takenAt, received>>

\* The body ends, wherever it is: short of the announced length too, which
\* http.client does not report.
CloseBody ==
    /\ phase = "reading"
    /\ response.framing = "chunked" => received = response.size
    /\ phase' = "decoding"
    /\ UNCHANGED <<call, clock, observedAt, patience, attempts, pieces, response, takenAt, received, result>>

-----------------------------------------------------------------------------
(* The rest of the run *)

\* Time passes while a socket call is pending.
Tick ==
    /\ phase \in Waiting /\ patience > 0
    /\ clock' = Smaller(clock + 1, MaxClock)
    /\ patience' = patience - 1
    /\ UNCHANGED <<phase, call, observedAt, attempts, pieces, response, takenAt, received, result>>

\* Mutant: The whole run starts over.
TimesOutAndRetries ==
    /\ phase \in {"requesting", "reading"} /\ patience = 0
    /\ phase' = "connecting" /\ patience' = call.timeout /\ attempts' = 1
    /\ response' = None /\ received' = 0 /\ pieces' = 0
    /\ UNCHANGED <<call, clock, observedAt, takenAt, result>>

\* Mutant: The timeout ends with the head.
TimesOutInHead ==
    /\ phase = "requesting" /\ patience = 0
    /\ Unavailable
    /\ UNCHANGED <<call, clock, observedAt, patience, attempts, pieces, response, takenAt, received>>

TimesOut ==
    /\ phase \in {"requesting", "reading"} /\ patience = 0
    /\ Unavailable
    /\ UNCHANGED <<call, clock, observedAt, patience, attempts, pieces, response, takenAt, received>>

\* read returns: as much as was asked for, or as much as was announced.
ReadEnds ==
    /\ phase = "reading"
    /\ \/ received = MaxBytes + 1
       \/ response.framing = "length" /\ received = response.size
    /\ phase' = "decoding"
    /\ UNCHANGED <<call, clock, observedAt, patience, attempts, pieces, response, takenAt, received, result>>

\* Mutant: The time is sampled when the document is there.
DecodeDatedNow ==
    LET o == Project(response.status, clock, call.ttl, call.max_scope)
    IN  /\ phase = "decoding"
        /\ IF /\ received <= MaxBytes /\ received = response.size
              /\ response.form = "object" /\ Supported(response.status) /\ ValidObservation(o)
           THEN PrintData(o) ELSE Unavailable
        /\ UNCHANGED <<call, clock, observedAt, patience, attempts, pieces, response, takenAt, received>>

\* Too long, cut short or malformed, not an object, or not the supported
\* projection: one error.  A body too deep raises RecursionError, and so may
\* the beginning of one; the beginning of any other body is not JSON.
Decode ==
    LET o        == Project(response.status, observedAt, call.ttl, call.max_scope)
        complete == received = response.size
        accepted == /\ complete /\ response.form = "object"
                    /\ Supported(response.status) /\ ValidObservation(o)
    IN  /\ phase = "decoding"
        /\ \/ received > MaxBytes /\ Unavailable
           \/ received <= MaxBytes /\ response.form = "deep" /\ Internal
           \/ received <= MaxBytes /\ response.form = "deep" /\ ~complete /\ Unavailable
           \/ received <= MaxBytes /\ response.form # "deep" /\ ~accepted /\ Unavailable
           \/ received <= MaxBytes /\ accepted /\ PrintData(o)
        /\ UNCHANGED <<call, clock, observedAt, patience, attempts, pieces, response, takenAt, received>>

Client == Start \/ ConnectTimesOut \/ TimesOut \/ ReadEnds \/ Decode

Endpoint ==
    \/ Refuse \/ Accept
    \/ \E r \in Responses : Respond(r)
    \/ SendFraming \/ SendHead
    \/ \E n \in 1..MaxBytes + 1 : SendBytes(n)
    \/ Break \/ BreakProtocol \/ CloseBody

Next == Client \/ Endpoint \/ Tick

Spec == Init /\ [][Next]_vars

\* The run is scheduled and time passes; of the endpoint nothing is assumed.
FairSpec == Spec /\ WF_vars(Client) /\ WF_vars(Tick)

-----------------------------------------------------------------------------
(* Properties *)

Printed == phase = "done" /\ result.data # None

TypeOK ==
    /\ phase \in Waiting \cup {"idle", "decoding", "done"}
    /\ call \in Calls
    /\ {clock, observedAt, takenAt} \subseteq 0..MaxClock
    /\ patience \in 0..MaxTimeout
    /\ attempts \in 0..call.addresses
    /\ pieces \in 0..MaxPieces
    /\ response \in Responses \cup {None}
    /\ received \in 0..MaxBytes + 1
    /\ phase \in {"reading", "decoding"} => response # None
    /\ phase \in Waiting \cup {"decoding"} => ValidCall(call)
    /\ phase = "done" =>
          /\ result.exit \in {0, 1, 2, 5}
          /\ result.data # None => result.exit \in {0, 5}

\* A consumer that honours the lifetime never acts on a status older than the
\* lifetime it asked for, however long the fetch took: the observation is dated
\* before the status was taken, not when it arrived (cli.py:142-147,
\* mesh_llm.py:79-84, 180-181).
LifetimeCoversStatus ==
    Printed => /\ result.data.observed_at <= takenAt
               /\ result.data.expires_at <= takenAt + call.ttl

\* What is printed stands for one whole document: received to its last byte,
\* within the limits, every node of it one candidate, in its order, and none
\* twice; a status that is cut short, too long, too wide or ambiguous is
\* refused and never trimmed (mesh_llm.py:101-135, models.py:226-228).
WholeStatusOnly ==
    Printed =>
        LET status == response.status
            nodes  == <<status.local>> \o status.peers
            shown  == result.data.candidates
        IN  /\ received = response.size /\ response.size <= MaxBytes
            /\ Len(nodes) <= MaxCandidates
            /\ Len(shown) = Len(nodes)
            /\ \A i \in DOMAIN nodes : shown[i].candidate = ProjectNode(nodes[i])
            /\ \A i \in DOMAIN shown : shown[i].local_node <=> i = 1
            /\ Cardinality({nodes[i].id : i \in DOMAIN nodes}) = Len(nodes)

\* The scope each discovery field signals by itself: "Return the widest status
\* signal" (mesh_llm.py:222).
Signals(d) ==
    { IF d.publication_state = "private" THEN "private_mesh" ELSE "public_mesh",
      IF d.discovery_scope \in {"private", "lan", "local"} THEN "private_mesh" ELSE "public_mesh",
      IF d.mesh_discovery_mode \in {"mdns", "private", "local"} THEN "private_mesh" ELSE "public_mesh",
      IF d.nostr_discovery THEN "public_mesh" ELSE "private_mesh" }

\* Exit 0 means that no signal of the status exceeds the maximum the caller
\* gave, and a maximum of one device is never satisfied; exit 5 that one does.
\* The scope printed, on the whole and for every candidate, is the widest.
ExitTellsTheWidestSignal ==
    Printed =>
        LET signals == Signals(response.status.discovery)
            fits(s) == ScopeRank(s) <= ScopeRank(call.max_scope)
        IN  /\ result.exit = 0 <=> \A s \in signals : fits(s)
            /\ call.max_scope = "device_only" => result.exit = 5
            /\ \A i \in DOMAIN result.data.candidates :
                  LET shown == result.data.candidates[i].observed_scope
                  IN  shown \in signals /\ \A s \in signals : ScopeRank(s) <= ScopeRank(shown)

\* No pace of the endpoint keeps the run longer than one timeout for each
\* address, each piece of framing and each byte: the timeout is not one of the
\* run (mesh_llm.py:97-101).  Said of the runs whose framing is counted in full.
RunIsShort ==
    pieces < MaxPieces => clock <= call.timeout * (attempts + pieces + received + 2)

\* A run whose framing ends ends in an envelope, although the endpoint may fall
\* silent at any point and send its bytes one by one (mesh_llm.py:97-103).  An
\* endpoint that sends interim responses or trailer lines for ever, each within
\* the timeout, keeps the run for ever: http.client bounds neither.
EveryObservationEnds == <>[][~SendFraming]_vars => <>(phase = "done")

\* "Provider transport or projection failure returns exit `2` with redacted
\* `OBSERVATION_UNAVAILABLE`" (docs/delivery-contract.md:309-311).
FailuresAreUnavailable ==
    phase = "done" /\ ValidCall(call) /\ result.data = None
        => result.exit = 2 /\ result.error = "OBSERVATION_UNAVAILABLE"
=============================================================================
