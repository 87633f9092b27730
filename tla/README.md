# LocusMesh: TLA+ models, checks and proofs

LocusMesh is an offline library and command line tool that decides whether a
planned route through a mesh of inference peers is contained in an operator's
policy (`admit`), and whether a chain of signed receipts proves that the route
was followed exactly (`verify`), with an optional database that lets every
nonce be accepted at most once. This directory models that core, checks it with
TLC and proves most of what it checks with TLAPS. Paths below are relative to the
repository.

## 1. The system

| Component | Code | State it keeps | Operations | Talks to |
|---|---|---|---|---|
| Wire contracts | `src/locusmesh/models.py` | none (frozen records) | construction with validators; `signing_payload` | everything |
| Digests and keys | `canonical.py`, `crypto.py` | none | `sha256_digest`, `commit_request`, `derive_key_id`, `verify_ed25519` | contracts |
| Admission policy | `policy.py` | none (the policy is an argument) | `topology_digest`, `policy_digest`, `admit_plan` | contracts, keys |
| Attestation | `attestation.py` | locals of the loop: previous receipt, credited evidence, reasons | `build_attestation`, `verify_attestation` | admission, keys, the ReplayStore port |
| Replay store | `replay.py`, `ports.py` | `_connection` of each object; the table `verified_nonce` of each database | `record_if_new` (through `_connect`), `close`, context manager | SQLite, the file system |
| CLI | `cli.py` | none between runs; files and the database outlive it | `doctor`, `probe`, `observe`, `admit`, `verify`, `demo`, `schema export` | all of the above, the clock |
| Mesh-LLM observer | `adapters/mesh_llm.py` | constructor parameters | `observe` = `_fetch` then `_project` | a loopback HTTP server |
| Bounded input | `io.py`, `adapters/fixture.py` | none | `load_json_model`, `load_yaml_model`, `snapshot` | the file system |
| Local signer | `adapters/local_signer.py` | a private key | `sign` | attestation |
| Schema export | `schema_export.py` | none | `export_schemas` | the file system |
| Demo | `demo.py` | none | `run_demo` | admission, attestation, store |

The library has no threads. Concurrency comes from several `verify` processes
(or several store objects) on one database file, from several exporters in one
directory, from an operator or a program that changes input files while commands
run, from the endpoint the observer talks to, and from time, which every window
is compared with. Failure comes from each statement of `_connect`, from SQLite's
busy timeout, from unreadable or unparsable files, from an endpoint that answers
nonsense, slowly, partly or never, and from processes that are killed between any
two steps.

What makes each part correct:

* **Admission** admits exactly the routes that are simple paths of the pinned
  graph through eligible peers inside all windows; the bounds it reports are
  kept by every hop; a stricter policy never admits more; authority a route
  does not use does not change its verdict; what expired stays expired.
* **Digests** of policy and topology depend on what the lists contain and never
  on their order, and a probe speaks of the policy whose digest it prints.
* **Attestation** accepts exactly the receipt chains that the pinned keys sign
  for this plan, policy and order; it does not raise; its decisions satisfy the
  validator that `model_copy` skips; the store is asked last.
* **Replay store**: record-if-absent is one test-and-set although connecting
  takes three steps; answers agree with the table; a half-made connection is
  never kept; rows are never rewritten.
* **CLI**: at most one run per database and nonce exits 0, whatever races,
  fails, dies or is retried; a store that fails never looks like an admission;
  an admission holds of the inputs that run read; every run ends.
* **Observer**: what it prints stands for one whole document, no older than the
  date it bears and for no longer than the lifetime asked for; the exit code
  tells the widest signal; it waits no longer than one timeout per address and
  piece, and ends once the endpoint's framing does.
* **Bounded input**: a text is loaded as it was at one instant, none of its
  entries is dropped, and of a file that rests the size limit is exact.
* **Schema export**: success of a run that was alone means that all files are of
  its version, whatever earlier runs left behind; runs of one version may overlap.
* **Demo**: its four decisions are those its exit code and summary promise.

## 2. Modules

```
NonceRegister                      Contracts <-------------- Observation
     ^ implements                      |                         |
     |                              Admission                 Observer <-- ObserverProofs
     |                              /  |   \
ReplayStore <- ReplayStoreProofs   /   |  AdmitCommand <- AdmitCommandProofs
     ^              ^        Digests   |                         ^
     | INSTANCE     | INSTANCE  ^  Attestation                   | INSTANCE
     |              |  DigestsProofs   |                         |
VerifyCli <--- VerifyCliProofs         |                         |
     . . . . . Passes . . . . .   Verification <-- Demo <-- VerificationProofs

InputFile <- InputFileProofs         SchemaExport <- SchemaExportProofs
```

Arrows without a word are EXTENDS, from the module that extends.

| Module | Models | State and actions against the code |
|---|---|---|
| `NonceRegister` | the promise of `ReplayStore.record_if_new` (`ports.py:38-43`) | `spent` is the memory, `TestAndSet` the whole call |
| `ReplayStore` | `SQLiteReplayStore` (`replay.py`) | `connection` is `_connection`; `rows` the table; `layout` what exists at the path; `pc` the statement the call is at. `mkdir`, `connect` with the WAL pragma, `CREATE TABLE` and `INSERT` are one action each, with an action for the failure of each; `Return`, `Close` and `Crash` end a call, a connection, a process |
| `Contracts` | `models.py`, `canonical.py`, `crypto.py` | records and their validators; digests, keys, signatures |
| `Admission` | `policy.py` | `AdmitPlan` is `admit_plan` as a function of plan, policy and time |
| `AdmitCommand` | `locusmesh admit` repeated | `Admit` evaluates, `Tick` is the clock, `AmendPolicy` an edit of the policy file |
| `Digests` | `topology_digest`, `policy_digest` over lists; `locusmesh probe` | `pinned` and `fixture` are the two files, with lists in their written order; each edit is an action |
| `Attestation` | the pure parts of `attestation.py` | `BuildAttestation`, `ReceiptReasons` (one turn of the loop), `Deny`, `DenyPlan`, `AdmitAttestation` |
| `Verification` | `verify_attestation` | locals are variables (`previousReceipt`, `credited`, `reasons`, `index`), one action per turn of the loop, per way out of it and per return |
| `Demo` | `demo.py` | its fixed policy, plans and attestations as arguments of the modelled functions |
| `VerifyCli` | `locusmesh verify` as processes | `phase` is the line of `_run` a process is at; `ReplayStore` is instantiated with one handle per process, and every step of it is a step of `StoreStep`, `StoreAnswers`, `CloseStore` or `Die` |
| `Observation` | the records of `models.py` and `_project` of `adapters/mesh_llm.py` | documents, candidates, scope lattice, the validator of an observation |
| `Observer` | `locusmesh observe mesh-llm` | `phase` is the call `_fetch` waits in, `patience` what is left of its timeout; the endpoint accepts, refuses, answers, sends framing and bytes, breaks off; `Decode` is the rest of `observe` with the command's exit codes |
| `InputFile` | `io.py`, `adapters/fixture.py` | `phase` goes stat, open, read, parse; the file is replaced, appended to and rewritten beside it |
| `SchemaExport` | `schema_export.py` | `at` is the file an exporter is at; truncating and writing it are two steps, each may fail |
| `ReplayStoreProofs` | | theorems about `ReplayStore`, among them that it implements `NonceRegister` |
| `AdmitCommandProofs` | | what it means that `admit_plan` finds no reason, and theorems about `AdmitCommand` |
| `DigestsProofs` | | what a sort by counting does to a list, and theorems about `Digests` |
| `VerifyCliProofs` | | theorems about `VerifyCli`, over those about its store |
| `VerificationProofs` | | theorems about `Verification` and `Demo`, over those about admission |
| `ObserverProofs` | | theorems about `Observer` |
| `InputFileProofs` | | theorems about `InputFile` |
| `SchemaExportProofs` | | theorems about `SchemaExport` |
| `MC*` | | instances for TLC |

Definitions whose comment starts with "Mutant:" are the plausible mistakes that
the properties are tested against: each is a drop-in for the definition it
precedes, and with it in place the property named in `PROJECT.json` fails.

### Abstractions

* Names, nonces, commitments, model and runtime digests are opaque values; times
  are integers. Only equality and order of them are used in the code.
* `Sha256Digest` is a tag around its argument: injective, as canonical JSON and
  SHA-256 are taken to be. `Sign` is an ideal signature, with the key standing
  for the pair; a verification with any other key or payload fails.
  `CanonicalKeys` are the public keys that decode, so keys that do not are there
  too.
* A topology's peers are a function from ids (the validator demands unique ids)
  and its edges a set, except in `Digests`, where files have lists in some order
  and times have an offset. Reason codes are a set of tuples `<<code, ...>>`
  instead of a de-duplicated list of strings; nothing in the code depends on
  their order.
* Sorting in `Digests` is Python's stable sort, stated by what it does: an entry's
  place is the number of entries that sort before it, of equal ones those that were
  written before it. Peer ids are integers in the order of their code points. Only
  files that load are considered (unique peers, edges between known peers, no edge
  or intent twice, a window that is not empty), since a command computes no digest
  of any other.
* A receipt is a record of its *binding* (the fifteen fields the plan, the
  policy and the position fix), the peer's claims (`evidence_level`,
  `observed_at`, `key_id`) and the signature over all of them.
* An SQLite statement is atomic and durable, or fails and leaves nothing. After
  a failed WAL pragma the file that `connect` created may remain. A `:memory:`
  database lives as long as its connection. A connection that a failed `_connect`
  had opened is dropped with the exception; in the program its traceback keeps it
  until the handler in `main` ends. Waiting for a locked database is no state: a
  statement that waits is one that has not been taken yet.
* In `VerifyCli`, what `verify_attestation` computes before it turns to the store
  is the constant operator `Passes`, which stands for `ExactChain` of module
  `Verification`. What `VerifyCli` needs of it is `AcceptsExactlyTheExactChains`
  there: with a store that answers in one step, a call turns to the store exactly
  when the chain is exact, and what it returns says which. Loading a file is one step that succeeds or
  fails. The policy is read when its turn comes, the clock only in `Verify`, as
  in `cli.py:163-176`.
* In `Observer` time passes only while a socket call waits, up to its timeout;
  what is not body (an interim response, a header, a chunk's length) is a piece of
  framing. `http.client` bounds neither interim responses nor trailer lines, so an
  endpoint may send framing for ever: the counter of pieces stops at `MaxPieces`
  and the clock at `MaxClock`, while the run goes on. Limits of the code (1 MiB,
  256 candidates, 256 models, 60 seconds of lifetime, 30 of timeout) are constants,
  scaled down in the runs and arbitrary in the proofs. The beginning of a body is
  taken for malformed; `json.loads` would accept one that lacks only white space at
  its end, which is the whole document still. Environment proxies, which `urllib`
  may honour for a loopback address, are left out.
* In `InputFile` a text is a sequence of items, each of one byte: entries of a
  mapping and marks for what a parser ends at or chokes on. A rename, an append
  and a rewrite in place are the three ways a file changes; a pipe has no size.
* In `SchemaExport` a version of the program is the text it writes; a shorter text
  over a longer one leaves its end when two runs have the file open.
* The times of `Demo` are scaled (days, hours and minutes to 3, 2 and 1), keeping
  the order of every two instants the code compares.

## 3. Runs

| Run | Question | Bounds and why they are enough |
|---|---|---|
| `replay_store` | Do racing, failing, crashing calls amount to a test-and-set register, is an open handle usable, and do answers agree with tables? | Two handles on one file and one on `:memory:`, two nonces, two entries, symmetric in each. A race has two participants and both can win or lose; two nonces show that rows do not interfere; two entries tell whose commitment was kept. Handles reuse and reconnect without bound. |
| `admit` | Does admission admit exactly contained routes and answer change as containment demands? | Up to three hops, so that a middle leg exists; two starting policies; an edit for every field `admit_plan` reads, two edits deep; windows that open and close inside `Horizon` 3, so each boundary instant is met from both sides. |
| `digests` | Do the digests tell content from order, and does a probe speak of the policy? | Three peers and three edges, two with one source, so every sort key has a tie to break; three edits of either file, so that a change can be undone by a reordered one. |
| `verification` | Does the loop accept exactly the exact chains, decide consistently, and spend nonces only on admission? | Plans of one and two hops (a link needs two), four policies, receipts at every time, level and order, and each of the fifteen bound fields wrong in either position with a valid signature; three receipts where two belong. The nonce is shared by three plans. The demo's policy, plans and chains are among the arguments. |
| `verify_cli` | Is what exits 0 unique per nonce, recorded, and sound under the policy it read? Does every command end? | Two processes on one file, two sound attestations with one nonce that hold under different policies, one that is never sound, policy replaced at any time, two commands: a race, or a run and its retry after any failure or death. |
| `observer` | Does what is printed stand for one whole, dated document, does a run wait only as long as was paid for, and does it end once the framing ends? | Documents at each bound of `_project` and one beyond (three candidates of three, two models of two); bodies of the limit, one byte more and two more in each framing; every discovery field public in turn; lifetimes and timeouts at both ends and beyond; a host of two addresses. Any amount of framing: none and one piece are counted (`MaxPieces` 2), and the clock up to 15, above the longest time that `RunIsShort` allows such a run (14). |
| `input_file` | Is a text loaded whole, as of one instant, within the limit, with every entry? | Texts up to three bytes under a limit of two; three changes, so that one falls between each two of stat, open and the reads. |
| `schema_export` | What does success mean beside failures, deaths and other exporters? | Two exporters, two versions with texts of one and two bytes, two files instead of twelve: the one being written and one before or after it. Exporters start again without bound. |
| `evidence_on_denial` | Finding 1 | The instance of `verification`. |
| `store_failure_code` | Finding 2 | One command is enough. |
| `observer_failure_code` | Finding 3 | The instance of `observer`. |
| `input_failure_code` | Finding 4 | The instance of `input_file`. |

Deadlock is checked in `replay_store`, `admit`, `verification`, `input_file` and
`schema_export`, which never stop. `VerifyCli` stops once `RunLimit` commands have
been started and nothing else may change, `Observer` is one run that ends, and
`Digests` stops after `Edits` edits: there the check is off. `RunLimit`, `Horizon`,
`Edits`, `Writes`, `MaxLength`, `MaxPieces` and `MaxClock` are bounds of the models
only; the code has no such limits. The last two end no behaviour, they only stop
counting.

**Fairness.** `VerifyCli` asks for weak fairness of the steps a command takes by
itself: a process that is not killed keeps being scheduled, and an SQLite
statement ends or raises within its busy timeout (`sqlite3.connect` uses its
default of five seconds, `replay.py:20`). Nothing is assumed about starting
commands, about success rather than failure, about the clock or the operator.
`Observer` asks for weak fairness of the client's own steps and of time, since a
socket call with a timeout ends; nothing is assumed about the endpoint, which may
fall silent at any point or send framing for ever. `EveryObservationEnds` has the
end of the framing as its hypothesis, `<>[][~SendFraming]_vars`: an endpoint that
sends interim responses or trailer lines for ever, each within the timeout, keeps
the run for ever, and nothing in `mesh_llm.py:97-103` stops it. `RunIsShort` says what
such a run has paid for as long as the pieces are counted. The other modules state
no fairness and no liveness.

**Findings.**

1. `_deny` (`attestation.py:86-101`) copies the plan admission and keeps its
   `effective_evidence`, the weakest *manifest* level. A denial whose receipts
   carry only `observed`, or do not verify, therefore reports `peer_asserted`,
   while `docs/threat-model.md:17-18` lists that the returned decision reports
   only the evidence level the verifier can support. Run `evidence_on_denial`.
2. `Path.mkdir` (`replay.py:19`) raises `OSError`, which `main` handles together
   with unreadable input (`cli.py:258`): code `INPUT_INVALID` with the text of the
   exception, where `docs/delivery-contract.md:351` promises a redacted
   `STATE_UNAVAILABLE`. Run `store_failure_code`.
3. `_fetch` (`adapters/mesh_llm.py:102`) catches four classes of exceptions.
   `http.client.HTTPException` (a reply that is not HTTP, chunks that are cut
   short) is none of them, and neither is the `RecursionError` of a body nested
   too deep: exit 1, `INTERNAL_ERROR`, where `docs/delivery-contract.md:309-311`
   promises exit 2, `OBSERVATION_UNAVAILABLE`. Run `observer_failure_code`.
4. A YAML key that cannot be hashed (`io.py:43`) and an input nested too deep raise
   what no handler for input expects: exit 1, `INTERNAL_ERROR`, where
   `docs/delivery-contract.md:305-306` promises exit 2, `INPUT_INVALID`. Run
   `input_failure_code`.

Short of a finding: the limit of 1 MiB (`docs/runbook.md:51`) is one of `stat`, so
a pipe, whose size is 0, and a file that grows after it are read to their end
(`io.py:16-18`). `RestingInputIsBounded` says for which files the limit is exact.

## 4. Proofs

`ReplayStoreProofs` proves, for any number of handles, databases, nonces and
entries and from `StoreAssumption` alone (handles are mapped to databases, each
`:memory:` handle has its own, the two "nothing" values are not values):

* `TypeCorrect`, `OneWinner`, `AnswersAgree`, `ConnectedMeansUsable`: the four
  invariants of `ReplayStore`;
* `PermanentRows`: no step rewrites or removes a row of a database file;
* `RegisterImplemented`: under the mapping of `ReplayStore` every step is a step of
  `NonceRegister` or changes nothing it can see. The `INSERT` is the test-and-set;
  starting a call is `Ask`, raising is `Fail`, a return or a crash that ends a call
  is `Leave`, and the statements of `_connect`, `close` and a crash between calls
  are stutters. A register that answers again must find the row that the first
  answer was about, which is the invariant below.

`AtMostOneWinner` is not inductive. The boolean of `record_if_new` is decided by
the `INSERT` and delivered later, so that two calls cannot both be told "new"
follows only because a winner's row is in the table from then on
(`AnswersMatchTheTable`), because the row outlives every failure, and because a
call carries its own arguments until it returns. `CallInFlight` says the last
point: which statement a call is at fixes whether it has arguments, an answer and
a connection. `IInv` is their conjunction; `InitEstablishes` and `Preservation`
show it inductive, with one step per action, and `ForgetIsLocal` is the lemma on
`:memory:` databases that vanish with their connection.

`VerifyCliProofs` proves, for any number of processes, databases, attestations and
policies, whatever `Passes` is, and from `CliAssumption` (which instantiates
`StoreAssumption`): `TypeCorrect`, `HandlesAreClosed`,
`AdmissionsSpeakOfTheirInputs`, `OnlyEvidenceIsPersisted`, `AdmittedMeansRecorded`
and `AtMostOneAdmission`. It instantiates `ReplayStoreProofs` with the processes for
handles and takes its `IInv` over: `StoreMoves` shows that each step of the
command is a step of the store or leaves it alone, so the store's `Preservation`
applies. `CliInv` adds `Control`, which ties handle, call and outcome to the phase.
On top of it `Inputs` follows what was read and sampled, `Evidence` what had passed
before a row was written, and `Unique` counts: the past admissions of a nonce
and those about to be printed are together at most one, because each needs a grant
of its own and a grant is given once. That is the strengthening
`OneAdmissionPerNonce` needs, which only sees the past ones.

`ObserverProofs` proves, for every set of command lines and responses and all limits
(`ObserverAssumption`; `WholeStatusOnly` also needs `DocumentAssumption`, that a
JSON list is a finite sequence): `TypeCorrect`, `LifetimeCovers`, `ExitTellsScope`,
`PrintsTheWholeStatus` and `RunsAreShort`. `Provenance` orders the three instants of
a run (dated, answered, now) and says that what is printed is the accepted
projection of a response that was received to its announced size, within the
limit. `CandidatesAreTheNodes` says what the projection makes of each node, and
`AllDifferent` turns the validator's unique ids into as many ids as nodes. `Paid`
is the potential behind `RunIsShort`: clock and remaining patience together are
covered by one timeout for each address, each piece and each byte so far, and one
more for the request and the body. It speaks of runs whose pieces are below
`MaxPieces`, and so counted exactly. `MaxPieces` and `MaxClock` are any numbers, so
every finite run is covered by some choice of them.

`AdmitCommandProofs` first proves `AdmissibleMeans`: for every valid plan, valid
policy and time, the collection of reasons is empty exactly when the route fits as a
whole, every hop is pinned and every pinned manifest fits the plan. The rest
builds on it, from `AdmitAssumption` (plans and starting policies satisfy the
validators) and `NoneAssumption` (`None` is no level and no intent), for every
set of plans and policies and every relation between a policy file and its next
version that leads to a policy that loads:

* `TypeCorrect`, whose one hypothesis is that no digest is `None`;
* `AdmitsExactlyContained`: the code's check by check collection means the same as
  `RouteContained`, which states containment for the path as a whole;
* `Tightening`: each half of `AdmissibleMeans` is monotone in the policy;
* `UnusedAuthority`: the reasons are a function of what `SameForThePlan` compares;
* `Expiry`: the invariant is that the last decision was made of this plan under
  some valid policy at a time not after now; equal digests name equal policies,
  and a window that was over then is over now;
* `ReportedBounds`: by the same invariant the decision is `AdmitPlan` of the
  current policy at an earlier time, and `WidestAndWeakest` says what
  `_minimum_scope` and `_minimum_evidence` return.

`DigestsProofs` proves, for lists of any length in any order and any number of edits,
`DigestMeans` and `ProbeMeans`, from `DigestsAssumption` (the files it starts from load,
and there is a plan). `FilesKeepLoading` is the invariant, since an edit after which
a file no longer loads is left out; the rest is about the operators. `Sorted` puts each entry at the
place that the number of earlier entries gives it:

* what sorts before an entry is, in a list without repetition, the same in every
  list with the same entries (`EarlierCounts`, through the bijection from positions
  to entries), so an entry has the same place in each (`OwnPlace`);
* two entries never share a place, because what sorts before the smaller is a
  proper part of what sorts before the larger, so by counting every place is taken
  (`EveryPlace`) and the sorted list is a function of the set of entries
  (`SameSorted`);
* that needs each order to be strict and total on the entries of a file that loads.
  `PeersOrdered`, `EdgesOrdered` and `IntentsOrdered` show it: peers by their unique
  ids, intents by their ranks, edges by source and then target. With source alone
  `EdgesOrdered` is false, which is the mutant of that definition.

`TopologyDigestTells` and `PolicyDigestTells` then say that digests are equal exactly
for equal contents, and `SameCounts` that such topologies have as many peers and
edges, which is what a probe prints.

`VerificationProofs` proves, for every set of valid attestations and policies
(`VerificationAssumption`: both satisfy their validators, receipts and attestations
are not `None`; `ResultsAreNotNone`: neither is a digest or a decision), all
that `Verification` is checked for: `TypeCorrect`, `ExactVerdict`, `Total`,
`ConsistentDecisions`, `CarriedEvidence`, `NoncesOfAdmissions`, `HonestyPasses` and
`DemoHolds`; and one thing no run asks, `AllFaultsReported`.

* `Admitting` is `AdmitCommandProofs` instantiated with the plans and policies of
  the calls: its assumptions are proved (`AdmissionAssumptions`), and its
  `AdmissibleMeans` is about the same `admit_plan` (`SameAdmission`).

* `ReceiptFits` is about one turn of the loop: for an admissible plan the collection
  of reasons at a position is empty exactly when the receipt there is the
  `ExactReceipt`. It goes through the three sources of reasons (manifest, binding
  and signature, evidence and time) and uses `AdmissibleMeans` for what admission
  has already settled.
* `AcceptsExactlyTheExactChains` speaks of the end of the loop. `Loop` is what holds on
  the way: the plan was admitted before the loop began, `previousReceipt` is the
  receipt before `index`, `credited` is the evidence of the receipts seen, and
  `reasons` is what is wrong with their number (if anything) and what was found at
  each earlier position, no more and no less. At the end that is every position
  that has a hop (`AllFaults`), and when it is nothing the links between neighbours
  make the chain.
* `Outcome` is a second inductive layer, over `Loop`: it says for a returned decision
  which of the three copies of the plan admission it is, and of what; `Denial` says
  with which reasons. The part of `AcceptsExactlyTheExactChains` about what is
  returned, `DecisionsAreConsistent`, `ReportedEvidenceIsCarried` and
  `OnlyAdmissionConsumesNonces` follow.
* `AllFaultsReported` says that a denial conceals nothing: it has all reasons of
  the plan admission, or all faults of an admissible plan's receipts, or is a replay.
* `HonestyPasses` is about `build_attestation`, which is recursive. A recursive
  function is a `CHOOSE` and says nothing until such a function exists: `ChainExists` takes
  the smallest number of hops for which it would not (`Least`, from the
  well-foundedness of the naturals, on a set) and extends the chain that is one
  shorter. `BuiltIsExact` then checks each receipt of that chain against
  `ExactReceipt`.
* `DemoHolds` puts the demo's data into these. Its honest chains are built from
  pinned keys inside all windows, so they are exact; `OnlyTheSignature` says of any
  receipt without fault that another signature on it is found by the signature
  check alone, so `AllFaults` of the tampered chain is that one reason; and the
  reasons for the escape are computed. Its hypothesis is that the demo's three
  public keys decode (`DemoPeers \subseteq CanonicalKeys`), as keys made by
  `LocalEd25519Signer` do.

`InputFileProofs` proves, for every set of texts and every limit, from
`InputAssumption`: `LoadsOneInstant`, `ExactLimit` and `EveryEntryCounts`.
`LoadedAtOneInstant` needs to know what the descriptor holds: `ReadsABeginning` says
that the text so far is the beginning of the file that was opened, which had its
present text under the name at some instant of the load, and `KeepsWhatIsRead`
that a change which does not rewrite in place only adds behind what was read.
`Resting` follows a file that nobody touches from `stat` to the end of the read.

`SchemaExportProofs` proves, for any number of exporters, versions and files, from
`ExportAssumption`: `AloneSucceeds` and `SameVersionAgrees`. `AloneRun` says of a run
nobody joined that the files it has passed are its own text; `OneVersion` says of
runs of one version that every file is a beginning of that text, and that what a
run has passed is whole, or open in some run, or broken by one that was stopped.

Only model-checked: liveness (`EveryRunEnds`, `EveryObservationEnds`), which needs
ENABLED. In the run of the second, framing without end is among the behaviours,
and only its hypothesis sets them aside. Every invariant and every action property of a passing run is proved.

## 5. Hazards

`PROJECT.json` lists each with the line where it bites. The properties follow
them: races on one nonce and crashes after the `INSERT` (`OneAdmissionPerNonce`),
failures half way through `_connect` (`OpenMeansTable`), the order of the store
call (`OnlyAdmissionConsumesNonces`, `InvalidNeverPersisted`), a policy replaced
during a run (`AdmissionsNameTheirInputs`), state carried through the receipt
loop (`AcceptsExactlyTheExactChains`, `NothingRaises`), half-open windows, the
off-by-one of pairing hops, `model_copy` without validation
(`DecisionsAreConsistent`), sort keys that leave ties (`DigestTellsContent`), an
endpoint that is slow, cut short or too large (`RunIsShort`, `WholeStatusOnly`,
`LifetimeCoversStatus`), disagreeing signals of scope (`ExitTellsTheWidestSignal`), a
file that changes under the loader (`LoadedAtOneInstant`), and exports that break
off or overlap (`SuccessMeansAllFiles`, `OverlappingRunsAgree`). Four properties
stop short on purpose, each with a note there: a file rewritten in place while
it is read may be loaded torn, a pipe has no size limit, overlapping exports of
two versions may leave files of both, and framing without end keeps an observation
for ever. How long an admission takes to be printed after its time was sampled is
covered by no property. The code promises nothing about these.

## 6. Not modelled, and the plan

Not modelled: argument parsing and the wording of output; `doctor`, which reads
versions and has no state; proxies of the environment; the release check
`scripts/smoke_installed_observer.py`, which runs the installed command once
against a fixed server; `__init__.py` and `__main__.py`; the HMAC of
`commit_request`, whose result is only ever compared; regular expressions and
length bounds of names.

What could come next:

1. Liveness from proved parts: the steps of a command decrease a measure (what is
   left of `_connect`, of the loop over receipts, of `Paid` in `ObserverProofs`), so
   that fairness is all that is left to assume.
2. One module that composes `VerifyCli` with the loop of `Verification` in each
   process, instead of `Passes`: a larger state space, and no claim that the two
   together do not make already.
