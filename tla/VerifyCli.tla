------------------------------ MODULE VerifyCli ------------------------------
(***************************************************************************)
(* `locusmesh verify` (src/locusmesh/cli.py) as a process: several of them *)
(* run at once over one policy file that the operator may replace, each    *)
(* with a SQLiteReplayStore handle of its own on a database they may       *)
(* share, under one clock.  A process may die between any two steps, and a *)
(* caller may run the command again.  What verify_attestation computes     *)
(* before it turns to the store is the constant operator Passes (module    *)
(* Verification is about that part); the store is module ReplayStore.      *)
(***************************************************************************)
EXTENDS Integers, FiniteSets

CONSTANTS
    Processes,         \* verifier processes, each owning the handle of its name
    Attestations,      \* the attestation files callers may name
    Policies,          \* what the policy file may contain
    NonceOf,           \* [Attestations -> Nonces]
    Passes(_, _, _),   \* attestation, policy, time: every check but the store
    Horizon,           \* the last instant considered
    RunLimit,          \* how many times the command is started
    \* of ReplayStore
    Stores, StoreOf, Private, Nonces, NoNonce, NoEntry

ASSUME CliAssumption ==
    /\ NonceOf \in [Attestations -> Nonces]
    /\ NoEntry \notin Attestations \cup Policies
    /\ NoNonce \notin Nonces
    /\ StoreOf \in [Processes -> Stores] /\ Private \subseteq Processes
    /\ \A p \in Private, q \in Processes : StoreOf[q] = StoreOf[p] => q = p
    /\ Horizon \in Nat /\ RunLimit \in Nat
    /\ \A a \in Attestations, q \in Policies, t \in 0..Horizon : Passes(a, q, t) \in BOOLEAN

VARIABLES
    phase,             \* how far the command of each process has come
    job,               \* its attestation and whether --nonce-store was given
    loaded,            \* the policy it read, with the time it read it
    sampled,           \* its _now()
    outcome,           \* what it is going to print
    policyFile, clock,
    runs,              \* how many commands were started
    admissions,        \* history: exits 0 with a store, per <<store, nonce>>
    passed,            \* history: attestations that passed every check before the store
    epochs,            \* history: <<policy, time>> pairs of the policy file
    \* of ReplayStore
    layout, rows, connection, pc, nonce, entry, answer, granted

Store == INSTANCE ReplayStore WITH Handles <- Processes, Entries <- Attestations

cliVars == <<phase, job, loaded, sampled, outcome>>
world == <<policyFile, clock, epochs>>
history == <<runs, admissions, passed>>
storeVars == <<layout, rows, connection, pc, nonce, entry, answer, granted>>
vars == <<cliVars, world, history, storeVars>>

Phases == {"idle", "policy", "attestation", "verify", "store", "close", "emit"}
Outcomes == {"none", "ADMITTED", "DENIED", "REPLAY_DETECTED", "INPUT_INVALID",
             "STATE_UNAVAILABLE", "INTERNAL_ERROR"}

\* The exit code of main for each outcome.
ExitCode(o) ==
    CASE o = "ADMITTED" -> 0
      [] o \in {"DENIED", "REPLAY_DETECTED"} -> 4
      [] o \in {"INPUT_INVALID", "STATE_UNAVAILABLE"} -> 2
      [] o = "INTERNAL_ERROR" -> 1

NoJob == [attestation |-> NoEntry, stored |-> FALSE]
Unread == [policy |-> NoEntry, at |-> 0]

Init ==
    /\ phase = [p \in Processes |-> "idle"]
    /\ job = [p \in Processes |-> NoJob]
    /\ loaded = [p \in Processes |-> Unread]
    /\ sampled = [p \in Processes |-> 0]
    /\ outcome = [p \in Processes |-> "none"]
    /\ policyFile \in Policies
    /\ clock = 0
    /\ runs = 0
    /\ admissions = [k \in Stores \X Nonces |-> 0]
    /\ passed = {}
    /\ epochs = {<<policyFile, 0>>}
    /\ Store!Init

-----------------------------------------------------------------------------
(* The world around the processes *)

Tick ==
    /\ clock < Horizon
    /\ clock' = clock + 1
    /\ epochs' = epochs \cup {<<policyFile, clock + 1>>}
    /\ UNCHANGED <<policyFile, cliVars, history, storeVars>>

ReplacePolicy ==
    /\ policyFile' \in Policies \ {policyFile}
    /\ epochs' = epochs \cup {<<policyFile', clock>>}
    /\ UNCHANGED <<clock, cliVars, history, storeVars>>

-----------------------------------------------------------------------------
(* One command *)

Goto(p, ph) == phase' = [phase EXCEPT ![p] = ph]

\* Mutant: The store is left open.
FinishUnclosed(p, o) ==
    /\ outcome' = [outcome EXCEPT ![p] = o]
    /\ Goto(p, "emit")

\* Leave the body of _run with o to print; the with statement closes the store.
Finish(p, o) ==
    /\ outcome' = [outcome EXCEPT ![p] = o]
    /\ Goto(p, IF job[p].stored THEN "close" ELSE "emit")

Start(p, a, stored) ==
    /\ phase[p] = "idle" /\ runs < RunLimit
    /\ runs' = runs + 1
    /\ job' = [job EXCEPT ![p] = [attestation |-> a, stored |-> stored]]
    /\ Goto(p, "policy")
    /\ UNCHANGED <<loaded, sampled, outcome, world, admissions, passed, storeVars>>

LoadPolicy(p) ==
    /\ phase[p] = "policy"
    /\ loaded' = [loaded EXCEPT ![p] = [policy |-> policyFile, at |-> clock]]
    /\ Goto(p, "attestation")
    /\ UNCHANGED <<job, sampled, outcome, world, history, storeVars>>

LoadAttestation(p) ==
    /\ phase[p] = "attestation"
    /\ Goto(p, "verify")
    /\ UNCHANGED <<job, loaded, sampled, outcome, world, history, storeVars>>

\* Mutant: A file that cannot be loaded is passed over.
LoadNothing(p) ==
    /\ phase[p] \in {"policy", "attestation"}
    /\ Goto(p, IF phase[p] = "policy" THEN "attestation" ELSE "verify")
    /\ UNCHANGED <<job, loaded, sampled, outcome, world, history, storeVars>>

\* Either file is missing, oversized or malformed, or raises what nobody expects
\* (module InputFile); no store object exists yet.
LoadFails(p) ==
    /\ phase[p] \in {"policy", "attestation"}
    /\ \E o \in {"INPUT_INVALID", "INTERNAL_ERROR"} : outcome' = [outcome EXCEPT ![p] = o]
    /\ Goto(p, "emit")
    /\ UNCHANGED <<job, loaded, sampled, world, history, storeVars>>

\* Mutant: The nonce is recorded whatever verification says.
RecordFirst(p) ==
    LET a == job[p].attestation
        ok == Passes(a, loaded[p].policy, clock)
    IN  /\ phase[p] = "verify"
        /\ sampled' = [sampled EXCEPT ![p] = clock]
        /\ passed' = IF ok THEN passed \cup {a} ELSE passed
        /\ Store!RecordIfNew(p, NonceOf[a], a)
        /\ Goto(p, "store")
        /\ UNCHANGED <<job, loaded, outcome, world, runs, admissions>>

\* Mutant: The policy file is read once more, for the verification only.
VerifyUnderTheFile(p) ==
    LET a == job[p].attestation
        ok == Passes(a, policyFile, clock)
    IN  /\ phase[p] = "verify"
        /\ sampled' = [sampled EXCEPT ![p] = clock]
        /\ passed' = IF ok THEN passed \cup {a} ELSE passed
        /\ Finish(p, IF ok THEN "ADMITTED" ELSE "DENIED")
        /\ UNCHANGED <<job, loaded, world, runs, admissions, storeVars>>

\* Sample the clock and verify; only what passes reaches the store.
Verify(p) ==
    LET a == job[p].attestation
        ok == Passes(a, loaded[p].policy, clock)
    IN  /\ phase[p] = "verify"
        /\ sampled' = [sampled EXCEPT ![p] = clock]
        /\ passed' = IF ok THEN passed \cup {a} ELSE passed
        /\ UNCHANGED <<job, loaded, world, runs, admissions>>
        /\ \/ /\ ok /\ job[p].stored
              /\ Store!RecordIfNew(p, NonceOf[a], a)
              /\ Goto(p, "store")
              /\ UNCHANGED outcome
           \/ /\ ~(ok /\ job[p].stored)
              /\ Finish(p, IF ok THEN "ADMITTED" ELSE "DENIED")
              /\ UNCHANGED storeVars

\* _connect and INSERT, as the store takes them.
StoreStep(p) ==
    /\ phase[p] = "store"
    /\ pc[p] \notin {"answered", "raising"}
    /\ Store!Advance(p)
    /\ UNCHANGED <<cliVars, world, history>>

\* Mutant: The boolean of record_if_new is ignored.
AdmitWhateverIsSaid(p) ==
    /\ phase[p] = "store"
    /\ Store!Return(p)
    /\ Finish(p, IF answer[p] \in {"new", "seen"} THEN "ADMITTED" ELSE "STATE_UNAVAILABLE")
    /\ UNCHANGED <<job, loaded, sampled, world, history>>

\* Mutant: An unavailable store is taken for no store.
FailOpen(p) ==
    /\ phase[p] = "store"
    /\ Store!Return(p)
    /\ Finish(p, IF answer[p] = "seen" THEN "REPLAY_DETECTED" ELSE "ADMITTED")
    /\ UNCHANGED <<job, loaded, sampled, world, history>>

\* Mutant: A failed store is tried again, for ever.
RetryStore(p) ==
    /\ phase[p] = "store"
    /\ Store!Return(p)
    /\ \/ answer[p] = "new" /\ Finish(p, "ADMITTED")
       \/ answer[p] = "seen" /\ Finish(p, "REPLAY_DETECTED")
       \/ answer[p] \notin {"new", "seen"} /\ Goto(p, "verify") /\ UNCHANGED outcome
    /\ UNCHANGED <<job, loaded, sampled, world, history>>

\* record_if_new returns, or an exception reaches main: sqlite3.Error has a
\* handler of its own, any other OSError shares one with unreadable input.
StoreAnswers(p) ==
    /\ phase[p] = "store"
    /\ Store!Return(p)
    /\ \/ answer[p] = "new" /\ Finish(p, "ADMITTED")
       \/ answer[p] = "seen" /\ Finish(p, "REPLAY_DETECTED")
       \/ answer[p] = "sqlite3.Error" /\ Finish(p, "STATE_UNAVAILABLE")
       \/ answer[p] = "OSError" /\ Finish(p, "INPUT_INVALID")
    /\ UNCHANGED <<job, loaded, sampled, world, history>>

\* __exit__; a handle that never connected has nothing to close.
CloseStore(p) ==
    /\ phase[p] = "close"
    /\ Goto(p, "emit")
    /\ \/ Store!Close(p)
       \/ connection[p] = "none" /\ UNCHANGED storeVars
    /\ UNCHANGED <<job, loaded, sampled, outcome, world, history>>

\* main prints the envelope and returns the exit code.
Emit(p) ==
    LET key == <<StoreOf[p], NonceOf[job[p].attestation]>>
    IN  /\ phase[p] = "emit"
        /\ admissions' = IF ExitCode(outcome[p]) = 0 /\ job[p].stored
                         THEN [admissions EXCEPT ![key] = @ + 1] ELSE admissions
        /\ Goto(p, "idle")
        /\ job' = [job EXCEPT ![p] = NoJob]
        /\ loaded' = [loaded EXCEPT ![p] = Unread]
        /\ sampled' = [sampled EXCEPT ![p] = 0]
        /\ outcome' = [outcome EXCEPT ![p] = "none"]
        /\ UNCHANGED <<world, runs, passed, storeVars>>

\* The process is killed; nothing is printed.
Die(p) ==
    /\ phase[p] # "idle"
    /\ Goto(p, "idle")
    /\ job' = [job EXCEPT ![p] = NoJob]
    /\ loaded' = [loaded EXCEPT ![p] = Unread]
    /\ sampled' = [sampled EXCEPT ![p] = 0]
    /\ outcome' = [outcome EXCEPT ![p] = "none"]
    /\ \/ Store!Crash(p)
       \/ pc[p] = "idle" /\ connection[p] = "none" /\ UNCHANGED storeVars
    /\ UNCHANGED <<world, history>>

-----------------------------------------------------------------------------
Proceed(p) ==
    \/ LoadPolicy(p) \/ LoadAttestation(p) \/ LoadFails(p)
    \/ Verify(p)
    \/ StoreStep(p) \/ StoreAnswers(p) \/ CloseStore(p)
    \/ Emit(p)

Next ==
    \/ Tick
    \/ ReplacePolicy
    \/ \E p \in Processes :
          \/ \E a \in Attestations, stored \in BOOLEAN : Start(p, a, stored)
          \/ Proceed(p)
          \/ Die(p)

Spec == Init /\ [][Next]_vars

\* The operating system keeps scheduling every process that runs.
FairSpec == Spec /\ \A p \in Processes : WF_vars(Proceed(p))

-----------------------------------------------------------------------------
(* Properties *)

\* Nothing is verified under a policy that has not been read.
PolicyIsRead ==
    \A p \in Processes :
        phase[p] \in {"attestation", "verify", "store"} => loaded[p].policy \in Policies

TypeOK ==
    /\ phase \in [Processes -> Phases]
    /\ job \in [Processes -> [attestation : Attestations \cup {NoEntry}, stored : BOOLEAN]]
    /\ loaded \in [Processes -> [policy : Policies \cup {NoEntry}, at : 0..Horizon]]
    /\ sampled \in [Processes -> 0..Horizon]
    /\ outcome \in [Processes -> Outcomes]
    /\ policyFile \in Policies
    /\ clock \in 0..Horizon
    /\ runs \in 0..RunLimit
    /\ admissions \in [Stores \X Nonces -> Nat]
    /\ passed \subseteq Attestations
    /\ epochs \subseteq Policies \X (0..Horizon)
    /\ PolicyIsRead

Shared == {s \in Stores : \A p \in Private : StoreOf[p] # s}

\* Of all the runs ever made against one database file, by whatever processes
\* and after whatever crashes and retries, at most one exits 0 for a nonce
\* ("a persisted nonce is accepted at most once", docs/threat-model.md:39).
OneAdmissionPerNonce ==
    \A s \in Shared, n \in Nonces : admissions[<<s, n>>] <= 1

\* A row exists only for an attestation that some run found sound in every
\* other respect, under that attestation's own nonce ("Invalid evidence is
\* never persisted as consumed", docs/threat-model.md:39).
InvalidNeverPersisted ==
    \A s \in Stores, n \in Nonces :
        LET row == rows[s][n]
        IN  row # NoEntry => row \in passed /\ NonceOf[row] = n

\* A run that is going to exit 0 with a database file has its own attestation
\* recorded there, so a failure of the store can never look like an admission
\* (cli.py:170-179, replay.py:51).
AdmissionIsRecorded ==
    \A p \in Processes :
        LET a == job[p].attestation
        IN  outcome[p] = "ADMITTED" /\ job[p].stored /\ StoreOf[p] \in Shared
            => rows[StoreOf[p]][NonceOf[a]] = a

\* An admission holds of the policy the run itself read, which was the content
\* of the file when it did, at a time sampled after that read and not after
\* the present: no verdict mixes two policies or dates from before its inputs
\* (cli.py:163-179).
AdmissionsNameTheirInputs ==
    \A p \in Processes :
        outcome[p] = "ADMITTED" =>
            /\ Passes(job[p].attestation, loaded[p].policy, sampled[p])
            /\ <<loaded[p].policy, loaded[p].at>> \in epochs
            /\ loaded[p].at <= sampled[p] /\ sampled[p] <= clock

\* Whatever happened in between, a process prints its envelope with its handle
\* closed and no call on it under way (cli.py:170, replay.py:53-62).
NoHandleOutlivesItsRun ==
    \A p \in Processes :
        phase[p] \notin {"store", "close"} => pc[p] = "idle" /\ connection[p] = "none"

\* Every command that is started prints an envelope or is killed.
EveryRunEnds == \A p \in Processes : phase[p] # "idle" ~> phase[p] = "idle"

\* "Configured replay store cannot be opened or used | Exit `2` with redacted
\* `STATE_UNAVAILABLE`" (docs/delivery-contract.md:351).
StoreFailuresAreStateUnavailable ==
    [][ \A p \in Processes :
          pc[p] = "raising" /\ outcome'[p] # outcome[p] /\ phase'[p] # "idle"
          => outcome'[p] = "STATE_UNAVAILABLE" ]_vars
=============================================================================
