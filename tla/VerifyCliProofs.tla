--------------------------- MODULE VerifyCliProofs ---------------------------
(***************************************************************************)
(* `locusmesh verify` for any number of processes, databases, attestations *)
(* and policies, whatever Passes is.  The store's own invariant is taken   *)
(* from ReplayStoreProofs, with the processes for handles: every step of a *)
(* command is a step of the store or leaves it alone.                      *)
(***************************************************************************)
EXTENDS VerifyCli, TLAPS

Proved == INSTANCE ReplayStoreProofs WITH Handles <- Processes, Entries <- Attestations

-----------------------------------------------------------------------------
(* The store below *)

\* The two instances of the store are the same.
LEMMA SameStore ==
    /\ Store!Init <=> Proved!Init
    /\ \A p \in Processes :
          /\ \A n, e : Store!RecordIfNew(p, n, e) <=> Proved!RecordIfNew(p, n, e)
          /\ Store!Advance(p) <=> Proved!Advance(p)
          /\ Store!Return(p) <=> Proved!Return(p)
          /\ Store!Close(p) <=> Proved!Close(p)
          /\ Store!Crash(p) <=> Proved!Crash(p)
  BY DEF Store!Init, Proved!Init, Store!NoRows, Proved!NoRows,
     Store!RecordIfNew, Proved!RecordIfNew, Store!Advance, Proved!Advance,
     Store!Return, Proved!Return, Store!Close, Proved!Close, Store!Crash, Proved!Crash,
     Store!MakeDirectory, Proved!MakeDirectory,
     Store!MakeDirectoryFails, Proved!MakeDirectoryFails,
     Store!OpenDatabase, Proved!OpenDatabase, Store!OpenDatabaseFails, Proved!OpenDatabaseFails,
     Store!CreateTable, Proved!CreateTable, Store!CreateTableFails, Proved!CreateTableFails,
     Store!Insert, Proved!Insert, Store!InsertFails, Proved!InsertFails,
     Store!Goto, Proved!Goto, Store!Raise, Proved!Raise, Store!Forget, Proved!Forget

\* What a step of one process's handle leaves as it is: the calls of the others,
\* the rows and grants of database files.
Undisturbed(p) ==
    /\ \A q \in Processes \ {p} :
          /\ pc'[q] = pc[q] /\ nonce'[q] = nonce[q] /\ entry'[q] = entry[q]
          /\ connection'[q] = connection[q]
    /\ \A s \in Shared, n \in Nonces :
          /\ rows[s][n] # NoEntry => rows'[s][n] = rows[s][n]
          /\ <<s, n>> \in granted => <<s, n>> \in granted'

\* Rows are emptied or stay, except that a call may write its own.
OwnRowOnly(p) ==
    \A s \in Stores, n \in Nonces :
        \/ rows'[s][n] = rows[s][n]
        \/ rows'[s][n] = NoEntry
        \/ pc[p] = "insert" /\ s = StoreOf[p] /\ n = nonce[p] /\ rows'[s][n] = entry[p]

\* What a closed ":memory:" handle forgets is in no database file.
LEMMA ForgetUndisturbed ==
    ASSUME Proved!IInv, NEW p \in Processes, Proved!Forget(p)
    PROVE  /\ \A s \in Shared, n \in Nonces :
                 /\ rows'[s][n] = rows[s][n]
                 /\ <<s, n>> \in granted => <<s, n>> \in granted'
           /\ \A s \in Stores, n \in Nonces : rows'[s][n] \in {rows[s][n], NoEntry}
  BY CliAssumption DEF Proved!Forget, Proved!NoRows, Proved!IInv, Proved!TypeOK, Shared

\* What each step of a handle does to the store, as far as commands can tell:
\* a call begins,
LEMMA RecordMoves ==
    ASSUME Proved!IInv, NEW p \in Processes, NEW n \in Nonces, NEW e \in Attestations,
           Store!RecordIfNew(p, n, e)
    PROVE  /\ Undisturbed(p) /\ OwnRowOnly(p) /\ UNCHANGED <<rows, granted, connection>>
           /\ pc'[p] # "idle" /\ nonce'[p] = n /\ entry'[p] = e
  BY SameStore DEF Proved!RecordIfNew, Proved!Goto, Proved!IInv, Proved!TypeOK, Undisturbed, OwnRowOnly

\* takes its next statement,
LEMMA AdvanceMoves ==
    ASSUME Proved!IInv, NEW p \in Processes, pc[p] \notin {"answered", "raising"},
           Store!Advance(p)
    PROVE  /\ Undisturbed(p) /\ OwnRowOnly(p)
           /\ pc[p] # "idle" /\ pc'[p] # "idle" /\ UNCHANGED <<nonce, entry>>
  <1> USE DEF Proved!IInv, Proved!TypeOK, Proved!Goto, Proved!Raise
  <1>1. Proved!Advance(p)
    BY SameStore
  <1>2. CASE Proved!Insert(p)
    BY <1>2 DEF Proved!Insert, Undisturbed, OwnRowOnly, Shared
  <1>3. CASE Proved!CreateTableFails(p)
    BY <1>3, ForgetUndisturbed DEF Proved!CreateTableFails, Undisturbed, OwnRowOnly
  <1>4. CASE UNCHANGED <<rows, granted, nonce, entry>>
             /\ \/ Proved!MakeDirectory(p) \/ Proved!MakeDirectoryFails(p)
                \/ Proved!OpenDatabase(p) \/ Proved!OpenDatabaseFails(p)
                \/ Proved!CreateTable(p) \/ Proved!InsertFails(p)
    BY <1>4 DEF Proved!MakeDirectory, Proved!MakeDirectoryFails, Proved!OpenDatabase,
       Proved!OpenDatabaseFails, Proved!CreateTable, Proved!InsertFails, Undisturbed, OwnRowOnly
  <1> QED
    BY <1>1, <1>2, <1>3, <1>4 DEF Proved!Advance, Proved!Return,
       Proved!MakeDirectory, Proved!MakeDirectoryFails, Proved!OpenDatabase,
       Proved!OpenDatabaseFails, Proved!CreateTable, Proved!InsertFails

\* returns its boolean,
LEMMA ReturnMoves ==
    ASSUME Proved!IInv, NEW p \in Processes, Store!Return(p)
    PROVE  /\ Undisturbed(p) /\ OwnRowOnly(p) /\ UNCHANGED <<rows, connection>>
           /\ pc'[p] = "idle"
           /\ answer[p] \in {"new", "seen", "sqlite3.Error", "OSError"}
           /\ answer[p] = "new" =>
                 /\ <<StoreOf[p], nonce[p]>> \notin granted
                 /\ <<StoreOf[p], nonce[p]>> \in granted'
                 /\ rows[StoreOf[p]][nonce[p]] = entry[p]
           /\ answer[p] # "new" => UNCHANGED granted
  BY SameStore DEF Proved!Return, Proved!Goto, Proved!IInv, Proved!TypeOK, Proved!CallInFlight,
     Proved!AtMostOneWinner, Proved!AnswersMatchTheTable, Undisturbed, OwnRowOnly

\* the handle is closed,
LEMMA CloseMoves ==
    ASSUME Proved!IInv, NEW p \in Processes, Store!Close(p)
    PROVE  /\ Undisturbed(p) /\ OwnRowOnly(p)
           /\ UNCHANGED <<pc, nonce, entry>> /\ connection'[p] = "none"
  BY SameStore, ForgetUndisturbed
     DEF Proved!Close, Proved!IInv, Proved!TypeOK, Undisturbed, OwnRowOnly

\* or dies with its process.
LEMMA CrashMoves ==
    ASSUME Proved!IInv, NEW p \in Processes, Store!Crash(p)
    PROVE  /\ Undisturbed(p) /\ OwnRowOnly(p) /\ pc'[p] = "idle" /\ connection'[p] = "none"
  BY SameStore, ForgetUndisturbed
     DEF Proved!Crash, Proved!Goto, Proved!IInv, Proved!TypeOK, Undisturbed, OwnRowOnly

\* A step that leaves the store alone.
LEMMA RestMoves ==
    ASSUME UNCHANGED storeVars, NEW p \in Processes
    PROVE  Undisturbed(p) /\ OwnRowOnly(p)
  BY DEF storeVars, Undisturbed, OwnRowOnly

-----------------------------------------------------------------------------
(* Where a command is *)

\* A command calls the store in one phase only, with the nonce and the entry of
\* its attestation; it has a handle open only there and until it closes it.
Control ==
    \A p \in Processes :
        /\ phase[p] # "idle" => job[p].attestation \in Attestations
        /\ phase[p] = "store" =>
              /\ pc[p] # "idle" /\ job[p].stored
              /\ nonce[p] = NonceOf[job[p].attestation] /\ entry[p] = job[p].attestation
        /\ phase[p] # "store" => pc[p] = "idle"
        /\ phase[p] \notin {"store", "close"} => connection[p] = "none"
        /\ outcome[p] # "none" <=> phase[p] \in {"close", "emit"}

\* The invariant of the command with the one of its store.
CliInv == TypeOK /\ Proved!IInv /\ Control

\* No process runs and no database exists at first.
LEMMA CliInit == Init => CliInv
  <1> SUFFICES ASSUME Init PROVE CliInv
    OBVIOUS
  <1>1. TypeOK
    BY CliAssumption DEF Init, TypeOK, PolicyIsRead, Phases, Outcomes, NoJob, Unread
  <1>2. Proved!IInv
    BY SameStore, Proved!InitEstablishes, CliAssumption DEF Init
  <1>3. Control
    BY DEF Init, Control, Store!Init
  <1> QED
    BY <1>1, <1>2, <1>3 DEF CliInv

\* The store takes a step of its own, or none.
LEMMA StoreMoves == CliInv /\ [Next]_vars => [Proved!Next]_(Proved!vars)
  <1> SUFFICES ASSUME CliInv, [Next]_vars
               PROVE  Proved!Next \/ UNCHANGED storeVars
    BY DEF storeVars, Proved!vars
  <1> USE DEF Proved!Next
  <1>1. CASE Tick \/ ReplacePolicy \/ UNCHANGED vars
    BY <1>1 DEF Tick, ReplacePolicy, vars
  <1> SUFFICES ASSUME NEW p \in Processes,
                      \/ \E a \in Attestations, stored \in BOOLEAN : Start(p, a, stored)
                      \/ Proceed(p) \/ Die(p)
               PROVE  Proved!Next \/ UNCHANGED storeVars
    BY <1>1 DEF Next
  <1>2. CASE \E a \in Attestations, stored \in BOOLEAN : Start(p, a, stored)
    BY <1>2 DEF Start
  <1>3. CASE LoadPolicy(p) \/ LoadAttestation(p) \/ LoadFails(p) \/ Emit(p)
    BY <1>3 DEF LoadPolicy, LoadAttestation, LoadFails, Emit
  <1>4. CASE Verify(p)
    <2>1. job[p].attestation \in Attestations /\ NonceOf[job[p].attestation] \in Nonces
      BY <1>4, CliAssumption DEF Verify, CliInv, Control
    <2> QED
      BY <1>4, <2>1, SameStore DEF Verify
  <1>5. CASE StoreStep(p) \/ StoreAnswers(p)
    BY <1>5, SameStore DEF StoreStep, StoreAnswers, Store!Advance
  <1>6. CASE CloseStore(p) \/ Die(p)
    BY <1>6, SameStore DEF CloseStore, Die
  <1> QED
    BY <1>2, <1>3, <1>4, <1>5, <1>6 DEF Proceed

\* Each action keeps the shape of the state.
LEMMA TypeKept == CliInv /\ [Next]_vars => TypeOK'
  <1> SUFFICES ASSUME CliInv, [Next]_vars
               PROVE  TypeOK'
    OBVIOUS
  <1> USE CliAssumption DEF CliInv, TypeOK, PolicyIsRead, Phases, Outcomes, Goto
  <1>1. CASE Tick
    BY <1>1 DEF Tick, cliVars, history
  <1>2. CASE ReplacePolicy
    BY <1>2 DEF ReplacePolicy, cliVars, history
  <1>3. CASE UNCHANGED vars
    BY <1>3 DEF vars, cliVars, world, history
  <1> SUFFICES ASSUME NEW p \in Processes,
                      \/ \E a \in Attestations, stored \in BOOLEAN : Start(p, a, stored)
                      \/ Proceed(p) \/ Die(p)
               PROVE  TypeOK'
    BY <1>1, <1>2, <1>3 DEF Next
  <1>4. CASE \E a \in Attestations, stored \in BOOLEAN : Start(p, a, stored)
    BY <1>4 DEF Start, world
  <1>5. CASE LoadPolicy(p)
    BY <1>5 DEF LoadPolicy, world, history
  <1>6. CASE LoadAttestation(p)
    BY <1>6 DEF LoadAttestation, world, history
  <1>13. CASE LoadFails(p)
    BY <1>13 DEF LoadFails, world, history
  <1>7. CASE Verify(p)
    <2>1. UNCHANGED <<job, loaded, policyFile, clock, epochs, runs, admissions>>
      BY <1>7 DEF Verify, world
    <2>2. sampled' = [sampled EXCEPT ![p] = clock]
      BY <1>7 DEF Verify
    <2>3. job[p].attestation \in Attestations /\ passed' \subseteq passed \cup {job[p].attestation}
      BY <1>7 DEF Verify, Control
    <2>4. \E o \in Outcomes, ph \in Phases :
             /\ phase' = [phase EXCEPT ![p] = ph]
             /\ outcome' = outcome \/ outcome' = [outcome EXCEPT ![p] = o]
      <3>1. CASE phase' = [phase EXCEPT ![p] = "store"] /\ UNCHANGED outcome
        BY <3>1
      <3>2. CASE \E o \in {"ADMITTED", "DENIED"}, ph \in {"close", "emit"} :
                    outcome' = [outcome EXCEPT ![p] = o] /\ phase' = [phase EXCEPT ![p] = ph]
        BY <3>2
      <3> QED
        BY <1>7, <3>1, <3>2 DEF Verify, Finish
    <2>5. phase' \in [Processes -> Phases] /\ outcome' \in [Processes -> Outcomes]
      <3>1. phase \in [Processes -> Phases] /\ outcome \in [Processes -> Outcomes]
        OBVIOUS
      <3> HIDE DEF CliInv, Phases, Outcomes
      <3> QED
        BY <2>4, <3>1
    <2>6. sampled' \in [Processes -> 0..Horizon]
      BY <2>2
    <2>7. passed' \subseteq Attestations
      BY <2>3
    <2>8. /\ job' = job /\ loaded' = loaded /\ policyFile' = policyFile /\ clock' = clock
          /\ epochs' = epochs /\ runs' = runs /\ admissions' = admissions
      BY <2>1
    <2>9. TypeOK
      BY DEF CliInv
    <2>10. PolicyIsRead'
      <3>1. phase[p] = "verify" /\ phase \in [Processes -> Phases]
        BY <1>7 DEF Verify
      <3>2. \A q \in Processes \ {p} : phase'[q] = phase[q]
        BY <2>4, <3>1
      <3>3. PolicyIsRead /\ loaded' = loaded
        BY <2>8
      <3> HIDE DEF CliInv, TypeOK
      <3> QED
        BY <3>1, <3>2, <3>3
    <2> HIDE DEF CliInv, Phases, Outcomes, PolicyIsRead
    <2> QED
      BY <2>5, <2>6, <2>7, <2>8, <2>9, <2>10
  <1>8. CASE StoreStep(p)
    BY <1>8 DEF StoreStep, cliVars, world, history
  <1>9. CASE StoreAnswers(p)
    BY <1>9, ReturnMoves DEF StoreAnswers, Finish, world, history
  <1>10. CASE CloseStore(p)
    BY <1>10 DEF CloseStore, world, history
  <1>11. CASE Emit(p)
    <2>1. /\ UNCHANGED <<policyFile, clock, epochs, runs, passed>>
          /\ phase' = [phase EXCEPT ![p] = "idle"] /\ job' = [job EXCEPT ![p] = NoJob]
          /\ loaded' = [loaded EXCEPT ![p] = Unread] /\ sampled' = [sampled EXCEPT ![p] = 0]
          /\ outcome' = [outcome EXCEPT ![p] = "none"]
      BY <1>11 DEF Emit, world
    <2>2. admissions' \in [Stores \X Nonces -> Nat]
      <3> DEFINE key == <<StoreOf[p], NonceOf[job[p].attestation]>>
      <3>1. key \in Stores \X Nonces
        BY <1>11 DEF Emit, Control
      <3>2. admissions' = admissions \/ admissions' = [admissions EXCEPT ![key] = @ + 1]
        BY <1>11 DEF Emit
      <3>3. admissions[key] \in Nat /\ admissions[key] + 1 \in Nat
        BY <3>1
      <3> HIDE DEF key
      <3> QED
        BY <3>1, <3>2, <3>3
    <2> QED
      BY <2>1, <2>2 DEF NoJob, Unread
  <1>12. CASE Die(p)
    BY <1>12 DEF Die, NoJob, Unread, world, history
  <1> QED
    BY <1>4, <1>5, <1>6, <1>7, <1>8, <1>9, <1>10, <1>11, <1>12, <1>13 DEF Proceed

\* Each action keeps handle, call and outcome in line with the phase.
LEMMA ControlKept == CliInv /\ [Next]_vars => Control'
  <1> SUFFICES ASSUME CliInv, [Next]_vars
               PROVE  Control'
    OBVIOUS
  <1> USE CliAssumption DEF CliInv, TypeOK, Control, Goto, storeVars
  <1>1. CASE Tick \/ ReplacePolicy
    BY <1>1 DEF Tick, ReplacePolicy, cliVars
  <1>3. CASE UNCHANGED vars
    BY <1>3 DEF vars, cliVars
  <1> SUFFICES ASSUME NEW p \in Processes,
                      \/ \E a \in Attestations, stored \in BOOLEAN : Start(p, a, stored)
                      \/ Proceed(p) \/ Die(p)
               PROVE  Control'
    BY <1>1, <1>3 DEF Next
  <1>4. CASE \E a \in Attestations, stored \in BOOLEAN : Start(p, a, stored)
    BY <1>4 DEF Start
  <1>5. CASE LoadPolicy(p) \/ LoadAttestation(p) \/ LoadFails(p)
    BY <1>5 DEF LoadPolicy, LoadAttestation, LoadFails
  <1>7. CASE Verify(p)
    <2>1. CASE UNCHANGED storeVars /\ ~(phase'[p] = "store")
      BY <1>7, <2>1 DEF Verify, Finish
    <2>2. CASE /\ job[p].stored /\ phase' = [phase EXCEPT ![p] = "store"] /\ UNCHANGED <<outcome, job>>
               /\ Store!RecordIfNew(p, NonceOf[job[p].attestation], job[p].attestation)
      <3>1. phase[p] = "verify" /\ job[p].attestation \in Attestations
            /\ NonceOf[job[p].attestation] \in Nonces
        BY <1>7 DEF Verify
      <3>2. Undisturbed(p) /\ pc'[p] # "idle" /\ nonce'[p] = NonceOf[job[p].attestation]
            /\ entry'[p] = job[p].attestation
        BY <2>2, <3>1, RecordMoves
      <3> QED
        BY <2>2, <3>1, <3>2 DEF Undisturbed
    <2> QED
      BY <1>7, <2>1, <2>2 DEF Verify, Finish
  <1>8. CASE StoreStep(p)
    <2>1. phase[p] = "store" /\ UNCHANGED <<phase, job, outcome>>
      BY <1>8 DEF StoreStep, cliVars
    <2>2. Undisturbed(p) /\ pc'[p] # "idle" /\ UNCHANGED <<nonce, entry>>
      BY <1>8, AdvanceMoves DEF StoreStep
    <2> QED
      BY SMTT(30), <2>1, <2>2 DEF Undisturbed
  <1>9. CASE StoreAnswers(p)
    <2>1. Undisturbed(p) /\ pc'[p] = "idle" /\ UNCHANGED connection
      BY <1>9, ReturnMoves DEF StoreAnswers
    <2>2. /\ phase[p] = "store" /\ UNCHANGED job
          /\ phase' = [phase EXCEPT ![p] = "close"]
          /\ \E o \in Outcomes \ {"none"} : outcome' = [outcome EXCEPT ![p] = o]
      <3>1. answer[p] \in {"new", "seen", "sqlite3.Error", "OSError"} /\ phase[p] = "store" /\ UNCHANGED job
        BY <1>9, ReturnMoves DEF StoreAnswers
      <3>2. job[p].stored
        BY <3>1
      <3>3. phase' = [phase EXCEPT ![p] = "close"]
        BY <1>9, <3>2 DEF StoreAnswers, Finish
      <3>4. \E o \in Outcomes \ {"none"} : outcome' = [outcome EXCEPT ![p] = o]
        <4>1. \/ outcome' = [outcome EXCEPT ![p] = "ADMITTED"]
              \/ outcome' = [outcome EXCEPT ![p] = "REPLAY_DETECTED"]
              \/ outcome' = [outcome EXCEPT ![p] = "STATE_UNAVAILABLE"]
              \/ outcome' = [outcome EXCEPT ![p] = "INPUT_INVALID"]
          BY <1>9 DEF StoreAnswers, Finish
        <4> QED
          BY <4>1 DEF Outcomes
      <3> QED
        BY <3>1, <3>3, <3>4
    <2> QED
      BY <2>1, <2>2 DEF Undisturbed
  <1>10. CASE CloseStore(p)
    BY <1>10, CloseMoves, RestMoves DEF CloseStore, Undisturbed
  <1>11. CASE Emit(p)
    BY <1>11 DEF Emit, NoJob
  <1>12. CASE Die(p)
    BY <1>12, CrashMoves, RestMoves DEF Die, NoJob, Undisturbed
  <1> QED
    BY <1>4, <1>5, <1>7, <1>8, <1>9, <1>10, <1>11, <1>12 DEF Proceed

\* Store and command keep their invariant together.
LEMMA CliInvariant == Spec => []CliInv
  <1>1. CliInv /\ [Next]_vars => Proved!IInv'
    BY StoreMoves, Proved!Preservation, CliAssumption DEF CliInv
  <1>2. CliInv /\ [Next]_vars => CliInv'
    BY <1>1, TypeKept, ControlKept DEF CliInv
  <1> QED
    BY <1>2, CliInit, PTL DEF Spec

\* The state of commands, world and history keeps its shape.
THEOREM TypeCorrect == Spec => []TypeOK
  BY CliInvariant, PTL DEF CliInv

\* A process prints with its handle closed and no call under way, however the
\* body of the with statement ended (cli.py:170, replay.py:53-62).
THEOREM HandlesAreClosed == Spec => []NoHandleOutlivesItsRun
  <1>1. CliInv => NoHandleOutlivesItsRun
    BY DEF CliInv, Control, NoHandleOutlivesItsRun
  <1> QED
    BY <1>1, CliInvariant, PTL

-----------------------------------------------------------------------------
(* What a command admits *)

Command(p) ==
    \/ \E a \in Attestations, stored \in BOOLEAN : Start(p, a, stored)
    \/ Proceed(p)
    \/ Die(p)

\* No step of a command reaches further into the store than its own call.
LEMMA CommandMoves ==
    ASSUME CliInv, NEW p \in Processes, Command(p)
    PROVE  Undisturbed(p) /\ OwnRowOnly(p)
  <1> USE DEF CliInv
  <1>1. CASE UNCHANGED storeVars
    BY <1>1, RestMoves
  <1>2. CASE Verify(p)
    <2>1. /\ phase[p] = "verify" /\ job[p].attestation \in Attestations
          /\ NonceOf[job[p].attestation] \in Nonces
      BY <1>2, CliAssumption DEF Verify, Control
    <2> QED
      BY <1>1, <1>2, <2>1, RecordMoves DEF Verify
  <1>3. CASE StoreStep(p) \/ StoreAnswers(p)
    BY <1>3, AdvanceMoves, ReturnMoves DEF StoreStep, StoreAnswers
  <1>4. CASE CloseStore(p) \/ Die(p)
    BY <1>1, <1>4, CloseMoves, CrashMoves DEF CloseStore, Die
  <1> QED
    BY <1>1, <1>2, <1>3, <1>4
       DEF Command, Proceed, Start, LoadPolicy, LoadAttestation, LoadFails, Emit

\* The policy a command has read was the content of the file when it read it.
Read(p) == <<loaded[p].policy, loaded[p].at>> \in epochs /\ loaded[p].at <= clock

\* ... and its verdict is one of that policy at a later time.
Sound(p) ==
    /\ Passes(job[p].attestation, loaded[p].policy, sampled[p])
    /\ <<loaded[p].policy, loaded[p].at>> \in epochs
    /\ loaded[p].at <= sampled[p] /\ sampled[p] <= clock

Inputs ==
    /\ <<policyFile, clock>> \in epochs
    /\ \A p \in Processes :
          /\ phase[p] \in {"attestation", "verify"} => Read(p)
          /\ phase[p] = "store" \/ outcome[p] = "ADMITTED" => Sound(p)

\* What was read and sampled is not touched until the run ends.
LEMMA InputsKept == CliInv /\ Inputs /\ [Next]_vars => Inputs'
  <1> SUFFICES ASSUME CliInv, Inputs, [Next]_vars
               PROVE  Inputs'
    OBVIOUS
  <1> USE CliAssumption DEF CliInv, TypeOK, Control, Inputs, Goto
  <1>1. CASE Tick \/ ReplacePolicy
    <2>1. UNCHANGED cliVars /\ epochs \subseteq epochs' /\ clock <= clock' /\ <<policyFile', clock'>> \in epochs'
      BY <1>1 DEF Tick, ReplacePolicy
    <2>2. \A q \in Processes : loaded[q].at \in Int /\ sampled[q] \in Int /\ clock \in Int /\ clock' \in Int
      BY <1>1 DEF Tick, ReplacePolicy
    <2>3. \A q \in Processes : (Read(q) => Read(q)') /\ (Sound(q) => Sound(q)')
      BY <2>1, <2>2 DEF Read, Sound, cliVars
    <2> QED
      BY <2>1, <2>3 DEF cliVars
  <1>2. CASE UNCHANGED vars
    BY <1>2 DEF vars, cliVars, world, Read, Sound
  <1> SUFFICES ASSUME NEW p \in Processes, Command(p)
               PROVE  Inputs'
    BY <1>1, <1>2 DEF Next, Command
  <1>a. UNCHANGED <<policyFile, clock, epochs>>
        /\ \A q \in Processes \ {p} : /\ phase'[q] = phase[q] /\ job'[q] = job[q]
                                      /\ loaded'[q] = loaded[q] /\ sampled'[q] = sampled[q]
                                      /\ outcome'[q] = outcome[q]
    BY DEF Command, Proceed, Start, LoadPolicy, LoadAttestation, LoadFails, Verify, Finish,
           StoreStep, StoreAnswers, CloseStore, Emit, Die, world, cliVars
  <1>b. ASSUME phase'[p] \in {"attestation", "verify"} => Read(p)',
               phase'[p] = "store" \/ outcome'[p] = "ADMITTED" => Sound(p)'
        PROVE  Inputs'
    <2>1. \A q \in Processes \ {p} :
             /\ phase'[q] \in {"attestation", "verify"} => Read(q)'
             /\ phase'[q] = "store" \/ outcome'[q] = "ADMITTED" => Sound(q)'
      BY <1>a DEF Read, Sound
    <2>2. <<policyFile', clock'>> \in epochs'
      BY <1>a
    <2> HIDE DEF CliInv
    <2> QED
      BY <1>b, <2>1, <2>2 DEF Inputs
  <1>3. CASE \E a \in Attestations, stored \in BOOLEAN : Start(p, a, stored)
    BY <1>3, <1>b DEF Start
  <1>4. CASE LoadPolicy(p)
    <2>1. phase'[p] = "attestation" /\ outcome'[p] # "ADMITTED" /\ loaded'[p] = [policy |-> policyFile, at |-> clock]
      BY <1>4 DEF LoadPolicy
    <2>2. Read(p)'
      BY <1>a, <2>1 DEF Read
    <2> QED
      BY <2>1, <2>2, <1>b
  <1>5. CASE LoadAttestation(p)
    BY <1>5, <1>b DEF LoadAttestation, Read, world
  <1>6. CASE LoadFails(p)
    BY <1>6, <1>b DEF LoadFails
  <1>7. CASE Verify(p)
    <2>1. UNCHANGED <<job, loaded>> /\ sampled'[p] = clock /\ Read(p)
      BY <1>7 DEF Verify
    <2>2. phase'[p] \notin {"attestation", "verify"}
      BY <1>7 DEF Verify, Finish
    <2>3. phase'[p] = "store" \/ outcome'[p] = "ADMITTED"
              => Passes(job[p].attestation, loaded[p].policy, clock)
      BY <1>7 DEF Verify, Finish
    <2> QED
      BY <2>1, <2>2, <2>3, <1>a, <1>b DEF Read, Sound
  <1>8. CASE StoreStep(p)
    BY <1>8, <1>b DEF StoreStep, Sound, cliVars, world
  <1>9. CASE StoreAnswers(p)
    <2>1. UNCHANGED <<job, loaded, sampled>> /\ phase[p] = "store" /\ phase'[p] \in {"close", "emit"}
      BY <1>9 DEF StoreAnswers, Finish
    <2> QED
      BY <2>1, <1>a, <1>b DEF Sound
  <1>10. CASE CloseStore(p)
    BY <1>10, <1>b DEF CloseStore, Sound, world
  <1>11. CASE Emit(p) \/ Die(p)
    BY <1>11, <1>b DEF Emit, Die
  <1> QED
    BY <1>3, <1>4, <1>5, <1>6, <1>7, <1>8, <1>9, <1>10, <1>11 DEF Command, Proceed

\* An admission holds of the policy the run read, at a time after that read and
\* not after the present (cli.py:163-179).
THEOREM AdmissionsSpeakOfTheirInputs == Spec => []AdmissionsNameTheirInputs
  <1>1. Init => Inputs
    BY DEF Init, Inputs
  <1>2. Inputs => AdmissionsNameTheirInputs
    BY DEF Inputs, Sound, AdmissionsNameTheirInputs
  <1> QED
    BY <1>1, <1>2, CliInvariant, InputsKept, PTL DEF Spec

-----------------------------------------------------------------------------
(* What a command records *)

Evidence ==
    /\ InvalidNeverPersisted
    /\ \A p \in Processes : phase[p] = "store" => job[p].attestation \in passed

\* Only a call that was reached with every check passed writes a row.
LEMMA EvidenceKept == CliInv /\ Evidence /\ [Next]_vars => Evidence'
  <1> SUFFICES ASSUME CliInv, Evidence, [Next]_vars
               PROVE  Evidence'
    OBVIOUS
  <1> USE CliAssumption DEF CliInv, TypeOK, Control, Evidence, Goto
  <1>1. CASE Tick \/ ReplacePolicy \/ UNCHANGED vars
    BY <1>1 DEF Tick, ReplacePolicy, vars, cliVars, history, storeVars, InvalidNeverPersisted
  <1> SUFFICES ASSUME NEW p \in Processes, Command(p)
               PROVE  Evidence'
    BY <1>1 DEF Next, Command
  <1>2. passed \subseteq passed'
    BY DEF Command, Proceed, Start, LoadPolicy, LoadAttestation, LoadFails, Verify,
           StoreStep, StoreAnswers, CloseStore, Emit, Die, history
  <1>3. \A q \in Processes : phase'[q] = "store" =>
            \/ phase[q] = "store" /\ job'[q] = job[q]
            \/ job'[q].attestation \in passed'
    BY DEF Command, Proceed, Start, LoadPolicy, LoadAttestation, LoadFails, Verify, Finish,
           StoreStep, StoreAnswers, CloseStore, Emit, Die, cliVars
  <1>4. InvalidNeverPersisted'
    <2> SUFFICES ASSUME NEW s \in Stores, NEW n \in Nonces, rows'[s][n] # NoEntry
                 PROVE  rows'[s][n] \in passed' /\ NonceOf[rows'[s][n]] = n
      BY DEF InvalidNeverPersisted
    <2>1. CASE rows'[s][n] = rows[s][n]
      BY <1>2, <2>1 DEF InvalidNeverPersisted
    <2>2. CASE pc[p] = "insert" /\ n = nonce[p] /\ rows'[s][n] = entry[p]
      <3>1. phase[p] = "store"
        BY <2>2
      <3> QED
        BY <1>2, <2>2, <3>1
    <2> QED
      BY <2>1, <2>2, CommandMoves DEF OwnRowOnly
  <1> QED
    BY <1>2, <1>3, <1>4

\* Rows are evidence: each was written for an attestation that had passed every
\* check before the store (docs/threat-model.md:39).
THEOREM OnlyEvidenceIsPersisted == Spec => []InvalidNeverPersisted
  <1>1. Init => Evidence
    BY DEF Init, Evidence, InvalidNeverPersisted, Store!Init, Store!NoRows
  <1>2. Evidence => InvalidNeverPersisted
    BY DEF Evidence
  <1> QED
    BY <1>1, <1>2, CliInvariant, EvidenceKept, PTL DEF Spec

-----------------------------------------------------------------------------
(* How often a nonce is accepted *)

\* p is about to exit 0 for nonce n of database s.
Accepting(p, s, n) ==
    /\ outcome[p] = "ADMITTED" /\ job[p].stored
    /\ StoreOf[p] = s /\ NonceOf[job[p].attestation] = n

\* Whoever accepts or has accepted was granted the nonce, and a grant is given
\* once: the past admissions of a nonce and those about to be printed are
\* together at most one, and its row is that of the one about to be printed.
UniqueAt(s, n) ==
    /\ admissions[<<s, n>>] <= 1
    /\ admissions[<<s, n>>] # 0 => <<s, n>> \in granted
    /\ \A p \in Processes : Accepting(p, s, n) =>
          /\ <<s, n>> \in granted
          /\ admissions[<<s, n>>] = 0
          /\ rows[s][n] = job[p].attestation
          /\ \A q \in Processes : Accepting(q, s, n) => q = p

\* Rows and grants of a ":memory:" database end with their handle; files keep them.
Unique == \A s \in Shared, n \in Nonces : UniqueAt(s, n)

\* Exit 0 is one outcome of verify.
LEMMA ZeroMeansAdmitted ==
    ASSUME NEW o \in Outcomes \ {"none"}
    PROVE  ExitCode(o) = 0 <=> o = "ADMITTED"
  BY DEF Outcomes, ExitCode

\* A grant, its answer, its envelope and its count follow one another.
LEMMA UniqueKept == CliInv /\ Unique /\ [Next]_vars => Unique'
  <1> SUFFICES ASSUME CliInv, Unique, [Next]_vars
               PROVE  Unique'
    OBVIOUS
  <1> USE CliAssumption DEF CliInv, TypeOK, Control, Goto
  <1>1. CASE Tick \/ ReplacePolicy \/ UNCHANGED vars
    <2>1. UNCHANGED <<job, outcome, admissions, rows, granted>>
      BY <1>1 DEF Tick, ReplacePolicy, vars, cliVars, history, storeVars
    <2> QED
      <3>1. \A q \in Processes, s \in Shared, n \in Nonces : Accepting(q, s, n)' <=> Accepting(q, s, n)
        BY <2>1 DEF Accepting
      <3> HIDE DEF CliInv
      <3>2. \A s \in Shared, n \in Nonces : UniqueAt(s, n) => UniqueAt(s, n)'
        BY <2>1, <3>1 DEF UniqueAt
      <3> QED
        BY <3>2 DEF Unique
  <1> SUFFICES ASSUME NEW p \in Processes, Command(p)
               PROVE  Unique'
    BY <1>1 DEF Next, Command
  <1> SUFFICES ASSUME NEW s \in Shared, NEW n \in Nonces
               PROVE  UniqueAt(s, n)'
    BY DEF Unique
  <1> USE DEF UniqueAt
  <1>2. UniqueAt(s, n)
    BY DEF Unique
  <1>3. /\ <<s, n>> \in granted => <<s, n>> \in granted'
        /\ rows[s][n] # NoEntry => rows'[s][n] = rows[s][n]
    BY CommandMoves DEF Undisturbed
  <1>4. \A q \in Processes \ {p} :
            /\ Accepting(q, s, n)' <=> Accepting(q, s, n)
            /\ job'[q] = job[q]
            /\ Accepting(q, s, n) => rows'[s][n] = job'[q].attestation
    <2>1. \A q \in Processes \ {p} : job'[q] = job[q] /\ outcome'[q] = outcome[q]
      BY DEF Command, Proceed, Start, LoadPolicy, LoadAttestation, LoadFails, Verify, Finish,
             StoreStep, StoreAnswers, CloseStore, Emit, Die, cliVars
    <2>2. \A q \in Processes : Accepting(q, s, n) => job[q].attestation # NoEntry
      BY DEF Accepting
    <2> QED
      BY <1>2, <1>3, <2>1, <2>2 DEF Accepting
  \* Nothing is printed and p is about to accept only if it was already.
  <1>5. ASSUME UNCHANGED admissions, Accepting(p, s, n)' => Accepting(p, s, n) /\ UNCHANGED job
        PROVE  UniqueAt(s, n)'
    <2>1. Accepting(p, s, n)' => rows'[s][n] = job'[p].attestation
      <3>1. Accepting(p, s, n) => job[p].attestation # NoEntry
        BY DEF Accepting
      <3> QED
        BY <1>2, <1>3, <1>5, <3>1
    <2>2. \A q \in Processes : Accepting(q, s, n)' =>
              Accepting(q, s, n) /\ rows'[s][n] = job'[q].attestation
      BY <1>4, <1>5, <2>1
    <2>3. \A q, r \in Processes : Accepting(q, s, n)' /\ Accepting(r, s, n)' => r = q
      BY <1>2, <2>2
    <2> QED
      BY <1>2, <1>3, <1>5, <2>2, <2>3
  <1>6. CASE \E a \in Attestations, stored \in BOOLEAN : Start(p, a, stored)
    <2>1. UNCHANGED <<admissions, outcome>> /\ outcome[p] = "none"
      BY <1>6 DEF Start
    <2> QED
      BY <1>5, <2>1 DEF Accepting
  <1>7. CASE LoadPolicy(p) \/ LoadAttestation(p) \/ LoadFails(p)
    <2>1. UNCHANGED admissions /\ outcome'[p] # "ADMITTED"
      BY <1>7 DEF LoadPolicy, LoadAttestation, LoadFails, history
    <2> QED
      BY <1>5, <2>1 DEF Accepting
  <1>8. CASE Verify(p)
    <2>1. UNCHANGED <<admissions, job>> /\ outcome[p] = "none"
      BY <1>8 DEF Verify
    <2>2. job[p].stored => outcome'[p] \in {"none", "DENIED"}
      BY <1>8, <2>1 DEF Verify, Finish
    <2>3. ~Accepting(p, s, n)'
      BY <2>1, <2>2 DEF Accepting
    <2> QED
      BY <1>5, <2>1, <2>3
  <1>9. CASE StoreStep(p)
    <2>1. UNCHANGED <<admissions, job, outcome>>
      BY <1>9 DEF StoreStep, cliVars, history
    <2> QED
      BY <1>5, <2>1 DEF Accepting
  <1>10. CASE StoreAnswers(p)
    <2>1. UNCHANGED <<job, admissions, rows>> /\ phase[p] = "store"
      BY <1>10, ReturnMoves DEF StoreAnswers, history
    <2>2. CASE answer[p] = "new" /\ StoreOf[p] = s /\ NonceOf[job[p].attestation] = n
      <3>1. <<s, n>> \notin granted /\ <<s, n>> \in granted' /\ rows[s][n] = job[p].attestation
        BY <1>10, <2>1, <2>2, ReturnMoves DEF StoreAnswers
      <3>2. admissions[<<s, n>>] = 0 /\ \A q \in Processes : ~Accepting(q, s, n)
        BY <1>2, <3>1
      <3> QED
        BY <1>4, <2>1, <3>1, <3>2
    <2>3. CASE ~(answer[p] = "new" /\ StoreOf[p] = s /\ NonceOf[job[p].attestation] = n)
      <3>1. ~Accepting(p, s, n)'
        BY <1>10, <2>1, <2>3 DEF StoreAnswers, Finish, Accepting
      <3> QED
        BY <1>5, <2>1, <3>1
    <2> QED
      BY <2>2, <2>3
  <1>11. CASE CloseStore(p)
    <2>1. UNCHANGED <<admissions, job, outcome>>
      BY <1>11 DEF CloseStore, history
    <2> QED
      BY <1>5, <2>1 DEF Accepting
  <1>12. CASE Emit(p)
    <2>1. ~Accepting(p, s, n)' /\ UNCHANGED <<granted, rows>>
      BY <1>12 DEF Emit, Accepting, storeVars
    <2>2. CASE Accepting(p, s, n)
      <3>1. admissions' = [admissions EXCEPT ![<<s, n>>] = @ + 1] \/ UNCHANGED admissions
        BY <1>12, <2>2 DEF Emit, Accepting
      <3>2. <<s, n>> \in Stores \X Nonces
        BY DEF Shared
      <3>3. admissions[<<s, n>>] = 0 /\ <<s, n>> \in granted /\ \A q \in Processes \ {p} : ~Accepting(q, s, n)
        BY <1>2, <2>2
      <3>4. admissions'[<<s, n>>] \in {0, 1}
        BY <3>1, <3>2, <3>3
      <3>5. admissions'[<<s, n>>] <= 1 /\ <<s, n>> \in granted'
        BY <2>1, <3>3, <3>4
      <3>6. \A q \in Processes : ~Accepting(q, s, n)'
        BY <1>4, <2>1, <3>3
      <3> HIDE DEF Accepting
      <3> QED
        BY <3>5, <3>6
    <2>3. CASE ~Accepting(p, s, n)
      <3>1. admissions'[<<s, n>>] = admissions[<<s, n>>]
        <4> DEFINE key == <<StoreOf[p], NonceOf[job[p].attestation]>>
        <4>1. CASE UNCHANGED admissions
          BY <4>1
        <4>2. CASE /\ admissions' = [admissions EXCEPT ![key] = @ + 1]
                   /\ ExitCode(outcome[p]) = 0 /\ job[p].stored
          <5>1. outcome[p] = "ADMITTED"
            BY <1>12, <4>2, ZeroMeansAdmitted DEF Emit
          <5>2. key # <<s, n>>
            BY <2>3, <4>2, <5>1 DEF Accepting
          <5> QED
            BY <4>2, <5>2 DEF Shared
        <4> QED
          BY <1>12, <4>1, <4>2 DEF Emit
      <3>2. \A q \in Processes : Accepting(q, s, n)' =>
                Accepting(q, s, n) /\ rows'[s][n] = job'[q].attestation
        BY <1>4, <2>1
      <3>3. \A q, r \in Processes : Accepting(q, s, n)' /\ Accepting(r, s, n)' => r = q
        BY <1>2, <3>2
      <3> QED
        BY <1>2, <1>3, <3>1, <3>2, <3>3
    <2> QED
      BY <2>2, <2>3
  <1>13. CASE Die(p)
    <2>1. UNCHANGED admissions /\ outcome'[p] # "ADMITTED"
      BY <1>13 DEF Die, history
    <2> QED
      BY <1>5, <2>1 DEF Accepting
  <1> QED
    BY <1>6, <1>7, <1>8, <1>9, <1>10, <1>11, <1>12, <1>13 DEF Command, Proceed

\* At no time is a nonce accepted twice.
LEMMA UniqueInvariant == Spec => []Unique
  <1>1. Init => Unique
    BY DEF Init, Unique, UniqueAt, Accepting, Shared
  <1> QED
    BY <1>1, CliInvariant, UniqueKept, PTL DEF Spec

\* Of all the runs ever made against one database file at most one exits 0 for a
\* nonce, whatever races, fails, dies or is run again (docs/threat-model.md:39).
THEOREM AtMostOneAdmission == Spec => []OneAdmissionPerNonce
  <1>1. Unique => OneAdmissionPerNonce
    BY DEF Unique, UniqueAt, OneAdmissionPerNonce
  <1> QED
    BY <1>1, UniqueInvariant, PTL

\* A run about to exit 0 finds its own attestation in the table: no failure of
\* the store looks like an admission (cli.py:170-179, replay.py:51).
THEOREM AdmittedMeansRecorded == Spec => []AdmissionIsRecorded
  <1>1. CliInv /\ Unique => AdmissionIsRecorded
    <2> SUFFICES ASSUME CliInv, Unique, NEW p \in Processes, outcome[p] = "ADMITTED",
                        job[p].stored, StoreOf[p] \in Shared
                 PROVE  rows[StoreOf[p]][NonceOf[job[p].attestation]] = job[p].attestation
      BY DEF AdmissionIsRecorded
    <2>1. NonceOf[job[p].attestation] \in Nonces
      BY CliAssumption DEF CliInv, Control
    <2>2. Accepting(p, StoreOf[p], NonceOf[job[p].attestation])
      BY DEF Accepting
    <2> QED
      BY <2>1, <2>2 DEF Unique, UniqueAt
  <1> QED
    BY <1>1, CliInvariant, UniqueInvariant, PTL
=============================================================================
