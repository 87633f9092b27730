---------------------------- MODULE ReplayStore ----------------------------
(***************************************************************************)
(* SQLiteReplayStore (src/locusmesh/replay.py): several handles, each an   *)
(* object of one process, record nonces in databases that they may share.  *)
(* _connect is three separate effects (mkdir, connect, CREATE TABLE), each *)
(* of which can fail on its own; only INSERT OR IGNORE is atomic.          *)
(***************************************************************************)
EXTENDS Integers, FiniteSets

CONSTANTS
    Handles,      \* SQLiteReplayStore objects
    Stores,       \* databases
    StoreOf,      \* [Handles -> Stores]
    Private,      \* the handles whose path is ":memory:"
    Nonces,
    Entries,      \* the (request_commitment, attestation_digest) pairs recorded
    NoNonce,      \* a handle with no call under way
    NoEntry       \* the row of a nonce that is not in the table

ASSUME StoreAssumption ==
    /\ StoreOf \in [Handles -> Stores]
    /\ Private \subseteq Handles
    /\ NoNonce \notin Nonces
    /\ NoEntry \notin Entries
    \* every ":memory:" connection has a database of its own
    /\ \A p \in Private, h \in Handles : StoreOf[h] = StoreOf[p] => h = p

VARIABLES
    layout,       \* what exists at each path: nothing, directory, file or table
    rows,         \* [Stores -> [Nonces -> Entries \cup {NoEntry}]], verified_nonce
    connection,   \* the handle's _connection, "none" or "open"
    pc,           \* where record_if_new is
    nonce,        \* its arguments
    entry,
    answer,       \* what it is about to return ("new", "seen") or raise
    granted       \* history: the <<store, nonce>> pairs answered TRUE so far

handleVars == <<connection, pc, nonce, entry, answer>>
vars == <<layout, rows, connection, pc, nonce, entry, answer, granted>>

Steps == {"idle", "mkdir", "open", "create", "insert", "answered", "raising"}
Answers == {"none", "new", "seen", "OSError", "sqlite3.Error"}
NoRows == [n \in Nonces |-> NoEntry]

Init ==
    /\ layout = [s \in Stores |-> "nothing"]
    /\ rows = [s \in Stores |-> NoRows]
    /\ connection = [h \in Handles |-> "none"]
    /\ pc = [h \in Handles |-> "idle"]
    /\ nonce = [h \in Handles |-> NoNonce]
    /\ entry = [h \in Handles |-> NoEntry]
    /\ answer = [h \in Handles |-> "none"]
    /\ granted = {}

-----------------------------------------------------------------------------
(* Databases *)

\* A ":memory:" database lives exactly as long as its connection.
Forget(h) ==
    LET s == StoreOf[h]
    IN  IF h \in Private
        THEN /\ layout' = [layout EXCEPT ![s] = "nothing"]
             /\ rows' = [rows EXCEPT ![s] = NoRows]
             /\ granted' = {g \in granted : g[1] # s}
        ELSE UNCHANGED <<layout, rows, granted>>

Goto(h, step) == pc' = [pc EXCEPT ![h] = step]

\* An exception leaves record_if_new; whatever connection _connect had opened
\* was local to it and is dropped, and _connection keeps its value.
Raise(h, error) ==
    /\ Goto(h, "raising")
    /\ answer' = [answer EXCEPT ![h] = error]
    /\ UNCHANGED <<connection, nonce, entry>>

-----------------------------------------------------------------------------
(* record_if_new *)

RecordIfNew(h, n, e) ==
    /\ pc[h] = "idle"
    /\ nonce' = [nonce EXCEPT ![h] = n]
    /\ entry' = [entry EXCEPT ![h] = e]
    /\ Goto(h, IF connection[h] = "open" THEN "insert"
               ELSE IF h \in Private THEN "open" ELSE "mkdir")
    /\ UNCHANGED <<layout, rows, connection, answer, granted>>

MakeDirectory(h) ==
    LET s == StoreOf[h]
    IN  /\ pc[h] = "mkdir"
        /\ layout' = [layout EXCEPT ![s] = IF @ = "nothing" THEN "directory" ELSE @]
        /\ Goto(h, "open")
        /\ UNCHANGED <<rows, connection, nonce, entry, answer, granted>>

\* The parent path is a file, is not writable, ...
MakeDirectoryFails(h) ==
    /\ pc[h] = "mkdir"
    /\ Raise(h, "OSError")
    /\ UNCHANGED <<layout, rows, granted>>

\* Mutant: The handle keeps the connection before the table exists.
OpenDatabaseAndKeep(h) ==
    /\ pc[h] = "open"
    /\ layout' = [layout EXCEPT ![StoreOf[h]] = IF @ = "table" THEN @ ELSE "file"]
    /\ connection' = [connection EXCEPT ![h] = "open"]
    /\ Goto(h, "create")
    /\ UNCHANGED <<rows, nonce, entry, answer, granted>>

\* sqlite3.connect and the WAL pragma: the file exists from here on.
OpenDatabase(h) ==
    LET s == StoreOf[h]
    IN  /\ pc[h] = "open"
        /\ layout' = [layout EXCEPT ![s] = IF @ = "table" THEN @ ELSE "file"]
        /\ Goto(h, "create")
        /\ UNCHANGED <<rows, connection, nonce, entry, answer, granted>>

\* Either statement fails; a file made by connect stays when the pragma fails.
OpenDatabaseFails(h) ==
    /\ pc[h] = "open"
    /\ Raise(h, "sqlite3.Error")
    /\ \/ UNCHANGED layout
       \/ /\ h \notin Private
          /\ layout' = [layout EXCEPT ![StoreOf[h]] = IF @ = "table" THEN @ ELSE "file"]
    /\ UNCHANGED <<rows, granted>>

\* Mutant: The table is made anew on every connection.
CreateTableAfresh(h) ==
    /\ pc[h] = "create"
    /\ layout' = [layout EXCEPT ![StoreOf[h]] = "table"]
    /\ rows' = [rows EXCEPT ![StoreOf[h]] = NoRows]
    /\ connection' = [connection EXCEPT ![h] = "open"]
    /\ Goto(h, "insert")
    /\ UNCHANGED <<nonce, entry, answer, granted>>

\* CREATE TABLE IF NOT EXISTS; only then does the handle keep the connection.
CreateTable(h) ==
    /\ pc[h] = "create"
    /\ layout' = [layout EXCEPT ![StoreOf[h]] = "table"]
    /\ connection' = [connection EXCEPT ![h] = "open"]
    /\ Goto(h, "insert")
    /\ UNCHANGED <<rows, nonce, entry, answer, granted>>

CreateTableFails(h) ==
    /\ pc[h] = "create"
    /\ Raise(h, "sqlite3.Error")
    /\ Forget(h)

\* Mutant: INSERT OR REPLACE.
InsertOrReplace(h) ==
    /\ pc[h] = "insert"
    /\ rows' = [rows EXCEPT ![StoreOf[h]][nonce[h]] = entry[h]]
    /\ answer' = [answer EXCEPT ![h] = "new"]
    /\ Goto(h, "answered")
    /\ UNCHANGED <<layout, connection, nonce, entry, granted>>

\* Mutant: rowcount read the wrong way round.
InsertMisread(h) ==
    LET s == StoreOf[h]
        absent == rows[s][nonce[h]] = NoEntry
    IN  /\ pc[h] = "insert"
        /\ rows' = [rows EXCEPT ![s][nonce[h]] = IF absent THEN entry[h] ELSE @]
        /\ answer' = [answer EXCEPT ![h] = IF absent THEN "seen" ELSE "new"]
        /\ Goto(h, "answered")
        /\ UNCHANGED <<layout, connection, nonce, entry, granted>>

\* INSERT OR IGNORE in autocommit mode: one atomic step of the database.
Insert(h) ==
    LET s == StoreOf[h]
        absent == rows[s][nonce[h]] = NoEntry
    IN  /\ pc[h] = "insert"
        /\ rows' = [rows EXCEPT ![s][nonce[h]] = IF absent THEN entry[h] ELSE @]
        /\ answer' = [answer EXCEPT ![h] = IF absent THEN "new" ELSE "seen"]
        /\ Goto(h, "answered")
        /\ UNCHANGED <<layout, connection, nonce, entry, granted>>

\* Mutant: A write that is reported as failed and stays.
InsertFailsAndWrites(h) ==
    /\ pc[h] = "insert"
    /\ Raise(h, "sqlite3.Error")
    /\ rows' = [rows EXCEPT ![StoreOf[h]][nonce[h]] = entry[h]]
    /\ UNCHANGED <<layout, granted>>

\* The busy timeout passed, or the file cannot be written.
InsertFails(h) ==
    /\ pc[h] = "insert"
    /\ Raise(h, "sqlite3.Error")
    /\ UNCHANGED <<layout, rows, granted>>

\* The call ends: the caller gets the boolean, or the exception.
Return(h) ==
    /\ pc[h] \in {"answered", "raising"}
    /\ granted' = IF answer[h] = "new"
                  THEN granted \cup {<<StoreOf[h], nonce[h]>>} ELSE granted
    /\ Goto(h, "idle")
    /\ nonce' = [nonce EXCEPT ![h] = NoNonce]
    /\ entry' = [entry EXCEPT ![h] = NoEntry]
    /\ answer' = [answer EXCEPT ![h] = "none"]
    /\ UNCHANGED <<layout, rows, connection>>

-----------------------------------------------------------------------------
(* close, and the death of the process that owns the handle *)

\* Mutant: The handle keeps the connection it closed.
CloseAndKeep(h) ==
    /\ pc[h] = "idle"
    /\ connection[h] = "open"
    /\ connection' = [connection EXCEPT ![h] = "closed"]
    /\ Forget(h)
    /\ UNCHANGED <<pc, nonce, entry, answer>>

Close(h) ==
    /\ pc[h] = "idle"
    /\ connection[h] = "open"
    /\ connection' = [connection EXCEPT ![h] = "none"]
    /\ Forget(h)
    /\ UNCHANGED <<pc, nonce, entry, answer>>

Crash(h) ==
    /\ pc[h] # "idle" \/ connection[h] = "open"
    /\ connection' = [connection EXCEPT ![h] = "none"]
    /\ Goto(h, "idle")
    /\ nonce' = [nonce EXCEPT ![h] = NoNonce]
    /\ entry' = [entry EXCEPT ![h] = NoEntry]
    /\ answer' = [answer EXCEPT ![h] = "none"]
    /\ Forget(h)

-----------------------------------------------------------------------------
Advance(h) ==
    \/ MakeDirectory(h) \/ MakeDirectoryFails(h)
    \/ OpenDatabase(h) \/ OpenDatabaseFails(h)
    \/ CreateTable(h) \/ CreateTableFails(h)
    \/ Insert(h) \/ InsertFails(h)
    \/ Return(h)

Next ==
    \E h \in Handles :
        \/ \E n \in Nonces, e \in Entries : RecordIfNew(h, n, e)
        \/ Advance(h)
        \/ Close(h)
        \/ Crash(h)

Spec == Init /\ [][Next]_vars

-----------------------------------------------------------------------------
(* Properties *)

Durable == {s \in Stores : \A p \in Private : StoreOf[p] # s}

TypeOK ==
    /\ layout \in [Stores -> {"nothing", "directory", "file", "table"}]
    /\ rows \in [Stores -> [Nonces -> Entries \cup {NoEntry}]]
    /\ connection \in [Handles -> {"none", "open"}]
    /\ pc \in [Handles -> Steps]
    /\ nonce \in [Handles -> Nonces \cup {NoNonce}]
    /\ entry \in [Handles -> Entries \cup {NoEntry}]
    /\ answer \in [Handles -> Answers]
    /\ granted \subseteq Stores \X Nonces

\* Two calls never both win a nonce of one database, however their connects,
\* inserts, failures and crashes interleave (replay.py:34-51): a call about to
\* return True has no rival about to do so and no predecessor that did.
AtMostOneWinner ==
    \A h \in Handles :
        answer[h] = "new" =>
            /\ <<StoreOf[h], nonce[h]>> \notin granted
            /\ \A g \in Handles \ {h} :
                  ~ ( /\ answer[g] = "new"
                      /\ StoreOf[g] = StoreOf[h]
                      /\ nonce[g] = nonce[h] )

\* The boolean of record_if_new never disagrees with the table: a winner finds
\* its own commitment and digest there, a loser somebody's, and a nonce once
\* answered True is still there, after crashes and reconnects too.
AnswersMatchTheTable ==
    /\ \A h \in Handles :
          LET row == rows[StoreOf[h]][nonce[h]]
          IN  /\ answer[h] = "new" => row = entry[h]
              /\ answer[h] = "seen" => row # NoEntry
    /\ \A g \in granted : rows[g[1]][g[2]] # NoEntry

\* A handle that kept its connection can insert: no failure half way through
\* _connect (replay.py:16-32) leaves _connection set without verified_nonce.
OpenMeansTable ==
    \A h \in Handles : connection[h] = "open" => layout[StoreOf[h]] = "table"

\* A row of a database file is written once: OR IGNORE never replaces the
\* commitment of the first winner, and no error path or close removes it.
RowsArePermanent ==
    [][\A s \in Durable, n \in Nonces :
          rows[s][n] # NoEntry => rows'[s][n] = rows[s][n]]_vars

\* The port's promise: for handles on database files the three-step connect and
\* the insert together are one test-and-set (ports.py:43, record_if_new).
Register == INSTANCE NonceRegister WITH
    Callers <- Handles \ Private,
    Scopes  <- Durable,
    ScopeOf <- StoreOf,
    spent   <- [s \in Durable |-> {n \in Nonces : rows[s][n] # NoEntry}],
    asking  <- [h \in Handles \ Private |-> nonce[h]],
    verdict <- [h \in Handles \ Private |->
                   IF answer[h] \in {"OSError", "sqlite3.Error"} THEN "error"
                   ELSE answer[h]]

ImplementsRegister == Register!RegisterSpec
=============================================================================
