------------------------- MODULE ReplayStoreProofs -------------------------
(***************************************************************************)
(* What holds of SQLiteReplayStore for any number of handles, databases    *)
(* and nonces.  The booleans of record_if_new are decided at the INSERT    *)
(* and delivered later, so the invariant must say what a call carries in   *)
(* between: its own arguments, and an answer the table agrees with.  The   *)
(* same invariant shows that the store keeps the promise of its port.      *)
(***************************************************************************)
EXTENDS ReplayStore, TLAPS

\* What each value of pc says about the call of the handle.
CallInFlight ==
    \A h \in Handles :
        /\ pc[h] # "idle" => nonce[h] \in Nonces /\ entry[h] \in Entries
        /\ pc[h] = "idle" => nonce[h] = NoNonce
        /\ answer[h] # "none" => pc[h] \in {"answered", "raising"}
        /\ answer[h] \in {"new", "seen"} => pc[h] = "answered"
        /\ pc[h] = "answered" => answer[h] \in {"new", "seen"}
        /\ pc[h] = "raising" => answer[h] \in {"OSError", "sqlite3.Error"}
        /\ pc[h] \in {"mkdir", "open", "create"} => connection[h] = "none"

IInv ==
    /\ TypeOK
    /\ CallInFlight
    /\ AnswersMatchTheTable
    /\ OpenMeansTable
    /\ AtMostOneWinner

\* Forgetting a ":memory:" database concerns no other handle and takes with
\* it the history of that database only.
LEMMA ForgetIsLocal ==
    ASSUME TypeOK, NEW h \in Handles, Forget(h)
    PROVE  /\ layout' \in [Stores -> {"nothing", "directory", "file", "table"}]
           /\ rows' \in [Stores -> [Nonces -> Entries \cup {NoEntry}]]
           /\ granted' \subseteq granted
           /\ \A g \in Handles \ {h} : /\ layout'[StoreOf[g]] = layout[StoreOf[g]]
                                       /\ rows'[StoreOf[g]] = rows[StoreOf[g]]
           /\ \A x \in granted' : rows'[x[1]] = rows[x[1]]
  <1>1. CASE h \in Private
    <2>1. \A g \in Handles \ {h} : StoreOf[g] # StoreOf[h]
      BY <1>1, StoreAssumption
    <2>2. NoRows \in [Nonces -> Entries \cup {NoEntry}]
      BY DEF NoRows
    <2>3. /\ layout' = [layout EXCEPT ![StoreOf[h]] = "nothing"]
          /\ rows' = [rows EXCEPT ![StoreOf[h]] = NoRows]
          /\ granted' = {x \in granted : x[1] # StoreOf[h]}
      BY <1>1 DEF Forget
    <2> QED
      BY <2>1, <2>2, <2>3, StoreAssumption DEF TypeOK
  <1>2. CASE h \notin Private
    BY <1>2 DEF Forget, TypeOK
  <1> QED
    BY <1>1, <1>2

\* A store nobody has used yet: no rows, no connections, no calls.
LEMMA InitEstablishes == Init => IInv
  BY StoreAssumption DEF Init, IInv, TypeOK, CallInFlight, AnswersMatchTheTable,
     OpenMeansTable, AtMostOneWinner, NoRows, Steps, Answers

\* Every statement of record_if_new and of _connect, every failure of one, close
\* and a crash keep the invariant (replay.py:16-62), one action at a time: each
\* moves one handle and touches only the database of that handle.
THEOREM Preservation == IInv /\ [Next]_vars => IInv'
  <1> SUFFICES ASSUME IInv, [Next]_vars
               PROVE  IInv'
    OBVIOUS
  <1> USE DEF IInv
  <1>u. CASE UNCHANGED vars
    BY <1>u DEF vars, TypeOK, CallInFlight, AnswersMatchTheTable, OpenMeansTable, AtMostOneWinner
  <1> SUFFICES ASSUME NEW h \in Handles,
                      \/ \E n \in Nonces, e \in Entries : RecordIfNew(h, n, e)
                      \/ Advance(h) \/ Close(h) \/ Crash(h)
               PROVE  IInv'
    BY <1>u DEF Next
  <1> DEFINE s == StoreOf[h]
  <1>s. s \in Stores
    BY StoreAssumption
  <1>1. CASE \E n \in Nonces, e \in Entries : RecordIfNew(h, n, e)
    BY <1>1, <1>s, StoreAssumption
    DEF RecordIfNew, Goto,
        TypeOK, CallInFlight, AnswersMatchTheTable, OpenMeansTable, AtMostOneWinner, Steps, Answers
  <1>2. CASE MakeDirectory(h)
    BY <1>2, <1>s, StoreAssumption
    DEF MakeDirectory, Goto,
        TypeOK, CallInFlight, AnswersMatchTheTable, OpenMeansTable, AtMostOneWinner, Steps, Answers
  <1>3. CASE MakeDirectoryFails(h)
    <2>1. TypeOK'
      BY <1>3, <1>s, StoreAssumption DEF MakeDirectoryFails, Raise, Goto, TypeOK, Steps, Answers
    <2>2. CallInFlight'
      BY <1>3, <1>s, StoreAssumption DEF MakeDirectoryFails, Raise, Goto, CallInFlight, TypeOK
    <2>3. AnswersMatchTheTable'
      BY <1>3, <1>s, StoreAssumption DEF MakeDirectoryFails, Raise, Goto, AnswersMatchTheTable, CallInFlight, TypeOK
    <2>4. OpenMeansTable'
      BY <1>3, <1>s, StoreAssumption DEF MakeDirectoryFails, Raise, Goto, OpenMeansTable, CallInFlight, TypeOK
    <2>5. AtMostOneWinner'
      BY <1>3, <1>s, StoreAssumption DEF MakeDirectoryFails, Raise, Goto, AtMostOneWinner, CallInFlight, AnswersMatchTheTable, TypeOK
    <2> QED
      BY <2>1, <2>2, <2>3, <2>4, <2>5
  <1>4. CASE OpenDatabase(h)
    BY <1>4, <1>s, StoreAssumption
    DEF OpenDatabase, Goto,
        TypeOK, CallInFlight, AnswersMatchTheTable, OpenMeansTable, AtMostOneWinner, Steps, Answers
  <1>5. CASE OpenDatabaseFails(h)
    <2>1. /\ layout' \in [Stores -> {"nothing", "directory", "file", "table"}]
          /\ \A t \in Stores : layout[t] = "table" => layout'[t] = "table"
      BY <1>5, <1>s DEF OpenDatabaseFails, TypeOK
    <2>2. /\ UNCHANGED <<rows, granted, connection, nonce, entry>>
          /\ pc' = [pc EXCEPT ![h] = "raising"]
          /\ answer' = [answer EXCEPT ![h] = "sqlite3.Error"]
      BY <1>5 DEF OpenDatabaseFails, Raise, Goto
    <2>3. pc[h] = "open"
      BY <1>5 DEF OpenDatabaseFails
    <2>4. TypeOK'
      BY <2>1, <2>2 DEF TypeOK, Steps, Answers
    <2>5. CallInFlight'
      BY <2>2, <2>3 DEF CallInFlight, TypeOK
    <2>6. AnswersMatchTheTable'
      BY <2>2 DEF AnswersMatchTheTable, TypeOK
    <2>7. OpenMeansTable'
      BY <2>1, <2>2, StoreAssumption DEF OpenMeansTable
    <2>8. AtMostOneWinner'
      BY <2>2 DEF AtMostOneWinner, TypeOK
    <2> QED
      BY <2>4, <2>5, <2>6, <2>7, <2>8
  <1>6. CASE CreateTable(h)
    <2>1. TypeOK'
      BY <1>6, <1>s DEF CreateTable, Goto, TypeOK, Steps, Answers
    <2>2. CallInFlight'
      BY <1>6 DEF CreateTable, Goto, CallInFlight, TypeOK
    <2>3. AnswersMatchTheTable' /\ AtMostOneWinner'
      BY <1>6 DEF CreateTable, AnswersMatchTheTable, AtMostOneWinner
    <2>4. OpenMeansTable'
      BY <1>6, <1>s, StoreAssumption DEF CreateTable, OpenMeansTable, TypeOK
    <2> QED
      BY <2>1, <2>2, <2>3, <2>4
  <1>7. CASE CreateTableFails(h)
    <2>1. TypeOK'
      BY <1>7, <1>s, ForgetIsLocal, StoreAssumption DEF CreateTableFails, Raise, Goto, TypeOK, Steps, Answers
    <2>2. CallInFlight'
      BY <1>7, <1>s, ForgetIsLocal, StoreAssumption DEF CreateTableFails, Raise, Goto, CallInFlight, TypeOK
    <2>3. AnswersMatchTheTable'
      <3>1. answer'[h] \notin {"new", "seen"}
        BY <1>7 DEF CreateTableFails, Raise, Goto, CallInFlight, TypeOK
      <3>2. /\ UNCHANGED <<nonce, entry>>
            /\ \A g \in Handles \ {h} : /\ rows'[StoreOf[g]] = rows[StoreOf[g]]
                                        /\ answer'[g] = answer[g]
        <4>1. UNCHANGED <<nonce, entry>> /\ answer' = [answer EXCEPT ![h] = "sqlite3.Error"]
          BY <1>7 DEF CreateTableFails, Raise
        <4>2. \A g \in Handles \ {h} : answer'[g] = answer[g]
          BY <4>1 DEF TypeOK
        <4>3. Forget(h)
          BY <1>7 DEF CreateTableFails
        <4> QED
          BY <4>1, <4>2, <4>3, ForgetIsLocal
      <3>3. \A x \in granted' : rows'[x[1]][x[2]] # NoEntry
        BY <1>7, ForgetIsLocal DEF CreateTableFails, Raise, Goto, AnswersMatchTheTable
      <3> QED
        BY <3>1, <3>2, <3>3 DEF AnswersMatchTheTable
    <2>4. OpenMeansTable'
      <3>1. UNCHANGED connection /\ connection[h] = "none"
        BY <1>7 DEF CreateTableFails, Raise, CallInFlight
      <3>2. \A g \in Handles \ {h} : layout'[StoreOf[g]] = layout[StoreOf[g]]
        BY <1>7, ForgetIsLocal DEF CreateTableFails
      <3> QED
        BY <3>1, <3>2 DEF OpenMeansTable
    <2>5. AtMostOneWinner'
      BY <1>7, <1>s, ForgetIsLocal, StoreAssumption DEF CreateTableFails, Raise, Goto, AtMostOneWinner, CallInFlight, AnswersMatchTheTable, TypeOK
    <2> QED
      BY <2>1, <2>2, <2>3, <2>4, <2>5
  <1>8. CASE Insert(h)
    BY <1>8, <1>s, StoreAssumption
    DEF Insert, Goto,
        TypeOK, CallInFlight, AnswersMatchTheTable, OpenMeansTable, AtMostOneWinner, Steps, Answers
  <1>9. CASE InsertFails(h)
    BY <1>9, <1>s, StoreAssumption
    DEF InsertFails, Raise, Goto,
        TypeOK, CallInFlight, AnswersMatchTheTable, OpenMeansTable, AtMostOneWinner, Steps, Answers
  <1>10. CASE Return(h)
    BY <1>10, <1>s, StoreAssumption
    DEF Return, Goto,
        TypeOK, CallInFlight, AnswersMatchTheTable, OpenMeansTable, AtMostOneWinner, Steps, Answers
  <1>11. CASE Close(h)
    <2>1. TypeOK'
      BY <1>11, <1>s, ForgetIsLocal, StoreAssumption DEF Close, TypeOK, Steps, Answers
    <2>2. CallInFlight'
      BY <1>11, <1>s, ForgetIsLocal, StoreAssumption DEF Close, CallInFlight, TypeOK
    <2>3. AnswersMatchTheTable'
      <3>1. answer'[h] \notin {"new", "seen"}
        BY <1>11 DEF Close, CallInFlight, TypeOK
      <3>2. /\ UNCHANGED <<nonce, entry>>
            /\ \A g \in Handles \ {h} : /\ rows'[StoreOf[g]] = rows[StoreOf[g]]
                                        /\ answer'[g] = answer[g]
        BY <1>11, ForgetIsLocal DEF Close, TypeOK
      <3>3. \A x \in granted' : rows'[x[1]][x[2]] # NoEntry
        BY <1>11, ForgetIsLocal DEF Close, AnswersMatchTheTable
      <3> QED
        BY <3>1, <3>2, <3>3 DEF AnswersMatchTheTable
    <2>4. OpenMeansTable'
      BY <1>11, <1>s, ForgetIsLocal, StoreAssumption DEF Close, OpenMeansTable, CallInFlight, TypeOK
    <2>5. AtMostOneWinner'
      BY <1>11, <1>s, ForgetIsLocal, StoreAssumption DEF Close, AtMostOneWinner, CallInFlight, AnswersMatchTheTable, TypeOK
    <2> QED
      BY <2>1, <2>2, <2>3, <2>4, <2>5
  <1>12. CASE Crash(h)
    <2>1. TypeOK'
      BY <1>12, <1>s, ForgetIsLocal, StoreAssumption DEF Crash, Goto, TypeOK, Steps, Answers
    <2>2. CallInFlight'
      BY <1>12, <1>s, ForgetIsLocal, StoreAssumption DEF Crash, Goto, CallInFlight, TypeOK
    <2>3. AnswersMatchTheTable'
      BY <1>12, <1>s, ForgetIsLocal, StoreAssumption DEF Crash, Goto, AnswersMatchTheTable, CallInFlight, TypeOK
    <2>4. OpenMeansTable'
      BY <1>12, <1>s, ForgetIsLocal, StoreAssumption DEF Crash, Goto, OpenMeansTable, CallInFlight, TypeOK
    <2>5. AtMostOneWinner'
      BY <1>12, <1>s, ForgetIsLocal, StoreAssumption DEF Crash, Goto, AtMostOneWinner, CallInFlight, AnswersMatchTheTable, TypeOK
    <2> QED
      BY <2>1, <2>2, <2>3, <2>4, <2>5
  <1> QED
    BY <1>1, <1>2, <1>3, <1>4, <1>5, <1>6, <1>7, <1>8, <1>9, <1>10, <1>11, <1>12 DEF Advance

\* The strengthened invariant holds in every reachable state of any number of
\* handles, whatever fails and whoever crashes (replay.py:34-51).
THEOREM Invariance == Spec => []IInv
  <1>1. Init => IInv
    BY InitEstablishes
  <1>2. IInv /\ [Next]_vars => IInv'
    BY Preservation
  <1> QED
    BY <1>1, <1>2, PTL DEF Spec

\* The state of every handle and database keeps its shape.
THEOREM TypeCorrect == Spec => []TypeOK
  BY Invariance, PTL DEF IInv

\* Of any number of concurrent, crashing, reconnecting calls on one database,
\* at most one is ever told that a nonce is new.
THEOREM OneWinner == Spec => []AtMostOneWinner
  BY Invariance, PTL DEF IInv

\* The booleans agree with the table, and a granted nonce stays recorded.
THEOREM AnswersAgree == Spec => []AnswersMatchTheTable
  BY Invariance, PTL DEF IInv

\* A kept connection always has its table.
THEOREM ConnectedMeansUsable == Spec => []OpenMeansTable
  BY Invariance, PTL DEF IInv

\* No step, not even a failure or a crash, rewrites or removes a row of a
\* database file.
THEOREM PermanentRows == Spec => RowsArePermanent
  <1>1. IInv /\ [Next]_vars =>
            [\A s \in Durable, n \in Nonces :
                 rows[s][n] # NoEntry => rows'[s][n] = rows[s][n]]_vars
    <2> SUFFICES ASSUME IInv, Next, NEW s \in Durable, NEW n \in Nonces,
                        rows[s][n] # NoEntry
                 PROVE  rows'[s][n] = rows[s][n]
      OBVIOUS
    <2> PICK h \in Handles :
            \/ \E k \in Nonces, e \in Entries : RecordIfNew(h, k, e)
            \/ Advance(h) \/ Close(h) \/ Crash(h)
      BY DEF Next
    <2>1. CASE Insert(h)
      BY <2>1 DEF Insert, IInv, TypeOK, Durable
    <2>2. ASSUME Forget(h) PROVE rows'[s] = rows[s]
      BY <2>2, StoreAssumption DEF Forget, Durable, IInv, TypeOK
    <2>3. CASE CreateTableFails(h) \/ Close(h) \/ Crash(h)
      BY <2>2, <2>3 DEF CreateTableFails, Close, Crash
    <2>4. CASE UNCHANGED rows
      BY <2>4
    <2> QED
      BY <2>1, <2>3, <2>4
      DEF RecordIfNew, Advance, MakeDirectory, MakeDirectoryFails, OpenDatabase,
          OpenDatabaseFails, CreateTable, InsertFails, Return
  <1> QED
    BY <1>1, Invariance, PTL DEF Spec, RowsArePermanent

-----------------------------------------------------------------------------
(***************************************************************************)
(* Seen from the callers of database files, mkdir, connect, CREATE TABLE,  *)
(* INSERT and all their failures are one test-and-set of NonceRegister.    *)
(***************************************************************************)

Callers == Handles \ Private

\* The state of NonceRegister, as ReplayStore maps it.
spent == [s \in Durable |-> {n \in Nonces : rows[s][n] # NoEntry}]
asking == [h \in Callers |-> nonce[h]]
verdict ==
    [h \in Callers |->
        IF answer[h] \in {"OSError", "sqlite3.Error"} THEN "error" ELSE answer[h]]

RegisterUnchanged == spent' = spent /\ asking' = asking /\ verdict' = verdict

\* A caller and a ":memory:" handle never use the same database.
LEMMA CallersAreDurable == \A h \in Callers : StoreOf[h] \in Durable
  BY StoreAssumption DEF Callers, Durable

\* Steps that leave the rows of database files, and the arguments and answers
\* of callers alone, are steps the register does not see.
LEMMA Stutter ==
    ASSUME \A s \in Durable : rows'[s] = rows[s],
           \A h \in Callers : nonce'[h] = nonce[h] /\ answer'[h] = answer[h]
    PROVE  RegisterUnchanged
  BY DEF RegisterUnchanged, spent, asking, verdict

\* Dropping a ":memory:" database leaves every database file alone.
LEMMA ForgetSparesFiles ==
    ASSUME TypeOK, NEW h \in Handles, Forget(h)
    PROVE  \A s \in Durable : rows'[s] = rows[s]
  BY StoreAssumption DEF Forget, Durable, TypeOK

\* The INSERT of a caller is the test-and-set of the register.
LEMMA InsertIsTestAndSet ==
    ASSUME IInv, NEW h \in Callers, Insert(h)
    PROVE  Register!TestAndSet(h)
  <1> DEFINE s == StoreOf[h]
             n == nonce[h]
             absent == rows[s][n] = NoEntry
  <1>1. h \in Handles /\ s \in Durable /\ s \in Stores
    BY CallersAreDurable DEF Callers, Durable
  <1>2. n \in Nonces /\ entry[h] \in Entries /\ answer[h] = "none"
    BY <1>1 DEF IInv, CallInFlight, Insert
  <1>3. /\ rows' = [rows EXCEPT ![s][n] = IF absent THEN entry[h] ELSE @]
        /\ answer' = [answer EXCEPT ![h] = IF absent THEN "new" ELSE "seen"]
        /\ UNCHANGED nonce
    BY DEF Insert
  <1>4. n \in spent[s] <=> ~absent
    BY <1>1, <1>2 DEF spent
  <1>5. asking[h] # NoNonce /\ verdict[h] = "none" /\ asking[h] = n
    BY <1>1, <1>2, StoreAssumption DEF asking, verdict
  <1>6. verdict' = [verdict EXCEPT ![h] = IF asking[h] \in spent[s] THEN "seen" ELSE "new"]
    BY <1>1, <1>3, <1>4, <1>5 DEF verdict, Callers, IInv, TypeOK
  <1>7. spent' = [spent EXCEPT ![s] = @ \cup {asking[h]}]
    <2>1. ASSUME NEW t \in Durable
          PROVE  spent'[t] = IF t = s THEN spent[t] \cup {n} ELSE spent[t]
      <3>1. t \in Stores
        BY DEF Durable
      <3>2. CASE t # s
        BY <1>3, <3>1, <3>2 DEF spent, IInv, TypeOK
      <3>3. CASE t = s
        <4>1. \A k \in Nonces : rows'[s][k] # NoEntry <=> rows[s][k] # NoEntry \/ k = n
          BY <1>1, <1>2, <1>3, StoreAssumption DEF IInv, TypeOK
        <4> QED
          BY <1>1, <1>2, <3>3, <4>1 DEF spent
      <3> QED
        BY <3>2, <3>3
    <2>2. spent' = [t \in Durable |-> spent'[t]]
      BY DEF spent
    <2>3. spent = [t \in Durable |-> spent[t]]
      BY DEF spent
    <2> QED
      BY <1>5, <2>1, <2>2, <2>3
  <1>8. UNCHANGED asking
    BY <1>3 DEF asking
  <1> QED
    BY <1>5, <1>6, <1>7, <1>8 DEF Register!TestAndSet, spent, asking, verdict, Callers

\* A statement that fails, in _connect or in record_if_new, gives no verdict.
LEMMA RaiseIsFail ==
    ASSUME IInv, NEW h \in Callers, NEW error \in {"OSError", "sqlite3.Error"},
           pc[h] \notin {"idle", "answered", "raising"}, Raise(h, error),
           \A s \in Durable : rows'[s] = rows[s]
    PROVE  Register!Fail(h)
  <1>1. nonce[h] \in Nonces /\ answer[h] = "none"
    BY DEF IInv, CallInFlight, Callers
  <1>2. asking[h] # NoNonce /\ verdict[h] = "none"
    BY <1>1, StoreAssumption DEF asking, verdict
  <1>3. answer' = [answer EXCEPT ![h] = error] /\ UNCHANGED nonce
    BY DEF Raise
  <1>4. verdict' = [verdict EXCEPT ![h] = "error"]
    BY <1>3 DEF verdict, Callers, IInv, TypeOK
  <1>5. UNCHANGED asking /\ UNCHANGED spent
    BY <1>3 DEF asking, spent
  <1> QED
    BY <1>2, <1>4, <1>5 DEF Register!Fail, spent, asking, verdict, Callers

\* A call that ends, with a verdict or with its process, is done asking.
LEMMA EndIsLeave ==
    ASSUME IInv, NEW h \in Callers, pc[h] # "idle",
           nonce' = [nonce EXCEPT ![h] = NoNonce],
           answer' = [answer EXCEPT ![h] = "none"],
           \A s \in Durable : rows'[s] = rows[s]
    PROVE  Register!Leave(h)
  <1>1. asking[h] # NoNonce
    BY StoreAssumption DEF IInv, CallInFlight, Callers, asking
  <1>2. asking' = [asking EXCEPT ![h] = NoNonce]
    BY DEF asking, Callers, IInv, TypeOK
  <1>3. verdict' = [verdict EXCEPT ![h] = "none"]
    BY DEF verdict, Callers, IInv, TypeOK
  <1>4. UNCHANGED spent
    BY DEF spent
  <1> QED
    BY <1>1, <1>2, <1>3, <1>4 DEF Register!Leave, spent, asking, verdict, Callers

\* A call that begins on a database file asks the register.
LEMMA CallIsAsk ==
    ASSUME IInv, NEW h \in Callers, NEW n \in Nonces, NEW e \in Entries,
           RecordIfNew(h, n, e)
    PROVE  Register!Ask(h, n)
  <1>1. asking[h] = NoNonce
    BY DEF IInv, CallInFlight, Callers, asking, RecordIfNew
  <1>2. asking' = [asking EXCEPT ![h] = n] /\ UNCHANGED <<spent, verdict>>
    BY DEF asking, spent, verdict, Callers, IInv, TypeOK, RecordIfNew
  <1> QED
    BY <1>1, <1>2 DEF Register!Ask, spent, asking, verdict, Callers

\* Every step of the store is a step of the register, or one it does not see.
THEOREM StepRefines ==
    IInv /\ [Next]_vars => [Register!RegisterNext]_<<spent, asking, verdict>>
  <1> SUFFICES ASSUME IInv, [Next]_vars
               PROVE  Register!RegisterNext \/ RegisterUnchanged
    BY DEF RegisterUnchanged
  <1>u. CASE UNCHANGED vars
    BY <1>u, Stutter DEF vars
  <1> SUFFICES ASSUME NEW h \in Handles,
                      \/ \E n \in Nonces, e \in Entries : RecordIfNew(h, n, e)
                      \/ Advance(h) \/ Close(h) \/ Crash(h)
               PROVE  Register!RegisterNext \/ RegisterUnchanged
    BY <1>u DEF Next
  <1>t. TypeOK
    BY DEF IInv
  <1>r. ASSUME h \in Callers,
               \/ \E n \in Nonces : Register!Ask(h, n)
               \/ Register!TestAndSet(h) \/ Register!Fail(h) \/ Register!Leave(h)
        PROVE  Register!RegisterNext
    BY <1>r DEF Register!RegisterNext, Callers
  \* The calls of a ":memory:" handle stay with it.
  <1>m. CASE h \notin Callers
    <2>1. \A g \in Callers : g # h
      BY <1>m
    <2>2. StoreOf[h] \notin Durable
      BY <1>m, StoreAssumption DEF Callers, Durable
    <2>3. \A g \in Callers : nonce'[g] = nonce[g] /\ answer'[g] = answer[g]
      BY <1>t, <2>1
      DEF RecordIfNew, Advance, MakeDirectory, MakeDirectoryFails, OpenDatabase,
          OpenDatabaseFails, CreateTable, CreateTableFails, Insert, InsertFails,
          Return, Close, Crash, Raise, Callers, TypeOK
    <2>4. \A s \in Durable : rows'[s] = rows[s]
      <3>1. CASE Insert(h)
        BY <1>t, <2>2, <3>1 DEF Insert, Durable, TypeOK
      <3>2. CASE CreateTableFails(h) \/ Close(h) \/ Crash(h)
        BY <1>t, <3>2, ForgetSparesFiles DEF CreateTableFails, Close, Crash
      <3>3. CASE UNCHANGED rows
        BY <3>3
      <3> QED
        BY <3>1, <3>2, <3>3
        DEF RecordIfNew, Advance, MakeDirectory, MakeDirectoryFails, OpenDatabase,
            OpenDatabaseFails, CreateTable, InsertFails, Return
    <2> QED
      BY <2>3, <2>4, Stutter
  <1> SUFFICES ASSUME h \in Callers
               PROVE  Register!RegisterNext \/ RegisterUnchanged
    BY <1>m
  <1>1. CASE \E n \in Nonces, e \in Entries : RecordIfNew(h, n, e)
    BY <1>1, <1>r, CallIsAsk
  <1>2. CASE MakeDirectory(h) \/ OpenDatabase(h) \/ CreateTable(h)
    BY <1>2, Stutter DEF MakeDirectory, OpenDatabase, CreateTable
  <1>3. CASE MakeDirectoryFails(h)
    <2>1. Register!Fail(h)
      BY <1>3, RaiseIsFail DEF MakeDirectoryFails
    <2> QED
      BY <2>1, <1>r
  <1>4. CASE OpenDatabaseFails(h) \/ InsertFails(h)
    <2>1. Register!Fail(h)
      BY <1>4, RaiseIsFail DEF OpenDatabaseFails, InsertFails
    <2> QED
      BY <2>1, <1>r
  <1>5. CASE CreateTableFails(h)
    <2>1. \A s \in Durable : rows'[s] = rows[s]
      BY <1>5, <1>t, ForgetSparesFiles DEF CreateTableFails
    <2>2. Register!Fail(h)
      BY <1>5, <2>1, RaiseIsFail DEF CreateTableFails
    <2> QED
      BY <2>2, <1>r
  <1>6. CASE Insert(h)
    BY <1>6, <1>r, InsertIsTestAndSet
  <1>7. CASE Return(h)
    <2>1. Register!Leave(h)
      BY <1>7, EndIsLeave DEF Return
    <2> QED
      BY <2>1, <1>r
  <1>8. CASE Close(h)
    <2>1. \A s \in Durable : rows'[s] = rows[s]
      BY <1>8, <1>t, ForgetSparesFiles DEF Close
    <2> QED
      BY <1>8, <2>1, Stutter DEF Close
  \* A process may die between two calls, with its connection open.
  <1>9. CASE Crash(h)
    <2>1. \A s \in Durable : rows'[s] = rows[s]
      BY <1>9, <1>t, ForgetSparesFiles DEF Crash
    <2>2. nonce' = [nonce EXCEPT ![h] = NoNonce] /\ answer' = [answer EXCEPT ![h] = "none"]
      BY <1>9 DEF Crash
    <2>3. CASE pc[h] # "idle"
      BY <2>1, <2>2, <2>3, <1>r, EndIsLeave
    <2>4. CASE pc[h] = "idle"
      <3>1. nonce[h] = NoNonce /\ answer[h] = "none"
        BY <2>4 DEF IInv, CallInFlight, Callers
      <3> QED
        BY <1>t, <2>1, <2>2, <3>1, Stutter DEF Callers, TypeOK
    <2> QED
      BY <2>3, <2>4
  <1> QED
    BY <1>1, <1>2, <1>3, <1>4, <1>5, <1>6, <1>7, <1>8, <1>9 DEF Advance

\* SQLiteReplayStore implements the ReplayStore port (ports.py:38-43): for
\* callers of database files, whatever races, fails and crashes, every
\* behaviour of replay.py is one of an atomic test-and-set register.
THEOREM RegisterImplemented == Spec => ImplementsRegister
  <1>1. Init => Register!RegisterInit
    BY DEF Init, Register!RegisterInit, NoRows, Durable
  <1>2. IInv /\ [Next]_vars => [Register!RegisterNext]_(Register!regVars)
    BY StepRefines DEF Register!regVars, spent, asking, verdict, Callers
  <1> QED
    BY <1>1, <1>2, Invariance, PTL DEF Spec, ImplementsRegister, Register!RegisterSpec
=============================================================================
