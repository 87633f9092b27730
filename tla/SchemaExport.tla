---------------------------- MODULE SchemaExport ----------------------------
(***************************************************************************)
(* `locusmesh schema export` (src/locusmesh/schema_export.py): one file    *)
(* after the other is truncated and then written, by any number of runs,   *)
(* of one or several versions of the program, into one directory.  A write *)
(* may fail, a run may be killed and started again.                        *)
(***************************************************************************)
EXTENDS Naturals, Sequences

CONSTANTS
    Exporters,
    Versions,          \* of the installed program
    Length,            \* [Versions -> Nat]: how long its schemas are
    Count,             \* how many schemas there are, 12
    NoVersion

ASSUME ExportAssumption ==
    /\ Length \in [Versions -> Nat \ {0}]
    /\ Count \in Nat \ {0}
    /\ NoVersion \notin Versions

VARIABLES
    directory,         \* whether the output directory exists
    files,             \* the text of each file, empty when it does not exist
    phase, version,    \* of each exporter
    at,                \* the file it is at
    alone,             \* history: nobody else has exported since it started
    broken,            \* history: files whose last writer was stopped at it
    used               \* history: the versions that ever exported here

state == <<phase, version, at>>
history == <<alone, broken, used>>
vars == <<directory, files, state, history>>

Names == 1..Count
Text(v) == [i \in 1..Length[v] |-> v]
Running == {p \in Exporters : phase[p] \in {"starting", "opening", "writing"}}

Init ==
    /\ directory = FALSE
    /\ files = [n \in Names |-> << >>]
    /\ phase = [p \in Exporters |-> "idle"]
    /\ version = [p \in Exporters |-> NoVersion]
    /\ at = [p \in Exporters |-> 1]
    /\ alone = [p \in Exporters |-> TRUE]
    /\ broken = {} /\ used = {}

Goto(p, ph) == phase' = [phase EXCEPT ![p] = ph]

\* A new run, of whatever version is installed by now.
Start(p, v) ==
    /\ phase[p] \in {"idle", "exported", "failed"}
    /\ Goto(p, "starting")
    /\ version' = [version EXCEPT ![p] = v]
    /\ at' = [at EXCEPT ![p] = 1]
    /\ alone' = [q \in Exporters |-> IF q = p THEN Running = {} ELSE FALSE]
    /\ used' = used \cup {v}
    /\ UNCHANGED <<directory, files, broken>>

\* mkdir(parents=True, exist_ok=True)
MakeDirectory(p) ==
    /\ phase[p] = "starting"
    /\ directory' = TRUE
    /\ Goto(p, "opening")
    /\ UNCHANGED <<files, version, at, history>>

\* Mutant: The file is opened without emptying it.
OpenFileAsItIs(p) ==
    /\ phase[p] = "opening" /\ directory
    /\ Goto(p, "writing")
    /\ UNCHANGED <<directory, files, version, at, history>>

\* write_text opens the file and empties it.
OpenFile(p) ==
    /\ phase[p] = "opening" /\ directory
    /\ files' = [files EXCEPT ![at[p]] = << >>]
    /\ Goto(p, "writing")
    /\ UNCHANGED <<directory, version, at, history>>

\* The first bytes of old are overwritten, what is beyond them stays.
Over(new, old) == new \o SubSeq(old, Len(new) + 1, Len(old))

\* ... writes the schema from its beginning and closes it.
WriteFile(p) ==
    /\ phase[p] = "writing"
    /\ files' = [files EXCEPT ![at[p]] = Over(Text(version[p]), @)]
    /\ broken' = broken \ {at[p]}
    /\ at' = [at EXCEPT ![p] = IF @ = Count THEN @ ELSE @ + 1]
    /\ Goto(p, IF at[p] = Count THEN "exported" ELSE "opening")
    /\ UNCHANGED <<directory, version, alone, used>>

\* What a write that is stopped leaves: a beginning of the text.
LeavePart(p) ==
    /\ broken' = IF phase[p] = "writing" THEN broken \cup {at[p]} ELSE broken
    /\ \/ UNCHANGED files
       \/ /\ phase[p] = "writing"
          /\ \E n \in 1..Length[version[p]] :
                files' = [files EXCEPT ![at[p]] = Over(SubSeq(Text(version[p]), 1, n), @)]

\* Mutant: A file that cannot be written is passed over.
PassOver(p) ==
    /\ phase[p] \in {"starting", "opening", "writing"}
    /\ LeavePart(p)
    /\ at' = [at EXCEPT ![p] = IF @ = Count THEN @ ELSE @ + 1]
    /\ Goto(p, IF at[p] = Count THEN "exported" ELSE "opening")
    /\ UNCHANGED <<directory, version, alone, used>>

\* An OSError of mkdir, open or write ends the run with exit code 2.
Fail(p) ==
    /\ phase[p] \in {"starting", "opening", "writing"}
    /\ LeavePart(p)
    /\ Goto(p, "failed")
    /\ UNCHANGED <<directory, version, at, alone, used>>

Crash(p) ==
    /\ phase[p] \in {"starting", "opening", "writing"}
    /\ LeavePart(p)
    /\ Goto(p, "idle")
    /\ UNCHANGED <<directory, version, at, alone, used>>

Next ==
    \E p \in Exporters :
        \/ \E v \in Versions : Start(p, v)
        \/ MakeDirectory(p) \/ OpenFile(p) \/ WriteFile(p)
        \/ Fail(p) \/ Crash(p)

Spec == Init /\ [][Next]_vars

-----------------------------------------------------------------------------
(* Properties *)

\* A run that reports success beside no other leaves all schemas of its own
\* version and nothing of any other, whatever earlier runs of whatever version
\* left behind or broke off (schema_export.py:45-52).
SuccessMeansAllFiles ==
    \A p \in Exporters :
        phase[p] = "exported" /\ alone[p] =>
            \A n \in Names : files[n] = Text(version[p])

\* Runs of one version may overlap and be stopped anywhere: once one of them
\* succeeded, a file is whole unless somebody has it open or was stopped at it.
OverlappingRunsAgree ==
    \A v \in Versions :
        used = {v} /\ (\E p \in Exporters : phase[p] = "exported") =>
            \A n \in Names :
                \/ files[n] = Text(v)
                \/ n \in broken
                \/ \E p \in Exporters : phase[p] = "writing" /\ at[p] = n
=============================================================================
