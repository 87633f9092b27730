----------------------------- MODULE InputFile -----------------------------
(***************************************************************************)
(* Loading one input of a command (src/locusmesh/io.py, and the fixture    *)
(* adapter, which repeats it): the size by name, the text by another open  *)
(* of that name, then a strict parse.  Beside it somebody replaces the     *)
(* file by rename, appends to it, or rewrites it in place.                 *)
(*                                                                         *)
(* A text is a sequence of items, each the size of one byte: entries of    *)
(* the mapping, the closing brace of JSON, and what a parser may choke on. *)
(***************************************************************************)
EXTENDS Integers, Sequences
LOCAL INSTANCE SequencesExt

CONSTANTS
    Versions,         \* the texts somebody may put under the name
    Items,            \* what may be appended
    Conforms(_),      \* the Pydantic model accepts this mapping
    MaxInput,         \* _MAX_INPUT_BYTES, 1 MiB
    Writes,           \* bound: how often the file is changed
    MaxLength         \* bound: how long a text grows

Entry(key, value) == <<"entry", key, value>>
Mark(kind) == <<kind>>
Kind(item) == item[1]
Key(item) == item[2]

ASSUME InputAssumption ==
    /\ MaxInput \in Nat /\ Writes \in Nat /\ MaxLength \in Nat
    /\ \A i \in Items :
          Kind(i) \in {"entry", "end", "malformed", "deep", "unhashable"}
    /\ \A v \in Versions : v \in Seq({v[n] : n \in DOMAIN v})

VARIABLES
    files,            \* the files the name had, the last one is the present one
    pipe,             \* the name is a pipe: its size is 0 to stat
    phase, loader,    \* of the command
    opened,           \* index of the file behind its descriptor
    text,             \* what it has read
    result,
    writes,           \* how often the file was changed, at all
    changes, held     \* history since stat: how it was changed; the texts it had

world == <<files, pipe, writes>>
vars == <<world, phase, loader, opened, text, result, changes, held>>

Present == Len(files)
Nothing == [exit |-> -1, error |-> "none", text |-> << >>]

Init ==
    /\ files \in {<<v>> : v \in Versions}
    /\ pipe \in BOOLEAN
    /\ phase = "idle" /\ loader = "yaml" /\ opened = 0 /\ text = << >>
    /\ result = Nothing
    /\ writes = 0 /\ changes = {} /\ held = {}

-----------------------------------------------------------------------------
(* Whoever writes the file *)

Changed(how, new) ==
    /\ writes < Writes /\ writes' = writes + 1
    /\ files' = new
    /\ changes' = changes \cup {how}
    /\ held' = held \cup {new[Len(new)]}
    /\ UNCHANGED <<pipe, phase, loader, opened, text, result>>

Replace(v) == ~pipe /\ Changed("replaced", Append(files, v))

Grow(i) ==
    /\ Len(files[Present]) < MaxLength
    /\ Changed("grown", [files EXCEPT ![Present] = Append(@, i)])

Rewrite(v) == ~pipe /\ Changed("rewritten", [files EXCEPT ![Present] = v])

-----------------------------------------------------------------------------
(* The command *)

Raise(exit, error) ==
    /\ phase' = "done"
    /\ result' = [exit |-> exit, error |-> error, text |-> << >>]

\* Mutant: One byte too many.
StatOffByOne(l) ==
    /\ phase = "idle"
    /\ loader' = l /\ changes' = {} /\ held' = {files[Present]}
    /\ \/ /\ ~pipe /\ Len(files[Present]) > MaxInput + 1
          /\ Raise(2, "INPUT_INVALID")
       \/ /\ pipe \/ Len(files[Present]) <= MaxInput + 1
          /\ phase' = "checked" /\ UNCHANGED result
    /\ UNCHANGED <<world, opened, text>>

\* path.stat().st_size against the limit.
Stat(l) ==
    /\ phase = "idle"
    /\ loader' = l /\ changes' = {} /\ held' = {files[Present]}
    /\ \/ /\ ~pipe /\ Len(files[Present]) > MaxInput
          /\ Raise(2, "INPUT_INVALID")
       \/ /\ pipe \/ Len(files[Present]) <= MaxInput
          /\ phase' = "checked" /\ UNCHANGED result
    /\ UNCHANGED <<world, opened, text>>

\* The name is gone, may not be read, or is not a file.
CannotRead ==
    /\ phase \in {"checked", "reading"}
    /\ Raise(2, "INPUT_INVALID")
    /\ UNCHANGED <<world, loader, opened, text, changes, held>>

Open ==
    /\ phase = "checked"
    /\ phase' = "reading" /\ opened' = Present
    /\ UNCHANGED <<world, loader, text, result, changes, held>>

\* Mutant: Every piece is read from what the name is by then.
ReadByName(n) ==
    /\ phase = "reading"
    /\ Len(text) + n <= Len(files[Present])
    /\ text' = text \o SubSeq(files[Present], Len(text) + 1, Len(text) + n)
    /\ UNCHANGED <<world, phase, loader, opened, result, changes, held>>

\* read_text takes the next n bytes, at its own position, without a bound.
Read(n) ==
    /\ phase = "reading"
    /\ Len(text) + n <= Len(files[opened])
    /\ text' = text \o SubSeq(files[opened], Len(text) + 1, Len(text) + n)
    /\ UNCHANGED <<world, phase, loader, opened, result, changes, held>>

EndOfFile ==
    /\ phase = "reading"
    /\ Len(files[opened]) <= Len(text)
    /\ phase' = "parsing"
    /\ UNCHANGED <<world, loader, opened, text, result, changes, held>>

Has(kind, items) == \E i \in DOMAIN items : Kind(items[i]) = kind
EntriesOf(items) == SelectSeq(items, LAMBDA i : Kind(i) = "entry")

\* Mutant: The parser's default: the last entry of a name wins.
NoDuplicate(entries) == FALSE

Duplicate(entries) ==
    \E i, j \in DOMAIN entries : i # j /\ Key(entries[i]) = Key(entries[j])

\* Of several entries of one key, the last.
Mapping(entries) ==
    [k \in {Key(entries[i]) : i \in DOMAIN entries} |->
        LET mine == {i \in DOMAIN entries : Key(entries[i]) = k}
        IN  entries[CHOOSE i \in mine : \A j \in mine \ {i} : j < i][3]]

\* The text is one document: JSON ends with its brace, block YAML has none.
WellFormed(l, items) ==
    LET body == IF l # "yaml" /\ Has("end", items) THEN Front(items) ELSE items
    IN  /\ ~Has("malformed", items) /\ ~Has("end", body)
        /\ l # "yaml" => Has("end", items) /\ ~Has("unhashable", items)

\* What json.loads or yaml.load with the unique-key hook, and then
\* model_validate, may raise; which comes first is left open.
Exceptions(l, items) ==
    {"RecursionError" : i \in {k \in DOMAIN items : Kind(items[k]) = "deep"}}
    \cup {"TypeError" : i \in {k \in DOMAIN items : l = "yaml" /\ Kind(items[k]) = "unhashable"}}
    \cup (IF /\ WellFormed(l, items)
             /\ ~Duplicate(EntriesOf(items))
             /\ Conforms(Mapping(EntriesOf(items)))
          THEN {} ELSE {"ValueError"})

Parse ==
    /\ phase = "parsing"
    /\ \/ \E e \in Exceptions(loader, text) :
             IF e = "ValueError" THEN Raise(2, "INPUT_INVALID") ELSE Raise(1, "INTERNAL_ERROR")
       \/ /\ Exceptions(loader, text) = {}
          /\ phase' = "done"
          /\ result' = [exit |-> 0, error |-> "none", text |-> text]
    /\ UNCHANGED <<world, loader, opened, text, changes, held>>

\* The command goes on with the model, or ends.
Leave ==
    /\ phase = "done"
    /\ phase' = "idle" /\ text' = << >> /\ result' = Nothing /\ opened' = 0
    /\ loader' = "yaml" /\ changes' = {} /\ held' = {}
    /\ UNCHANGED world

Next ==
    \/ \E v \in Versions : Replace(v) \/ Rewrite(v)
    \/ \E i \in Items : Grow(i)
    \/ \E l \in {"yaml", "json", "fixture"} : Stat(l)
    \/ CannotRead \/ Open
    \/ \E n \in 1..MaxLength : Read(n)
    \/ EndOfFile \/ Parse \/ Leave

Spec == Init /\ [][Next]_vars

-----------------------------------------------------------------------------
(* Properties *)

Loaded == phase = "done" /\ result.exit = 0

\* As long as nobody rewrites a file in place, what is loaded is a text the name
\* stood for at one instant of the load, whole: a rename or an append between
\* stat, open and the reads never mixes or trims (io.py:15-18, fixture.py:18-24).
LoadedAtOneInstant == "rewritten" \notin changes /\ Loaded => result.text \in held

\* Nothing that was written is silently dropped: every entry of the loaded text
\* is in the mapping with the value it was written with (io.py:21-46).
NoEntryIsOverwritten ==
    Loaded =>
        LET entries == EntriesOf(result.text)
        IN  \A i \in DOMAIN entries : Mapping(entries)[Key(entries[i])] = entries[i][3]

\* For a file that rests the limit is exact: it is refused for its size when it
\* is longer than the limit, never read then, and else read to its end
\* (io.py:16-18).
RestingInputIsBounded ==
    changes = {} /\ ~pipe =>
        /\ phase \in {"checked", "reading", "parsing"} => Len(files[Present]) <= MaxInput
        /\ phase = "parsing" => text = files[Present]

\* "Input failures return exit `2` with `INPUT_INVALID`"
\* (docs/delivery-contract.md:305-306).
InputFailuresExitTwo ==
    phase = "done" /\ result.exit # 0 => result.exit = 2 /\ result.error = "INPUT_INVALID"
=============================================================================
