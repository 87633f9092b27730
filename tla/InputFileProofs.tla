--------------------------- MODULE InputFileProofs ---------------------------
(***************************************************************************)
(* Loading one input for any texts, limit and number of changes beside it. *)
(* A loader has read the beginning of the file behind its descriptor, and  *)
(* unless somebody rewrites that file in place it only ever grows behind   *)
(* what was read: that is why a text is never loaded in two halves.        *)
(***************************************************************************)
EXTENDS InputFile, SequenceTheorems, TLAPS

\* What texts are made of.
Symbols == Items \cup UNION {{v[n] : n \in DOMAIN v} : v \in Versions}

Types ==
    /\ files \in Seq(Seq(Symbols)) /\ files # << >>
    /\ text \in Seq(Symbols)

\* No file was rewritten in place since stat.
Whole == "rewritten" \notin changes

\* The descriptor's file had its text under the name, and begins with what was
\* read of it.
ReadsABeginning ==
    /\ files[opened] \in held
    /\ Len(text) <= Len(files[opened])
    /\ text = SubSeq(files[opened], 1, Len(text))

OneInstant ==
    /\ phase \in {"idle", "checked"} => text = << >>
    /\ phase # "idle" => files[Present] \in held
    /\ phase = "reading" => opened \in 1..Present
    /\ Whole => /\ phase = "reading" => ReadsABeginning
                /\ phase = "parsing" => text \in held
                /\ Loaded => result.text \in held

\* A file that rests is the one that stat has seen.
Resting ==
    changes = {} =>
        /\ ~pipe /\ phase \in {"checked", "reading", "parsing"} => Len(files[Present]) <= MaxInput
        /\ phase = "reading" => opened = Present
        /\ phase = "parsing" => text = files[Present]

KeysAreUnique == Loaded => ~Duplicate(EntriesOf(result.text))

IInv == Types /\ OneInstant /\ Resting /\ KeysAreUnique

-----------------------------------------------------------------------------
(* Its proof *)

LEMMA TextsAreTexts == Versions \subseteq Seq(Symbols)
  <1> SUFFICES ASSUME NEW v \in Versions
               PROVE  v \in Seq(Symbols)
    OBVIOUS
  <1>1. v \in Seq({v[n] : n \in DOMAIN v})
    BY InputAssumption
  <1>2. {v[n] : n \in DOMAIN v} \subseteq Symbols
    BY DEF Symbols
  <1> QED
    BY <1>1, <1>2, SeqMonotonic

LEMMA PresentFile ==
    ASSUME Types
    PROVE  /\ Present \in Nat /\ Present >= 1 /\ Present \in 1..Present
           /\ files[Present] \in Seq(Symbols)
           /\ \A n \in 1..Present : files[n] \in Seq(Symbols)
  BY DEF Types, Present

\* The file behind the descriptor is left alone, or keeps what was read of it and
\* is the one under the name.
KeepsWhatIsRead(new) ==
    phase = "reading" /\ Whole =>
        /\ new[opened] \in {files[opened], new[Len(new)]}
        /\ Len(files[opened]) <= Len(new[opened])
        /\ SubSeq(new[opened], 1, Len(text)) = SubSeq(files[opened], 1, Len(text))

\* A change keeps the invariant when it only adds behind what may have been read.
LEMMA ChangeKeeps ==
    ASSUME IInv, NEW how, NEW new \in Seq(Seq(Symbols)), Changed(how, new),
           new # << >>, Len(files) <= Len(new),
           how = "rewritten" \/ KeepsWhatIsRead(new)
    PROVE  IInv'
  <1>1. /\ files' = new /\ changes' = changes \cup {how}
        /\ held' = held \cup {new[Len(new)]}
        /\ UNCHANGED <<pipe, phase, loader, opened, text, result>>
    BY DEF Changed
  <1>2. Types'
    BY <1>1 DEF IInv, Types
  <1>3. Whole' => Whole /\ how # "rewritten"
    BY <1>1 DEF Whole
  <1>4. opened \in 1..Len(files) => opened \in 1..Len(new)
    BY DEF IInv, Types
  <1>5. ASSUME Whole', phase = "reading"
        PROVE  ReadsABeginning'
    <2>1. ReadsABeginning /\ how # "rewritten" /\ opened \in 1..Len(files)
      BY <1>3, <1>5 DEF IInv, OneInstant, Present
    <2>2. files[opened] \in Seq(Symbols) /\ new[opened] \in Seq(Symbols)
      BY <1>4, <2>1 DEF IInv, Types
    <2>3. /\ new[opened] \in {files[opened], new[Len(new)]}
          /\ Len(files[opened]) <= Len(new[opened])
          /\ SubSeq(new[opened], 1, Len(text)) = SubSeq(files[opened], 1, Len(text))
      BY <1>3, <1>5, <2>1 DEF KeepsWhatIsRead
    <2>4. new[opened] \in held'
      BY <1>1, <2>1, <2>3 DEF ReadsABeginning
    <2>5. Len(text) <= Len(new[opened])
      BY <2>1, <2>2, <2>3 DEF ReadsABeginning, IInv, Types
    <2>6. text = SubSeq(new[opened], 1, Len(text))
      BY <2>1, <2>3 DEF ReadsABeginning
    <2> QED
      BY <1>1, <2>4, <2>5, <2>6 DEF ReadsABeginning
  <1>6. OneInstant'
    BY <1>1, <1>3, <1>4, <1>5 DEF IInv, OneInstant, Loaded, Present
  <1>7. Resting'
    BY <1>1 DEF Resting
  <1>8. KeysAreUnique'
    BY <1>1 DEF IInv, KeysAreUnique, Loaded
  <1> QED
    BY <1>2, <1>6, <1>7, <1>8 DEF IInv

\* A rename leaves the file behind the descriptor alone.
LEMMA ReplaceKeeps ==
    ASSUME IInv, NEW v \in Versions, Replace(v)
    PROVE  IInv'
  <1> DEFINE new == Append(files, v)
  <1>1. v \in Seq(Symbols) /\ Changed("replaced", new)
    BY TextsAreTexts DEF Replace
  <1>2. files \in Seq(Seq(Symbols)) /\ Len(files) \in Nat
    BY DEF IInv, Types
  <1>3. /\ new \in Seq(Seq(Symbols)) /\ new # << >> /\ Len(new) = Len(files) + 1
        /\ \A n \in 1..Len(files) : new[n] = files[n]
    BY <1>1, <1>2, AppendProperties
  <1>4. phase = "reading" => opened \in 1..Len(files)
    BY DEF IInv, OneInstant, Present
  <1>5. phase = "reading" => files[opened] \in Seq(Symbols) /\ new[opened] = files[opened]
    BY <1>2, <1>3, <1>4
  <1> HIDE DEF new
  <1>6. KeepsWhatIsRead(new)
    BY <1>5 DEF KeepsWhatIsRead
  <1> QED
    BY <1>1, <1>2, <1>3, <1>6, ChangeKeeps

LEMMA RewriteKeeps ==
    ASSUME IInv, NEW v \in Versions, Rewrite(v)
    PROVE  IInv'
  <1> DEFINE new == [files EXCEPT ![Present] = v]
  <1>1. v \in Seq(Symbols) /\ Changed("rewritten", new)
    BY TextsAreTexts DEF Rewrite
  <1>2. files \in Seq(Seq(Symbols)) /\ Len(files) \in Nat /\ Present \in 1..Len(files)
    BY PresentFile DEF IInv, Types, Present
  <1>3. new \in Seq(Seq(Symbols)) /\ Len(new) = Len(files)
    BY <1>1, <1>2, ExceptSeq
  <1>4. new # << >>
    BY <1>2, <1>3, EmptySeq
  <1> HIDE DEF new
  <1> QED
    BY <1>1, <1>2, <1>3, <1>4, ChangeKeeps

\* What is appended comes behind whatever a loader has read.
LEMMA GrowKeeps ==
    ASSUME IInv, NEW item \in Items, Grow(item)
    PROVE  IInv'
  <1> DEFINE old == files[Present]
             grown == Append(old, item)
             new == [files EXCEPT ![Present] = grown]
  <1>1. Changed("grown", new)
    BY DEF Grow
  <1>2. /\ files \in Seq(Seq(Symbols)) /\ Len(files) \in Nat /\ Present \in 1..Len(files)
        /\ old \in Seq(Symbols) /\ item \in Symbols
    BY PresentFile DEF IInv, Types, Present, Symbols
  <1>3. grown \in Seq(Symbols) /\ Len(grown) = Len(old) + 1
    BY <1>2, AppendProperties
  <1>4. /\ new \in Seq(Seq(Symbols)) /\ Len(new) = Len(files)
        /\ \A n \in 1..Len(files) : new[n] = IF n = Present THEN grown ELSE files[n]
    <2> HIDE DEF grown
    <2> QED
      BY <1>2, <1>3, ExceptSeq
  <1>5. new # << >>
    <2> HIDE DEF new
    <2> QED
      BY <1>2, <1>4, EmptySeq
  <1>6. ASSUME NEW n \in 0..Len(old)
        PROVE  SubSeq(grown, 1, n) = SubSeq(old, 1, n)
    <2>1. CASE n = 0
      BY <2>1, SubSeqEmpty
    <2>2. CASE n # 0
      <3>1. grown = old \o <<item>> /\ <<item>> \in Seq(Symbols)
        BY <1>2, AppendIsConcat
      <3>2. n \in 1..Len(old) /\ 1 \in 1..Len(old)
        BY <1>2, <2>2
      <3> HIDE DEF old, grown
      <3> QED
        BY <1>2, <3>1, <3>2, SubSeqOfConcat1
    <2> QED
      BY <2>1, <2>2
  <1>7. ASSUME phase = "reading", Whole
        PROVE  /\ new[opened] \in {files[opened], new[Len(new)]}
               /\ Len(files[opened]) <= Len(new[opened])
               /\ SubSeq(new[opened], 1, Len(text)) = SubSeq(files[opened], 1, Len(text))
    <2>1. opened \in 1..Len(files) /\ files[opened] \in Seq(Symbols)
      BY <1>2, <1>7 DEF IInv, OneInstant, Present
    <2>2. CASE opened # Present
      <3>1. new[opened] = files[opened]
        BY <1>4, <2>1, <2>2
      <3> HIDE DEF new
      <3> QED
        BY <2>1, <3>1
    <2>3. CASE opened = Present
      <3>1. new[opened] = grown /\ files[opened] = old /\ opened = Len(new)
        BY <1>4, <2>1, <2>3 DEF Present
      <3>2. Len(text) \in 0..Len(old)
        BY <1>2, <1>7, <2>3 DEF IInv, Types, OneInstant, ReadsABeginning
      <3> HIDE DEF new, old, grown
      <3> QED
        BY <1>2, <1>3, <1>6, <3>1, <3>2
    <2> QED
      BY <2>2, <2>3
  <1> HIDE DEF new
  <1>8. KeepsWhatIsRead(new)
    BY <1>7 DEF KeepsWhatIsRead
  <1> QED
    BY <1>1, <1>2, <1>4, <1>5, <1>8, ChangeKeeps

\* The next piece is what follows in the same file.
LEMMA ReadKeeps ==
    ASSUME IInv, NEW n \in 1..MaxLength, Read(n)
    PROVE  IInv'
  <1> DEFINE file == files[opened]
             piece == SubSeq(file, Len(text) + 1, Len(text) + n)
  <1>1. /\ phase = "reading" /\ Len(text) + n <= Len(file)
        /\ text' = text \o piece
        /\ UNCHANGED <<files, pipe, writes, phase, loader, opened, result, changes, held>>
    BY DEF Read, world
  <1>2. /\ n \in Nat /\ n >= 1 /\ text \in Seq(Symbols) /\ Len(text) \in Nat
        /\ opened \in 1..Len(files) /\ file \in Seq(Symbols) /\ Len(file) \in Nat
    BY <1>1, InputAssumption DEF IInv, Types, OneInstant, Present
  <1>3. piece \in Seq(Symbols)
    <2>1. \A i \in (Len(text) + 1)..(Len(text) + n) : file[i] \in Symbols
      BY <1>1, <1>2, ElementOfSeq
    <2>2. Len(text) + 1 \in Int /\ Len(text) + n \in Int
      BY <1>2
    <2> HIDE DEF file
    <2> QED
      BY <2>1, <2>2, SubSeqProperties
  <1>4. Types'
    <2>1. text' \in Seq(Symbols)
      BY <1>1, <1>2, <1>3, ConcatProperties
    <2> QED
      BY <1>1, <2>1 DEF IInv, Types
  <1>5. ASSUME Whole
        PROVE  ReadsABeginning'
    <2>1. file \in held /\ Len(text) <= Len(file) /\ text = SubSeq(file, 1, Len(text))
      BY <1>1, <1>5 DEF IInv, OneInstant, ReadsABeginning
    <2>2. text' = SubSeq(file, 1, Len(text) + n)
      <3>1. /\ 1 \in 1..(Len(file) + 1) /\ Len(text) \in (1 - 1)..Len(file)
            /\ Len(text) + n \in Len(text)..Len(file)
        BY <1>1, <1>2
      <3>2. SubSeq(file, 1, Len(text)) \o piece = SubSeq(file, 1, Len(text) + n)
        <4> HIDE DEF file
        <4> QED
          BY <1>2, <3>1, ConcatAdjacentSubSeq
      <3> QED
        BY <1>1, <2>1, <3>2
    <2>3. Len(text') = Len(text) + n
      <3>1. \A i \in 1..(Len(text) + n) : file[i] \in Symbols
        BY <1>1, <1>2, ElementOfSeq
      <3>2. 1 \in Int /\ Len(text) + n \in Int /\ 1 <= Len(text) + n
        BY <1>2
      <3>3. Len(SubSeq(file, 1, Len(text) + n)) = (Len(text) + n) - 1 + 1
        <4> HIDE DEF file
        <4> QED
          BY <3>1, <3>2, SubSeqProperties
      <3> QED
        BY <1>2, <2>2, <3>3
    <2> QED
      BY <1>1, <2>1, <2>2, <2>3 DEF ReadsABeginning
  <1>6. OneInstant'
    BY <1>1, <1>5 DEF IInv, OneInstant, Whole, Loaded, Present
  <1>7. Resting' /\ KeysAreUnique'
    BY <1>1 DEF IInv, Resting, KeysAreUnique, Loaded, Present
  <1> QED
    BY <1>4, <1>6, <1>7 DEF IInv

\* At the end of the file everything of it was read.
LEMMA EndKeeps ==
    ASSUME IInv, EndOfFile
    PROVE  IInv'
  <1>1. /\ phase = "reading" /\ phase' = "parsing" /\ Len(files[opened]) <= Len(text)
        /\ UNCHANGED <<files, pipe, writes, loader, opened, text, result, changes, held>>
    BY DEF EndOfFile, world
  <1>2. opened \in 1..Present /\ files[opened] \in Seq(Symbols) /\ text \in Seq(Symbols)
    BY <1>1, PresentFile DEF IInv, OneInstant, Types
  <1>3. Whole => text = files[opened] /\ text \in held
    <2> SUFFICES ASSUME Whole
                 PROVE  text = files[opened] /\ text \in held
      OBVIOUS
    <2>1. ReadsABeginning
      BY <1>1 DEF IInv, OneInstant
    <2>2. Len(text) = Len(files[opened])
      BY <1>1, <1>2, <2>1 DEF ReadsABeginning
    <2>3. SubSeq(files[opened], 1, Len(files[opened])) = files[opened]
      BY <1>2, SubSeqFull
    <2> QED
      BY <2>1, <2>2, <2>3 DEF ReadsABeginning
  <1>4. Types'
    BY <1>1 DEF IInv, Types
  <1>5. OneInstant'
    BY <1>1, <1>3 DEF IInv, OneInstant, Whole, Loaded, Present
  <1>6. Resting'
    BY <1>1, <1>3 DEF IInv, Resting, Whole, Present
  <1>7. KeysAreUnique'
    BY <1>1 DEF KeysAreUnique, Loaded
  <1> QED
    BY <1>4, <1>5, <1>6, <1>7 DEF IInv

\* Only a text of unique keys is loaded.
LEMMA ParseKeeps ==
    ASSUME IInv, Parse
    PROVE  IInv'
  <1>1. /\ phase = "parsing" /\ phase' = "done"
        /\ UNCHANGED <<files, pipe, writes, loader, opened, text, changes, held>>
    BY DEF Parse, Raise, world
  <1>2. result'.exit = 0 => result'.text = text /\ ~Duplicate(EntriesOf(text))
    <2>1. ASSUME NEW e \in Exceptions(loader, text),
                 IF e = "ValueError" THEN Raise(2, "INPUT_INVALID") ELSE Raise(1, "INTERNAL_ERROR")
          PROVE  result'.exit # 0
      BY <2>1 DEF Raise
    <2>2. Exceptions(loader, text) = {} => ~Duplicate(EntriesOf(text))
      BY DEF Exceptions
    <2>3. CASE /\ Exceptions(loader, text) = {}
               /\ result' = [exit |-> 0, error |-> "none", text |-> text]
      BY <2>2, <2>3
    <2> QED
      BY <2>1, <2>3 DEF Parse
  <1>3. Types' /\ Resting' /\ KeysAreUnique'
    BY <1>1, <1>2 DEF IInv, Types, Resting, KeysAreUnique, Loaded
  <1>4. OneInstant'
    BY <1>1, <1>2 DEF IInv, OneInstant, Whole, Loaded, Present
  <1> QED
    BY <1>3, <1>4 DEF IInv

LEMMA Invariance == Spec => []IInv
  <1>1. Init => IInv
    <2> SUFFICES ASSUME Init
                 PROVE  IInv
      OBVIOUS
    <2>1. PICK v \in Versions : files = <<v>>
      BY DEF Init
    <2>2. v \in Seq(Symbols) /\ << >> \in Seq(Symbols)
      BY TextsAreTexts, EmptySeq
    <2>3. files \in Seq(Seq(Symbols)) /\ files # << >>
      BY <2>1, <2>2
    <2> QED
      BY <2>2, <2>3 DEF Init, IInv, Types, OneInstant, Resting, KeysAreUnique, Loaded
  <1>2. IInv /\ [Next]_vars => IInv'
    <2> SUFFICES ASSUME IInv, [Next]_vars
                 PROVE  IInv'
      OBVIOUS
    <2>1. ASSUME NEW l \in {"yaml", "json", "fixture"}, Stat(l)
          PROVE  IInv'
      <3>1. /\ phase = "idle" /\ phase' \in {"checked", "done"}
            /\ phase' = "checked" => pipe \/ Len(files[Present]) <= MaxInput
            /\ phase' = "done" => result'.exit # 0
            /\ changes' = {} /\ held' = {files[Present]}
            /\ UNCHANGED <<files, pipe, opened, text>>
        BY <2>1 DEF Stat, Raise, world
      <3> QED
        BY <3>1 DEF IInv, Types, OneInstant, Resting, KeysAreUnique, Loaded, Present
    <2>2. CASE CannotRead
      <3>1. /\ phase \in {"checked", "reading"} /\ phase' = "done" /\ result'.exit # 0
            /\ UNCHANGED <<files, pipe, opened, text, changes, held>>
        BY <2>2 DEF CannotRead, Raise, world
      <3> QED
        BY <3>1 DEF IInv, Types, OneInstant, Resting, KeysAreUnique, Loaded, Present
    <2>3. CASE Open
      <3>1. /\ phase = "checked" /\ phase' = "reading" /\ opened' = Present
            /\ text = << >> /\ UNCHANGED <<files, pipe, text, result, changes, held>>
        BY <2>3 DEF Open, world, IInv, OneInstant
      <3>2. Present \in 1..Present /\ files[Present] \in Seq(Symbols)
        BY PresentFile DEF IInv
      <3>3. ReadsABeginning'
        <4>1. files[Present] \in held /\ Len(text) = 0 /\ 0 <= Len(files[Present])
          BY <3>1, <3>2, EmptySeq DEF IInv, OneInstant
        <4>2. SubSeq(files[Present], 1, 0) = << >>
          BY SubSeqEmpty
        <4> QED
          BY <3>1, <4>1, <4>2 DEF ReadsABeginning, Present
      <3> QED
        BY <3>1, <3>2, <3>3
        DEF IInv, Types, OneInstant, Resting, KeysAreUnique, Whole, Loaded, Present
    <2>4. CASE Leave
      <3>1. << >> \in Seq(Symbols)
        BY EmptySeq
      <3> QED
        BY <2>4, <3>1 DEF Leave, world, IInv, Types, OneInstant, Resting, KeysAreUnique, Loaded
    <2>5. CASE UNCHANGED vars
      BY <2>5 DEF vars, world, IInv, Types, OneInstant, ReadsABeginning, Resting,
                  KeysAreUnique, Whole, Loaded, Present
    <2> QED
      BY <2>1, <2>2, <2>3, <2>4, <2>5, ReplaceKeeps, RewriteKeeps, GrowKeeps, ReadKeeps,
         EndKeeps, ParseKeeps DEF Next
  <1> QED
    BY <1>1, <1>2, PTL DEF Spec

\* Unless a file is rewritten in place, what is loaded is, whole, a text that the
\* name stood for between stat and the parse (io.py:15-18, fixture.py:18-24).
THEOREM LoadsOneInstant == Spec => []LoadedAtOneInstant
  <1>1. IInv => LoadedAtOneInstant
    BY DEF IInv, OneInstant, Whole, LoadedAtOneInstant
  <1> QED
    BY <1>1, Invariance, PTL

\* The limit is exact for a file that rests: one byte more is refused unread, and
\* what is within the limit is read to its end (io.py:16-18).
THEOREM ExactLimit == Spec => []RestingInputIsBounded
  <1>1. IInv => RestingInputIsBounded
    BY DEF IInv, Resting, RestingInputIsBounded
  <1> QED
    BY <1>1, Invariance, PTL

\* No entry of a loaded text was overwritten by another (io.py:21-46).
THEOREM EveryEntryCounts == Spec => []NoEntryIsOverwritten
  <1>1. IInv => NoEntryIsOverwritten
    <2> DEFINE entries == EntriesOf(result.text)
               mine(k) == {j \in DOMAIN entries : Key(entries[j]) = k}
    <2> SUFFICES ASSUME ~Duplicate(entries), NEW i \in DOMAIN entries
                 PROVE  Mapping(entries)[Key(entries[i])] = entries[i][3]
      BY DEF IInv, KeysAreUnique, NoEntryIsOverwritten
    <2> HIDE DEF entries
    <2>1. mine(Key(entries[i])) = {i}
      BY DEF Duplicate
    <2>2. (CHOOSE j \in {i} : \A m \in {i} \ {j} : m < j) = i
      OBVIOUS
    <2>3. Mapping(entries)[Key(entries[i])] =
            entries[CHOOSE j \in mine(Key(entries[i])) :
                       \A m \in mine(Key(entries[i])) \ {j} : m < j][3]
      BY DEF Mapping
    <2> QED
      BY <2>1, <2>2, <2>3
  <1> QED
    BY <1>1, Invariance, PTL
=============================================================================
