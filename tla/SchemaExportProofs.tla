-------------------------- MODULE SchemaExportProofs --------------------------
(***************************************************************************)
(* `locusmesh schema export` for any number of runs, versions and schemas. *)
(* A run that is alone is proved to leave its own files behind it one by   *)
(* one; runs of one version that overlap are proved to write over one      *)
(* another's beginnings and never beyond them.                             *)
(***************************************************************************)
EXTENDS SchemaExport, SequenceTheorems, TLAPS

-----------------------------------------------------------------------------
(* Texts *)

\* The beginning of a text of one version, m bytes of it.
Part(v, m) == [i \in 1..m |-> v]

IsPart(s, v) == \E m \in 0..Length[v] : s = Part(v, m)

LEMMA Parts ==
    ASSUME NEW v, NEW m \in Nat
    PROVE  Part(v, m) \in Seq({v}) /\ Len(Part(v, m)) = m
  <1>1. Part(v, m) \in [1..m -> {v}]
    BY DEF Part
  <1> HIDE DEF Part
  <1> QED
    BY <1>1

LEMMA TextIsPart ==
    ASSUME NEW v \in Versions
    PROVE  /\ Length[v] \in Nat /\ Length[v] > 0
           /\ Text(v) = Part(v, Length[v])
           /\ \A n \in 1..Length[v] : SubSeq(Text(v), 1, n) = Part(v, n)
  <1>1. Length[v] \in Nat /\ Length[v] > 0
    BY ExportAssumption
  <1>2. Text(v) = Part(v, Length[v])
    BY DEF Text, Part
  <1>3. ASSUME NEW n \in 1..Length[v]
        PROVE  SubSeq(Text(v), 1, n) = Part(v, n)
    <2> DEFINE t == Text(v)
               s == SubSeq(t, 1, n)
    <2>1. t \in Seq({v}) /\ Len(t) = Length[v]
      BY <1>1, <1>2, Parts
    <2>2. n \in Nat /\ 1 \in 1..(Len(t) + 1) /\ n \in 0..Len(t)
      BY <1>1, <2>1
    <2>3. s \in Seq({v}) /\ Len(s) = n
      <3> HIDE DEF t
      <3> QED
        BY <2>1, <2>2, SubSeqProperties
    <2>4. \A i \in 1..n : s[i] = v
      <3> HIDE DEF s
      <3> QED
        BY <2>2, <2>3
    <2>5. s = Part(v, n)
      <3>1. Part(v, n) \in Seq({v}) /\ Len(Part(v, n)) = n
        BY <2>2, Parts
      <3>2. \A i \in 1..n : Part(v, n)[i] = v
        BY DEF Part
      <3> HIDE DEF s
      <3> QED
        BY <2>3, <2>4, <3>1, <3>2, SeqEqual
    <2> QED
      BY <2>5
  <1> QED
    BY <1>1, <1>2, <1>3

LEMMA EmptyIsPart ==
    ASSUME NEW v \in Versions
    PROVE  IsPart(<< >>, v)
  <1>1. Part(v, 0) \in Seq({v}) /\ Len(Part(v, 0)) = 0
    BY Parts
  <1>2. << >> = Part(v, 0)
    BY <1>1, EmptySeq
  <1>3. 0 \in 0..Length[v]
    BY TextIsPart
  <1> QED
    BY <1>2, <1>3 DEF IsPart

\* A text written over another one is a text.
LEMMA OverIsText ==
    ASSUME NEW S, NEW s \in Seq(S), NEW old \in Seq(S)
    PROVE  Over(s, old) \in Seq(S)
  <1>1. \A i \in (Len(s) + 1)..Len(old) : old[i] \in S
    OBVIOUS
  <1>2. Len(s) + 1 \in Int /\ Len(old) \in Int
    OBVIOUS
  <1>3. SubSeq(old, Len(s) + 1, Len(old)) \in Seq(S)
    BY <1>1, <1>2, SubSeqProperties
  <1> QED
    BY <1>3, ConcatProperties DEF Over

\* Into an empty file a text is written as it is.
LEMMA OverEmpty ==
    ASSUME NEW S, NEW s \in Seq(S)
    PROVE  Over(s, << >>) = s
  <1>1. SubSeq(<< >>, Len(s) + 1, Len(<< >>)) = << >>
    BY SubSeqEmpty
  <1> QED
    BY <1>1, ConcatEmptySeq DEF Over

\* What is written over a beginning of the same text is the longer of the two.
LEMMA OverPart ==
    ASSUME NEW v, NEW k \in Nat, NEW m \in Nat
    PROVE  Over(Part(v, k), Part(v, m)) = Part(v, IF k < m THEN m ELSE k)
  <1> DEFINE new == Part(v, k)
             old == Part(v, m)
             rest == SubSeq(old, Len(new) + 1, Len(old))
             long == IF k < m THEN m ELSE k
  <1>1. /\ new \in Seq({v}) /\ Len(new) = k
        /\ old \in Seq({v}) /\ Len(old) = m
    BY Parts
  <1>2. rest \in Seq({v}) /\ Len(rest) = IF k < m THEN m - k ELSE 0
    <2>1. \A i \in (k + 1)..m : old[i] \in {v}
      BY DEF Part
    <2>2. k + 1 \in Int /\ m \in Int
      OBVIOUS
    <2>3. rest = SubSeq(old, k + 1, m)
      BY <1>1
    <2>4. /\ SubSeq(old, k + 1, m) \in Seq({v})
          /\ Len(SubSeq(old, k + 1, m)) = IF k + 1 <= m THEN m - (k + 1) + 1 ELSE 0
      <3> HIDE DEF old
      <3> QED
        BY <2>1, <2>2, SubSeqProperties
    <2> HIDE DEF rest, old
    <2> QED
      BY <2>3, <2>4
  <1>3. new \o rest \in Seq({v}) /\ Len(new \o rest) = long
    <2> HIDE DEF new, old, rest
    <2>1. new \o rest \in Seq({v}) /\ Len(new \o rest) = Len(new) + Len(rest)
      BY <1>1, <1>2, ConcatProperties
    <2>2. CASE k < m
      BY <1>1, <1>2, <2>1, <2>2
    <2>3. CASE ~(k < m)
      BY <1>1, <1>2, <2>1, <2>3
    <2> QED
      BY <2>2, <2>3
  <1>4. Part(v, long) \in Seq({v}) /\ Len(Part(v, long)) = long
    BY Parts
  <1>5. \A s, u \in Seq({v}) : Len(s) = Len(u) => s = u
    <2> TAKE s, u \in Seq({v})
    <2> HAVE Len(s) = Len(u)
    <2>1. \A i \in 1..Len(s) : s[i] = u[i]
      OBVIOUS
    <2> QED
      BY <2>1, SeqEqual
  <1>6. new \o rest = Part(v, long)
    <2> HIDE DEF new, rest, long
    <2> QED
      BY <1>3, <1>4, <1>5
  <1> QED
    BY <1>6 DEF Over

\* So over a beginning of a text another beginning leaves a beginning, and the
\* whole text leaves the whole text.
LEMMA OverBeginning ==
    ASSUME NEW v \in Versions, NEW s, IsPart(s, v)
    PROVE  /\ Over(Text(v), s) = Text(v)
           /\ IsPart(Text(v), v)
           /\ \A n \in 1..Length[v] : IsPart(Over(SubSeq(Text(v), 1, n), s), v)
  <1>1. PICK m \in 0..Length[v] : s = Part(v, m)
    BY DEF IsPart
  <1>2. Length[v] \in Nat /\ m \in Nat /\ m <= Length[v] /\ ~(Length[v] < m)
    BY <1>1, TextIsPart
  <1>3. Over(Text(v), s) = Text(v)
    BY <1>1, <1>2, TextIsPart, OverPart
  <1>4. Length[v] \in 0..Length[v]
    BY <1>2
  <1>5. ASSUME NEW n \in 1..Length[v]
        PROVE  IsPart(Over(SubSeq(Text(v), 1, n), s), v)
    <2> DEFINE k == IF n < m THEN m ELSE n
    <2>1. n \in Nat /\ k \in 0..Length[v]
      BY <1>2
    <2>2. Over(SubSeq(Text(v), 1, n), s) = Part(v, k)
      BY <1>1, <1>2, <2>1, TextIsPart, OverPart
    <2> HIDE DEF k
    <2> QED
      BY <2>1, <2>2 DEF IsPart
  <1> QED
    BY <1>3, <1>4, <1>5, TextIsPart DEF IsPart

-----------------------------------------------------------------------------
(* The invariant *)

Ongoing == {"starting", "opening", "writing"}

Types ==
    /\ files \in [Names -> Seq(Versions)]
    /\ phase \in [Exporters -> Ongoing \cup {"idle", "exported", "failed"}]
    /\ version \in [Exporters -> Versions \cup {NoVersion}]
    /\ at \in [Exporters -> Names]
    /\ alone \in [Exporters -> BOOLEAN]
    /\ broken \subseteq Names /\ used \subseteq Versions
    /\ \A p \in Exporters :
          /\ phase[p] # "idle" => version[p] \in used
          /\ phase[p] = "starting" => at[p] = 1

\* A run that nobody joined has no other beside it, and what it has passed, or
\* all of it once it succeeded, is its own text.
AloneRun(p) ==
    /\ \A q \in Exporters \ {p} : phase[q] \notin Ongoing
    /\ phase[p] = "exported" => \A n \in Names : files[n] = Text(version[p])
    /\ phase[p] # "exported" => \A n \in 1..(at[p] - 1) : files[n] = Text(version[p])
    /\ phase[p] = "writing" => files[at[p]] = << >>

AloneOK ==
    \A p \in Exporters :
        alone[p] /\ phase[p] \in Ongoing \cup {"exported"} => AloneRun(p)

\* Where only one version has ever run, every file is a beginning of its text,
\* and what a run has passed is whole, broken or open again.
Settled(n, v) ==
    \/ files[n] = Text(v)
    \/ n \in broken
    \/ \E p \in Exporters : phase[p] = "writing" /\ at[p] = n

OneVersion(v) ==
    /\ \A n \in Names : IsPart(files[n], v)
    /\ \A p \in Exporters :
          /\ phase[p] \in Ongoing => \A n \in 1..(at[p] - 1) : Settled(n, v)
          /\ phase[p] = "exported" => \A n \in Names : Settled(n, v)

Agreement ==
    /\ used = {} => /\ \A n \in Names : files[n] = << >>
                    /\ \A p \in Exporters : phase[p] = "idle"
    /\ \A v \in Versions : used = {v} => OneVersion(v)

IInv == Types /\ AloneOK /\ Agreement

-----------------------------------------------------------------------------
(* Its proof *)

LEMMA TextsAreTexts ==
    ASSUME NEW v \in Versions
    PROVE  /\ Text(v) \in Seq(Versions)
           /\ \A n \in 1..Length[v] : SubSeq(Text(v), 1, n) \in Seq(Versions)
  <1>1. \A m \in Nat : Part(v, m) \in Seq(Versions)
    <2> TAKE m \in Nat
    <2>1. Part(v, m) \in [1..m -> Versions]
      BY DEF Part
    <2> HIDE DEF Part
    <2> QED
      BY <2>1
  <1>2. Length[v] \in Nat /\ \A n \in 1..Length[v] : n \in Nat
    BY TextIsPart
  <1> QED
    BY <1>1, <1>2, TextIsPart

\* A stopped write leaves a file that is a text, or none changed.
LEMMA LeftPart ==
    ASSUME Types, NEW p \in Exporters, phase[p] \in Ongoing, LeavePart(p)
    PROVE  /\ files' \in [Names -> Seq(Versions)]
           /\ broken' \subseteq Names
           /\ broken \subseteq broken'
           /\ \A n \in Names \ {at[p]} : files'[n] = files[n]
           /\ phase[p] = "writing" => at[p] \in broken'
           /\ phase[p] # "writing" => files' = files
  <1>1. version[p] \in Versions /\ at[p] \in Names
    BY DEF Types, Ongoing
  <1>2. /\ broken' \subseteq Names /\ broken \subseteq broken'
        /\ phase[p] = "writing" => at[p] \in broken'
        /\ phase[p] # "writing" => files' = files
    BY <1>1 DEF LeavePart, Types
  <1>3. /\ files' \in [Names -> Seq(Versions)]
        /\ \A n \in Names \ {at[p]} : files'[n] = files[n]
    <2>1. CASE UNCHANGED files
      BY <2>1 DEF Types
    <2>2. ASSUME NEW n \in 1..Length[version[p]],
                 files' = [files EXCEPT ![at[p]] = Over(SubSeq(Text(version[p]), 1, n), @)]
          PROVE  /\ files' \in [Names -> Seq(Versions)]
                 /\ \A k \in Names \ {at[p]} : files'[k] = files[k]
      <3>1. SubSeq(Text(version[p]), 1, n) \in Seq(Versions) /\ files[at[p]] \in Seq(Versions)
        BY <1>1, TextsAreTexts DEF Types
      <3>2. Over(SubSeq(Text(version[p]), 1, n), files[at[p]]) \in Seq(Versions)
        BY <3>1, OverIsText
      <3> QED
        BY <1>1, <2>2, <3>2 DEF Types
    <2> QED
      BY <2>1, <2>2 DEF LeavePart
  <1> QED
    BY <1>2, <1>3

\* What a whole write does to the files.
LEMMA Written ==
    ASSUME Types, NEW p \in Exporters, WriteFile(p)
    PROVE  /\ files' \in [Names -> Seq(Versions)]
           /\ \A n \in Names \ {at[p]} : files'[n] = files[n]
           /\ files'[at[p]] = Over(Text(version[p]), files[at[p]])
           /\ files[at[p]] = << >> => files'[at[p]] = Text(version[p])
  <1>1. /\ version[p] \in Versions /\ at[p] \in Names
        /\ files' = [files EXCEPT ![at[p]] = Over(Text(version[p]), @)]
    BY DEF WriteFile, Types
  <1>2. Text(version[p]) \in Seq(Versions) /\ files[at[p]] \in Seq(Versions)
    BY <1>1, TextsAreTexts DEF Types
  <1>3. Over(Text(version[p]), files[at[p]]) \in Seq(Versions)
    BY <1>2, OverIsText
  <1>4. files[at[p]] = << >> => Over(Text(version[p]), files[at[p]]) = Text(version[p])
    BY <1>2, OverEmpty
  <1> QED
    BY <1>1, <1>3, <1>4 DEF Types

LEMMA TypesKept == Types /\ [Next]_vars => Types'
  <1> SUFFICES ASSUME Types, [Next]_vars
               PROVE  Types'
    OBVIOUS
  <1> USE DEF state, history, Goto, Ongoing
  <1>1. 1 \in Names /\ \A k \in Names : k # Count => k + 1 \in Names
    BY ExportAssumption DEF Names
  <1>2. ASSUME NEW p \in Exporters, NEW v \in Versions, Start(p, v)
        PROVE  Types'
    BY <1>1, <1>2 DEF Types, Start
  <1>3. ASSUME NEW p \in Exporters, MakeDirectory(p)
        PROVE  Types'
    BY <1>3 DEF Types, MakeDirectory
  <1>4. ASSUME NEW p \in Exporters, OpenFile(p)
        PROVE  Types'
    <2>1. << >> \in Seq(Versions)
      BY EmptySeq
    <2> QED
      BY <1>4, <2>1 DEF Types, OpenFile
  <1>5. ASSUME NEW p \in Exporters, WriteFile(p)
        PROVE  Types'
    <2>1. files' \in [Names -> Seq(Versions)]
      BY <1>5, Written
    <2>2. /\ broken' = broken \ {at[p]}
          /\ at' = [at EXCEPT ![p] = IF @ = Count THEN @ ELSE @ + 1]
          /\ phase' = [phase EXCEPT ![p] = IF at[p] = Count THEN "exported" ELSE "opening"]
          /\ phase[p] = "writing"
          /\ UNCHANGED <<version, alone, used>>
      BY <1>5 DEF WriteFile
    <2>3. at' \in [Exporters -> Names]
      BY <1>1, <2>2 DEF Types
    <2> QED
      BY <2>1, <2>2, <2>3 DEF Types
  <1>6. ASSUME NEW p \in Exporters, Fail(p) \/ Crash(p)
        PROVE  Types'
    <2>1. /\ phase[p] \in Ongoing /\ LeavePart(p)
          /\ \/ phase' = [phase EXCEPT ![p] = "failed"]
             \/ phase' = [phase EXCEPT ![p] = "idle"]
          /\ UNCHANGED <<version, at, alone, used>>
      BY <1>6 DEF Fail, Crash
    <2>2. files' \in [Names -> Seq(Versions)] /\ broken' \subseteq Names
      BY <2>1, LeftPart
    <2> QED
      BY <2>1, <2>2 DEF Types
  <1>7. CASE UNCHANGED vars
    BY <1>7 DEF Types, vars
  <1> QED
    BY <1>2, <1>3, <1>4, <1>5, <1>6, <1>7 DEF Next

\* Beside an ongoing run no other is alone.
LEMMA OneIsAlone ==
    ASSUME AloneOK, NEW p \in Exporters, phase[p] \in Ongoing, NEW q \in Exporters, q # p
    PROVE  ~(alone[q] /\ phase[q] \in Ongoing \cup {"exported"})
  BY DEF AloneOK, AloneRun

\* So a step of an ongoing run has only its own loneliness to keep.
LEMMA OwnLoneliness ==
    ASSUME Types, AloneOK, NEW p \in Exporters, phase[p] \in Ongoing,
           UNCHANGED alone, \A q \in Exporters \ {p} : phase'[q] = phase[q],
           alone[p] /\ phase'[p] \in Ongoing \cup {"exported"} => AloneRun(p)'
    PROVE  AloneOK'
  <1> SUFFICES ASSUME NEW q \in Exporters, alone'[q], phase'[q] \in Ongoing \cup {"exported"}
               PROVE  AloneRun(q)'
    BY DEF AloneOK
  <1>1. CASE q = p
    BY <1>1
  <1>2. CASE q # p
    BY <1>2, OneIsAlone
  <1> QED
    BY <1>1, <1>2

LEMMA AloneKept == Types /\ AloneOK /\ [Next]_vars => AloneOK'
  <1> SUFFICES ASSUME Types, AloneOK, [Next]_vars
               PROVE  AloneOK'
    OBVIOUS
  <1> USE DEF state, history, Goto
  <1>1. ASSUME NEW p \in Exporters, NEW v \in Versions, Start(p, v)
        PROVE  AloneOK'
    <2>1. /\ phase' = [phase EXCEPT ![p] = "starting"] /\ at' = [at EXCEPT ![p] = 1]
          /\ alone' = [q \in Exporters |-> IF q = p THEN Running = {} ELSE FALSE]
      BY <1>1 DEF Start
    <2>2. phase'[p] = "starting" /\ at'[p] = 1 /\ \A q \in Exporters \ {p} : phase'[q] = phase[q]
      BY <2>1 DEF Types
    <2>3. alone'[p] => \A q \in Exporters \ {p} : phase[q] \notin Ongoing
      BY <2>1 DEF Running, Ongoing
    <2>4. 1..(at'[p] - 1) = {}
      BY <2>2
    <2>5. alone'[p] => AloneRun(p)'
      BY <2>2, <2>3, <2>4 DEF AloneRun
    <2> QED
      BY <2>1, <2>5 DEF AloneOK
  <1>2. ASSUME NEW p \in Exporters, MakeDirectory(p)
        PROVE  AloneOK'
    <2>1. /\ phase[p] = "starting" /\ phase' = [phase EXCEPT ![p] = "opening"]
          /\ UNCHANGED <<files, version, at, alone>>
      BY <1>2 DEF MakeDirectory
    <2>2. /\ phase'[p] = "opening" /\ \A q \in Exporters \ {p} : phase'[q] = phase[q]
          /\ phase[p] \in Ongoing
      BY <2>1 DEF Types, Ongoing
    <2>3. alone[p] => AloneRun(p)
      BY <2>2 DEF AloneOK
    <2>4. alone[p] => AloneRun(p)'
      BY <2>1, <2>2, <2>3 DEF AloneRun
    <2> QED
      BY <2>1, <2>2, <2>4, OwnLoneliness
  <1>3. ASSUME NEW p \in Exporters, OpenFile(p)
        PROVE  AloneOK'
    <2>1. /\ phase[p] = "opening" /\ phase' = [phase EXCEPT ![p] = "writing"]
          /\ files' = [files EXCEPT ![at[p]] = << >>]
          /\ UNCHANGED <<version, at, alone>>
      BY <1>3 DEF OpenFile
    <2>2. /\ phase'[p] = "writing" /\ \A q \in Exporters \ {p} : phase'[q] = phase[q]
          /\ phase[p] \in Ongoing
      BY <2>1 DEF Types, Ongoing
    <2>3. /\ at[p] \in Names /\ at[p] \in Int /\ files'[at[p]] = << >>
          /\ \A n \in 1..(at[p] - 1) : n \in Names /\ files'[n] = files[n]
      BY <2>1, ExportAssumption DEF Types, Names
    <2>4. alone[p] => AloneRun(p)
      BY <2>2 DEF AloneOK
    <2>5. alone[p] => AloneRun(p)'
      BY <2>1, <2>2, <2>3, <2>4 DEF AloneRun
    <2> QED
      BY <2>1, <2>2, <2>5, OwnLoneliness
  <1>4. ASSUME NEW p \in Exporters, WriteFile(p)
        PROVE  AloneOK'
    <2>1. /\ phase[p] = "writing"
          /\ phase' = [phase EXCEPT ![p] = IF at[p] = Count THEN "exported" ELSE "opening"]
          /\ at' = [at EXCEPT ![p] = IF @ = Count THEN @ ELSE @ + 1]
          /\ UNCHANGED <<version, alone>>
      BY <1>4 DEF WriteFile
    <2>2. /\ \A q \in Exporters \ {p} : phase'[q] = phase[q]
          /\ phase'[p] = IF at[p] = Count THEN "exported" ELSE "opening"
          /\ at'[p] = IF at[p] = Count THEN at[p] ELSE at[p] + 1
          /\ phase[p] \in Ongoing
      BY <2>1 DEF Types, Ongoing
    <2>3. ASSUME alone[p]
          PROVE  /\ \A n \in 1..at[p] : files'[n] = Text(version[p])
                 /\ \A q \in Exporters \ {p} : phase[q] \notin Ongoing
      <3>1. AloneRun(p)
        BY <2>2, <2>3 DEF AloneOK
      <3>2. files'[at[p]] = Text(version[p]) /\ \A n \in Names \ {at[p]} : files'[n] = files[n]
        BY <1>4, <2>1, <3>1, Written DEF AloneRun
      <3>3. at[p] \in Names /\ \A n \in 1..at[p] : n = at[p] \/ (n \in 1..(at[p] - 1) /\ n \in Names \ {at[p]})
        BY ExportAssumption DEF Types, Names
      <3> QED
        BY <2>1, <3>1, <3>2, <3>3 DEF AloneRun
    <2>4. at[p] \in Int /\ (at[p] + 1) - 1 = at[p]
      BY ExportAssumption DEF Types, Names
    <2>5. alone[p] => AloneRun(p)'
      <3>1. CASE at[p] = Count
        BY <2>1, <2>2, <2>3, <3>1 DEF AloneRun, Names
      <3>2. CASE at[p] # Count
        BY <2>1, <2>2, <2>3, <2>4, <3>2 DEF AloneRun
      <3> QED
        BY <3>1, <3>2
    <2> QED
      BY <2>1, <2>2, <2>5, OwnLoneliness
  <1>5. ASSUME NEW p \in Exporters, Fail(p) \/ Crash(p)
        PROVE  AloneOK'
    <2>1. /\ phase[p] \in Ongoing
          /\ \/ phase' = [phase EXCEPT ![p] = "failed"]
             \/ phase' = [phase EXCEPT ![p] = "idle"]
          /\ UNCHANGED alone
      BY <1>5 DEF Fail, Crash, Ongoing
    <2>2. \A q \in Exporters \ {p} : phase'[q] = phase[q]
      BY <2>1 DEF Types
    <2>3. phase'[p] \notin Ongoing \cup {"exported"}
      BY <2>1 DEF Types, Ongoing
    <2> QED
      BY <2>1, <2>2, <2>3, OwnLoneliness
  <1>6. CASE UNCHANGED vars
    BY <1>6 DEF AloneOK, AloneRun, vars
  <1> QED
    BY <1>1, <1>2, <1>3, <1>4, <1>5, <1>6 DEF Next

\* A file that is left alone stays settled while those who write it still do.
LEMMA SettledKept ==
    ASSUME NEW v, NEW n, Settled(n, v), files'[n] = files[n], n \in broken => n \in broken',
           \A q \in Exporters : phase[q] = "writing" /\ at[q] = n
                                    => phase'[q] = "writing" /\ at'[q] = n
    PROVE  Settled(n, v)'
  BY DEF Settled

\* A step that unsettles no file has only to account for what its run has passed.
LEMMA OwnProgress ==
    ASSUME Types, Types', NEW v, OneVersion(v), NEW p \in Exporters,
           \A q \in Exporters \ {p} : phase'[q] = phase[q] /\ at'[q] = at[q],
           \A n \in Names : Settled(n, v) => Settled(n, v)',
           \A n \in Names : IsPart(files'[n], v),
           phase'[p] \in Ongoing => \A n \in 1..(at'[p] - 1) : Settled(n, v)',
           phase'[p] = "exported" => \A n \in Names : Settled(n, v)'
    PROVE  OneVersion(v)'
  <1>1. \A q \in Exporters : \A n \in 1..(at[q] - 1) : n \in Names
    BY ExportAssumption DEF Types, Names
  <1>2. ASSUME NEW q \in Exporters \ {p}
        PROVE  /\ phase'[q] \in Ongoing => \A n \in 1..(at'[q] - 1) : Settled(n, v)'
               /\ phase'[q] = "exported" => \A n \in Names : Settled(n, v)'
    BY <1>1, <1>2 DEF OneVersion
  <1> QED
    BY <1>2 DEF OneVersion

\* While only one version was used, nobody runs another and somebody ran it.
LEMMA TheVersion ==
    ASSUME Types, Agreement, NEW p \in Exporters, phase[p] \in Ongoing, UNCHANGED used,
           \A v \in Versions : used = {v} => version[p] = v /\ (OneVersion(v) => OneVersion(v)')
    PROVE  Agreement'
  <1>1. used # {}
    BY DEF Agreement, Ongoing
  <1> QED
    BY <1>1 DEF Agreement

LEMMA AgreementKept == Types /\ Types' /\ Agreement /\ [Next]_vars => Agreement'
  <1> SUFFICES ASSUME Types, Types', Agreement, [Next]_vars
               PROVE  Agreement'
    OBVIOUS
  <1> USE DEF state, history, Goto
  <1>1. ASSUME NEW p \in Exporters, NEW u \in Versions, Start(p, u)
        PROVE  Agreement'
    <2>1. /\ phase[p] \in {"idle", "exported", "failed"}
          /\ phase' = [phase EXCEPT ![p] = "starting"] /\ at' = [at EXCEPT ![p] = 1]
          /\ used' = used \cup {u} /\ UNCHANGED <<files, broken>>
      BY <1>1 DEF Start
    <2>2. /\ phase'[p] = "starting" /\ 1..(at'[p] - 1) = {} /\ phase[p] # "writing"
          /\ \A q \in Exporters \ {p} : phase'[q] = phase[q] /\ at'[q] = at[q]
      BY <2>1 DEF Types
    <2>3. ASSUME NEW v \in Versions, used' = {v}
          PROVE  OneVersion(v)'
      <3>1. CASE used = {}
        <4>1. /\ \A n \in Names : files'[n] = << >>
              /\ \A q \in Exporters \ {p} : phase'[q] = "idle"
          BY <2>1, <2>2, <3>1 DEF Agreement
        <4> QED
          BY <2>2, <4>1, EmptyIsPart DEF OneVersion, Ongoing
      <3>2. CASE used = {v}
        <4>1. OneVersion(v)
          BY <3>2 DEF Agreement
        <4>2. \A n \in Names : Settled(n, v) => Settled(n, v)'
          BY <2>1, <2>2 DEF Settled
        <4>3. phase'[p] # "exported" /\ \A n \in Names : IsPart(files'[n], v)
          BY <2>1, <2>2, <4>1 DEF OneVersion
        <4> QED
          BY <2>2, <4>1, <4>2, <4>3, OwnProgress
      <3>3. used = {} \/ used = {v}
        BY <2>1, <2>3
      <3> QED
        BY <3>1, <3>2, <3>3
    <2> QED
      BY <2>1, <2>3 DEF Agreement
  <1>2. ASSUME NEW p \in Exporters, MakeDirectory(p)
        PROVE  Agreement'
    <2>1. /\ phase[p] = "starting" /\ phase' = [phase EXCEPT ![p] = "opening"]
          /\ UNCHANGED <<files, at, broken, used>>
      BY <1>2 DEF MakeDirectory
    <2>2. /\ phase'[p] = "opening" /\ at[p] = 1 /\ phase[p] \in Ongoing /\ phase[p] # "idle"
          /\ 1..(at'[p] - 1) = {}
          /\ \A q \in Exporters \ {p} : phase'[q] = phase[q] /\ at'[q] = at[q]
      BY <2>1 DEF Types, Ongoing
    <2>3. ASSUME NEW v \in Versions, used = {v}, OneVersion(v)
          PROVE  OneVersion(v)'
      <3>1. \A n \in Names : Settled(n, v) => Settled(n, v)'
        BY <2>1, <2>2 DEF Settled
      <3>2. phase'[p] # "exported" /\ \A n \in Names : IsPart(files'[n], v)
        BY <2>1, <2>2, <2>3 DEF OneVersion
      <3> QED
        BY <2>2, <2>3, <3>1, <3>2, OwnProgress
    <2>4. version[p] \in used
      BY <2>2 DEF Types
    <2> QED
      BY <2>1, <2>2, <2>3, <2>4, TheVersion
  <1>3. ASSUME NEW p \in Exporters, OpenFile(p)
        PROVE  Agreement'
    <2>1. /\ phase[p] = "opening" /\ phase' = [phase EXCEPT ![p] = "writing"]
          /\ files' = [files EXCEPT ![at[p]] = << >>]
          /\ UNCHANGED <<at, broken, used>>
      BY <1>3 DEF OpenFile
    <2>2. /\ phase'[p] = "writing" /\ phase[p] \in Ongoing /\ phase[p] # "idle"
          /\ at[p] \in Names /\ files'[at[p]] = << >>
          /\ \A n \in Names \ {at[p]} : files'[n] = files[n]
          /\ \A q \in Exporters \ {p} : phase'[q] = phase[q] /\ at'[q] = at[q]
      BY <2>1 DEF Types, Ongoing
    <2>3. ASSUME NEW v \in Versions, used = {v}, OneVersion(v)
          PROVE  OneVersion(v)'
      <3>1. ASSUME NEW n \in Names, Settled(n, v)
            PROVE  Settled(n, v)'
        <4>1. CASE n = at[p]
          BY <2>1, <2>2, <4>1 DEF Settled
        <4>2. CASE n # at[p]
          BY <2>1, <2>2, <3>1, <4>2, SettledKept
        <4> QED
          BY <4>1, <4>2
      <3>2. \A n \in Names : IsPart(files'[n], v)
        BY <2>2, <2>3, EmptyIsPart DEF OneVersion
      <3>3. \A n \in 1..(at[p] - 1) : n \in Names /\ Settled(n, v)
        BY <2>2, <2>3, ExportAssumption DEF OneVersion, Names
      <3> QED
        BY <2>1, <2>2, <2>3, <3>1, <3>2, <3>3, OwnProgress
    <2>4. version[p] \in used
      BY <2>2 DEF Types
    <2> QED
      BY <2>1, <2>2, <2>3, <2>4, TheVersion
  <1>4. ASSUME NEW p \in Exporters, WriteFile(p)
        PROVE  Agreement'
    <2>1. /\ phase[p] = "writing"
          /\ phase' = [phase EXCEPT ![p] = IF at[p] = Count THEN "exported" ELSE "opening"]
          /\ at' = [at EXCEPT ![p] = IF @ = Count THEN @ ELSE @ + 1]
          /\ broken' = broken \ {at[p]}
          /\ UNCHANGED used
      BY <1>4 DEF WriteFile
    <2>2. /\ phase'[p] = IF at[p] = Count THEN "exported" ELSE "opening"
          /\ at'[p] = IF at[p] = Count THEN at[p] ELSE at[p] + 1
          /\ phase[p] \in Ongoing /\ phase[p] # "idle"
          /\ at[p] \in Names
          /\ \A q \in Exporters \ {p} : phase'[q] = phase[q] /\ at'[q] = at[q]
      BY <2>1 DEF Types, Ongoing
    <2>3. /\ \A n \in Names \ {at[p]} : files'[n] = files[n]
          /\ files'[at[p]] = Over(Text(version[p]), files[at[p]])
      BY <1>4, Written
    <2>4. at[p] \in Int /\ (at[p] + 1) - 1 = at[p] /\ \A n \in 1..(at[p] - 1) : n \in Names
      BY <2>2, ExportAssumption DEF Names
    <2>5. ASSUME NEW v \in Versions, version[p] = v, OneVersion(v)
          PROVE  OneVersion(v)'
      <3>1. files'[at[p]] = Text(v) /\ IsPart(Text(v), v)
        BY <2>2, <2>3, <2>5, OverBeginning DEF OneVersion
      <3>2. \A n \in Names : IsPart(files'[n], v)
        BY <2>3, <2>5, <3>1 DEF OneVersion
      <3>3. ASSUME NEW n \in Names, n = at[p] \/ Settled(n, v)
            PROVE  Settled(n, v)'
        <4>1. CASE n = at[p]
          BY <3>1, <4>1 DEF Settled
        <4>2. CASE n # at[p]
          BY <2>1, <2>2, <2>3, <3>3, <4>2, SettledKept
        <4> QED
          BY <4>1, <4>2
      <3>4. \A n \in 1..(at[p] - 1) : Settled(n, v)
        BY <2>2, <2>5 DEF OneVersion
      <3>5. CASE at[p] = Count
        <4>1. \A n \in Names : n = at[p] \/ n \in 1..(at[p] - 1)
          BY <2>4, <3>5, ExportAssumption DEF Names
        <4> QED
          BY <2>2, <2>5, <3>2, <3>3, <3>4, <3>5, <4>1, OwnProgress DEF Ongoing
      <3>6. CASE at[p] # Count
        <4>1. \A n \in 1..at[p] : n = at[p] \/ n \in 1..(at[p] - 1)
          BY <2>4
        <4>2. \A n \in 1..(at'[p] - 1) : n \in Names /\ Settled(n, v)'
          BY <2>2, <2>4, <3>3, <3>4, <3>6, <4>1
        <4> QED
          BY <2>2, <2>5, <3>2, <3>3, <3>6, <4>2, OwnProgress
      <3> QED
        BY <3>5, <3>6
    <2>6. version[p] \in used
      BY <2>2 DEF Types
    <2> QED
      BY <2>1, <2>2, <2>5, <2>6, TheVersion
  <1>5. ASSUME NEW p \in Exporters, Fail(p) \/ Crash(p)
        PROVE  Agreement'
    <2>1. /\ phase[p] \in Ongoing /\ LeavePart(p)
          /\ \/ phase' = [phase EXCEPT ![p] = "failed"]
             \/ phase' = [phase EXCEPT ![p] = "idle"]
          /\ UNCHANGED <<version, at, used>>
      BY <1>5 DEF Fail, Crash, Ongoing
    <2>2. /\ phase'[p] \in {"failed", "idle"} /\ phase[p] # "idle" /\ at[p] \in Names
          /\ \A q \in Exporters \ {p} : phase'[q] = phase[q] /\ at'[q] = at[q]
      BY <2>1 DEF Types, Ongoing
    <2>3. /\ broken \subseteq broken'
          /\ \A n \in Names \ {at[p]} : files'[n] = files[n]
          /\ phase[p] = "writing" => at[p] \in broken'
          /\ phase[p] # "writing" => files' = files
      BY <2>1, LeftPart
    <2>4. ASSUME NEW v \in Versions, version[p] = v, OneVersion(v)
          PROVE  OneVersion(v)'
      <3>1. IsPart(files'[at[p]], v)
        <4>1. IsPart(files[at[p]], v)
          BY <2>2, <2>4 DEF OneVersion
        <4>2. CASE UNCHANGED files
          BY <4>1, <4>2
        <4>3. ASSUME NEW n \in 1..Length[v],
                     files' = [files EXCEPT ![at[p]] = Over(SubSeq(Text(v), 1, n), @)]
              PROVE  IsPart(files'[at[p]], v)
          <5>1. files'[at[p]] = Over(SubSeq(Text(v), 1, n), files[at[p]])
            BY <2>2, <4>3 DEF Types
          <5> QED
            BY <4>1, <5>1, OverBeginning
        <4> QED
          BY <2>1, <2>4, <4>2, <4>3 DEF LeavePart
      <3>2. \A n \in Names : IsPart(files'[n], v)
        BY <2>3, <2>4, <3>1 DEF OneVersion
      <3>3. ASSUME NEW n \in Names, Settled(n, v)
            PROVE  Settled(n, v)'
        <4>1. CASE n = at[p] /\ phase[p] = "writing"
          BY <2>3, <4>1 DEF Settled
        <4>2. CASE ~(n = at[p] /\ phase[p] = "writing")
          <5>1. files'[n] = files[n]
            BY <2>3, <4>2
          <5>2. \A q \in Exporters : phase[q] = "writing" /\ at[q] = n => q \in Exporters \ {p}
            BY <4>2
          <5> QED
            BY <2>2, <2>3, <3>3, <5>1, <5>2, SettledKept
        <4> QED
          BY <4>1, <4>2
      <3> QED
        BY <2>2, <2>4, <3>2, <3>3, OwnProgress DEF Ongoing
    <2>5. version[p] \in used
      BY <2>2 DEF Types
    <2> QED
      BY <2>1, <2>4, <2>5, TheVersion
  <1>6. CASE UNCHANGED vars
    BY <1>6 DEF Agreement, OneVersion, Settled, vars
  <1> QED
    BY <1>1, <1>2, <1>3, <1>4, <1>5, <1>6 DEF Next

LEMMA Invariance == Spec => []IInv
  <1>1. Init => Types
    BY EmptySeq, ExportAssumption DEF Init, Types, Names
  <1>2. Init => AloneOK
    BY DEF Init, AloneOK, Ongoing
  <1>3. Init => Agreement
    BY DEF Init, Agreement
  <1>4. IInv /\ [Next]_vars => IInv'
    BY TypesKept, AloneKept, AgreementKept DEF IInv
  <1>5. Init => IInv
    BY <1>1, <1>2, <1>3 DEF IInv
  <1> QED
    BY <1>4, <1>5, PTL DEF Spec

\* A run that reports success beside no other leaves all schemas of its own
\* version, whatever earlier runs left behind (schema_export.py:45-52).
THEOREM AloneSucceeds == Spec => []SuccessMeansAllFiles
  <1>1. IInv => SuccessMeansAllFiles
    BY DEF IInv, AloneOK, AloneRun, SuccessMeansAllFiles
  <1> QED
    BY <1>1, Invariance, PTL

\* Overlapping runs of one version agree: once one of them succeeded, a file is
\* whole unless somebody has it open or was stopped at it (schema_export.py:45-52).
THEOREM SameVersionAgrees == Spec => []OverlappingRunsAgree
  <1>1. IInv => OverlappingRunsAgree
    BY DEF IInv, Agreement, OneVersion, Settled, OverlappingRunsAgree
  <1> QED
    BY <1>1, Invariance, PTL
=============================================================================
