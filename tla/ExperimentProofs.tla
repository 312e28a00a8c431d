--------------------------- MODULE ExperimentProofs ---------------------------
(***************************************************************************)
(* For any number of cases, directories, sessions and crashes: no more     *)
(* files are damaged than sessions died, and no cell counts as measured    *)
(* without an answer.                                                      *)
(***************************************************************************)
EXTENDS Experiment, ListsProofs

Broken == {dc \in Dir \X Case : disk[dc[1]][dc[2]] \in {Torn, Cut}}
Here == <<session.out, Head(queue)>>

IsDisk == disk = [d \in Dir |-> [c \in Case |-> disk[d][c]]]

\* The file being written may be broken on top of those the crashes left.
BrokenInv ==
  /\ IsDisk
  /\ crashes \in Nat
  /\ IsFiniteSet(Broken)
  /\ pc # "writing" => Cardinality(Broken) <= crashes
  /\ pc = "writing" => Cardinality(Broken \ {Here}) <= crashes

Writes(d, c, v) == disk' = [disk EXCEPT ![d][c] = v]

\* Writing one file leaves the others as they are.
LEMMA OneFileWritten ==
  ASSUME IsDisk, NEW d, NEW c, NEW v, Writes(d, c, v)
  PROVE  /\ IsDisk'
         /\ \A e \in Dir : \A b \in Case :
              disk'[e][b] = IF e = d /\ b = c THEN v ELSE disk[e][b]
<1> DEFINE F(e, b) == IF e = d /\ b = c THEN v ELSE disk[e][b]
<1>1. DOMAIN disk = Dir /\ \A e \in Dir : DOMAIN disk[e] = Case
  BY DEF IsDisk
<1>2. \A e \in Dir : disk'[e] = IF e = d THEN [disk[e] EXCEPT ![c] = v] ELSE disk[e]
  BY <1>1 DEF Writes
<1>3. \A e \in Dir : disk[e] = [b \in Case |-> disk[e][b]]
  BY DEF IsDisk
<1>4. \A e \in Dir : disk'[e] = [b \in Case |-> F(e, b)]
  <2> TAKE e \in Dir
  <2>1. CASE e = d
    <3>1. [disk[e] EXCEPT ![c] = v] = [b \in Case |-> IF b = c THEN v ELSE disk[e][b]]
      BY <1>1, <1>3
    <3>2. disk'[e] = [b \in Case |-> IF b = c THEN v ELSE disk[e][b]]
      BY <1>2, <2>1, <3>1
    <3> QED BY <2>1, <3>2
  <2>2. CASE e # d
    BY <1>2, <1>3, <2>2
  <2> QED BY <2>1, <2>2
<1>5. \A e \in Dir : \A b \in Case : disk'[e][b] = F(e, b)
  <2> TAKE e \in Dir
  <2> TAKE b \in Case
  <2>1. disk'[e] = [a \in Case |-> F(e, a)]
    BY <1>4
  <2> HIDE DEF F
  <2> QED BY <2>1
<1>6. disk' = [e \in Dir |-> [b \in Case |-> disk'[e][b]]]
  <2>1. ASSUME NEW e \in Dir PROVE disk'[e] = [b \in Case |-> disk'[e][b]]
    <3>1. disk'[e] = [b \in Case |-> F(e, b)]
      BY <1>4
    <3> HIDE DEF F
    <3>2. \A b \in Case : disk'[e][b] = F(e, b)
      BY <3>1
    <3>3. [b \in Case |-> F(e, b)] = [b \in Case |-> disk'[e][b]]
      BY <3>2
    <3> QED BY <3>1, <3>3
  <2>2. disk' = [e \in Dir |-> disk'[e]]
    BY <1>1 DEF Writes
  <2>3. [e \in Dir |-> disk'[e]] = [e \in Dir |-> [b \in Case |-> disk'[e][b]]]
    BY <2>1
  <2> QED BY <2>2, <2>3
<1> QED BY <1>5, <1>6 DEF IsDisk

LEMMA KindsOfFile ==
  /\ NoFile \notin {Torn, Cut}
  /\ \A snap, r : Written(snap, r) \notin {Torn, Cut} /\ Written(snap, r).state = "written"
  /\ NoFile.state # "written" /\ Torn.state # "written" /\ Cut.state # "written"
<1>1. NoFile.state = "absent" /\ Torn.state = "torn" /\ Cut.state = "cut"
  BY DEF NoFile, Torn, Cut
<1>2. \A snap, r : Written(snap, r).state = "written"
  BY DEF Written
<1> QED BY <1>1, <1>2

\* With one place set aside, a finite set has not grown beyond what is left of it.
LEMMA OneAside ==
  ASSUME NEW S, NEW T, NEW x, NEW n \in Nat, IsFiniteSet(S), T \ {x} \subseteq S, Cardinality(S) <= n
  PROVE  IsFiniteSet(T) /\ Cardinality(T \ {x}) <= n
<1>1. IsFiniteSet(T \ {x}) /\ Cardinality(T \ {x}) <= Cardinality(S)
  BY FS_Subset
<1>2. IsFiniteSet((T \ {x}) \cup {x})
  BY <1>1, FS_AddElement
<1>3. IsFiniteSet(T)
  <2>1. T \subseteq (T \ {x}) \cup {x}
    OBVIOUS
  <2> QED BY <1>2, <2>1, FS_Subset
<1>4. Cardinality(S) \in Nat /\ Cardinality(T \ {x}) \in Nat
  BY <1>1, FS_CardinalityType
<1> QED BY <1>1, <1>3, <1>4

\* What is being written, and what has been, is the record of a repairer of its kind.
IsRecorded(c, file) == \E snap : \E r \in Recorded(Kind[c]) : file = Written(snap, r)
RecordedInv ==
  /\ IsDisk
  /\ pc = "writing" => IsRecorded(Head(queue), writing)
  /\ \A d \in Dir : \A c \in Case : Readable(d, c) => IsRecorded(c, disk[d][c])

LEMMA RecordedInit == Init => RecordedInv
BY KindsOfFile DEF Init, RecordedInv, IsDisk, Readable

LEMMA RecordedNext == RecordedInv /\ [Next]_vars => RecordedInv'
<1> SUFFICES ASSUME RecordedInv, [Next]_vars PROVE RecordedInv'
  OBVIOUS
<1> USE DEF RecordedInv
<1>1. ASSUME UNCHANGED disk
      PROVE  IsDisk' /\ \A d \in Dir : \A c \in Case : Readable(d, c)' => IsRecorded(c, disk[d][c])'
  BY <1>1 DEF IsDisk, Readable, IsRecorded
<1>2. ASSUME NEW file, Writes(session.out, Head(queue), file),
             file.state = "written" => IsRecorded(Head(queue), file)
      PROVE  IsDisk' /\ \A d \in Dir : \A c \in Case : Readable(d, c)' => IsRecorded(c, disk[d][c])'
  <2>1. /\ IsDisk'
        /\ \A e \in Dir : \A b \in Case :
             disk'[e][b] = IF e = session.out /\ b = Head(queue) THEN file ELSE disk[e][b]
    BY <1>2, OneFileWritten
  <2> QED BY <1>2, <2>1 DEF Readable, IsRecorded
<1>3. CASE StartSession
  BY <1>1, <1>3 DEF StartSession
<1>4. CASE Raise
  BY <1>1, <1>4 DEF Raise
<1>5. CASE OpenResult
  <2>1. Writes(session.out, Head(queue), Torn) /\ queue' = queue
    BY <1>5 DEF OpenResult, Writes
  <2>2. IsRecorded(Head(queue), writing')
    <3>1. PICK r \in Recorded(Kind[Head(queue)]) : writing' = Written(session.snap, r)
      BY <1>5 DEF OpenResult
    <3> QED BY <3>1 DEF IsRecorded
  <2> QED BY <1>2, <2>1, <2>2, KindsOfFile DEF IsRecorded
<1>6. CASE CloseResult
  <2>1. Writes(session.out, Head(queue), writing) /\ pc = "writing" /\ pc' = "running"
    BY <1>6 DEF CloseResult, Writes
  <2> QED BY <1>2, <2>1
<1>7. CASE EndSession
  BY <1>1, <1>7 DEF EndSession
<1>8. CASE Crash
  <2>1. CASE UNCHANGED disk
    BY <1>1, <1>8, <2>1 DEF Crash
  <2>2. CASE Writes(session.out, Head(queue), Cut)
    BY <1>2, <1>8, <2>2, KindsOfFile DEF Crash
  <2> QED BY <1>8, <2>1, <2>2 DEF Crash, Writes
<1>9. CASE UNCHANGED vars
  BY <1>1, <1>9 DEF vars, IsRecorded
<1> QED BY <1>3, <1>4, <1>5, <1>6, <1>7, <1>8, <1>9 DEF Next

LEMMA BrokenInit == Init => BrokenInv
<1> SUFFICES ASSUME Init PROVE BrokenInv
  OBVIOUS
<1>1. IsDisk
  BY DEF Init, IsDisk
<1>2. Broken = {}
  BY KindsOfFile DEF Init, Broken
<1>3. IsFiniteSet(Broken) /\ Cardinality(Broken) = 0
  BY <1>2, FS_EmptySet
<1> QED BY <1>1, <1>3 DEF Init, BrokenInv

LEMMA BrokenNext == RecordedInv /\ BrokenInv /\ [Next]_vars => BrokenInv'
<1> SUFFICES ASSUME RecordedInv, BrokenInv, [Next]_vars PROVE BrokenInv'
  OBVIOUS
<1> USE DEF BrokenInv
\* Away from the file a step writes nothing breaks; whoever leaves the file broken
\* is still writing it, or is a crash.
<1>1. ASSUME UNCHANGED <<disk, crashes>>, pc # "writing", pc' # "writing" PROVE BrokenInv'
  <2>1. Broken' = Broken /\ IsDisk'
    BY <1>1 DEF Broken, IsDisk
  <2> QED BY <1>1, <2>1
<1>2. CASE StartSession
  BY <1>1, <1>2 DEF StartSession
<1>3. CASE Raise
  BY <1>1, <1>3 DEF Raise
<1>4. CASE OpenResult
  <2>1. Writes(session.out, Head(queue), Torn)
        /\ pc = "running" /\ pc' = "writing" /\ Here' = Here /\ crashes' = crashes
    BY <1>4 DEF OpenResult, Writes, Here
  <2>2. IsDisk' /\ Broken' \ {Here} \subseteq Broken
    <3>1. /\ IsDisk'
          /\ \A e \in Dir : \A b \in Case :
               disk'[e][b] = IF e = session.out /\ b = Head(queue) THEN Torn ELSE disk[e][b]
      BY <2>1, OneFileWritten
    <3> QED BY <3>1 DEF Broken, Here
  <2>3. IsFiniteSet(Broken') /\ Cardinality(Broken' \ {Here}) <= crashes
    BY <2>1, <2>2, OneAside
  <2> QED BY <2>1, <2>2, <2>3
<1>5. CASE CloseResult
  <2>1. Writes(session.out, Head(queue), writing)
        /\ pc = "writing" /\ pc' = "running" /\ crashes' = crashes
    BY <1>5 DEF CloseResult, Writes
  <2>2. writing \notin {Torn, Cut}
    BY <2>1, KindsOfFile DEF RecordedInv, IsRecorded
  <2>3. BrokenInv'
    <3>1. /\ IsDisk'
          /\ \A e \in Dir : \A b \in Case :
               disk'[e][b] = IF e = session.out /\ b = Head(queue) THEN writing ELSE disk[e][b]
      BY <2>1, OneFileWritten
    <3>2. Broken' \subseteq Broken \ {Here}
      BY <2>2, <3>1 DEF Broken, Here
    <3>3. IsFiniteSet(Broken \ {Here})
      BY FS_Subset
    <3>4. /\ IsFiniteSet(Broken') /\ Cardinality(Broken') <= Cardinality(Broken \ {Here})
          /\ Cardinality(Broken') \in Nat /\ Cardinality(Broken \ {Here}) \in Nat
      BY <3>2, <3>3, FS_Subset, FS_CardinalityType
    <3> QED BY <2>1, <3>1, <3>4
  <2> QED BY <2>3
<1>6. CASE EndSession
  BY <1>1, <1>6 DEF EndSession
<1>7. CASE Crash
  <2>1. pc' = "idle" /\ crashes' = crashes + 1
    BY <1>7 DEF Crash
  <2>2. IsDisk' /\ Broken' \subseteq Broken \cup {Here} /\ (pc # "writing" => Broken' = Broken)
    <3>1. CASE UNCHANGED disk
      BY <3>1 DEF Broken, IsDisk
    <3>2. CASE pc = "writing" /\ Writes(session.out, Head(queue), Cut)
      <4>1. /\ IsDisk'
            /\ \A e \in Dir : \A b \in Case :
                 disk'[e][b] = IF e = session.out /\ b = Head(queue) THEN Cut ELSE disk[e][b]
        BY <3>2, OneFileWritten
      <4> QED BY <3>2, <4>1 DEF Broken, Here
    <3> QED BY <1>7, <3>1, <3>2 DEF Crash, Writes
  <2>3. CASE pc # "writing"
    <3>1. Cardinality(Broken) \in Nat
      BY FS_CardinalityType
    <3> QED BY <2>1, <2>2, <2>3, <3>1
  <2>4. CASE pc = "writing"
    <3>1. IsFiniteSet(Broken \ {Here})
      BY FS_Subset
    <3>2. /\ IsFiniteSet((Broken \ {Here}) \cup {Here})
          /\ Cardinality((Broken \ {Here}) \cup {Here}) = Cardinality(Broken \ {Here}) + 1
      BY <3>1, FS_AddElement
    <3>3. Broken' \subseteq (Broken \ {Here}) \cup {Here}
      BY <2>2
    <3>4. /\ IsFiniteSet(Broken')
          /\ Cardinality(Broken') <= Cardinality((Broken \ {Here}) \cup {Here})
      BY <3>2, <3>3, FS_Subset
    <3>5. Cardinality(Broken \ {Here}) \in Nat /\ Cardinality(Broken') \in Nat
      BY <3>1, <3>4, FS_CardinalityType
    <3> QED BY <2>1, <2>2, <2>4, <3>2, <3>4, <3>5
  <2> QED BY <2>3, <2>4
<1>8. CASE UNCHANGED vars
  <2>1. Broken' = Broken /\ IsDisk' /\ Here' = Here /\ pc' = pc /\ crashes' = crashes
    BY <1>8 DEF vars, Broken, IsDisk, Here
  <2> QED BY <2>1
<1> QED BY <1>2, <1>3, <1>4, <1>5, <1>6, <1>7, <1>8 DEF Next

\* "A session that dies halfway costs only the case it was in the middle of": for any
\* number of directories, cases, sessions and deaths, forced or not.
THEOREM DamageIsCounted == Spec => []TornFilesAreCrashes
<1>1. BrokenInv => TornFilesAreCrashes
  <2> SUFFICES ASSUME BrokenInv PROVE Cardinality(Broken) <= crashes + (IF pc = "writing" THEN 1 ELSE 0)
    BY DEF TornFilesAreCrashes, Broken
  <2>1. CASE pc # "writing"
    <3>1. Cardinality(Broken) <= crashes /\ Cardinality(Broken) \in Nat /\ crashes \in Nat
      BY <2>1, FS_CardinalityType DEF BrokenInv
    <3> QED BY <2>1, <3>1
  <2>2. CASE pc = "writing"
    <3>1. IsFiniteSet(Broken \ {Here}) /\ Cardinality(Broken \ {Here}) <= crashes /\ crashes \in Nat
      BY <2>2, FS_Subset DEF BrokenInv
    <3>2. /\ IsFiniteSet((Broken \ {Here}) \cup {Here})
          /\ Cardinality((Broken \ {Here}) \cup {Here}) = Cardinality(Broken \ {Here}) + 1
      BY <3>1, FS_AddElement
    <3>3. Broken \subseteq (Broken \ {Here}) \cup {Here}
      OBVIOUS
    <3>4. Cardinality(Broken) <= Cardinality((Broken \ {Here}) \cup {Here})
      BY <3>2, <3>3, FS_Subset
    <3>5. Cardinality(Broken) \in Nat /\ Cardinality(Broken \ {Here}) \in Nat
      BY <3>1, FS_CardinalityType DEF BrokenInv
    <3> QED BY <2>2, <3>1, <3>2, <3>4, <3>5
  <2> QED BY <2>1, <2>2
<1>2. Init => RecordedInv /\ BrokenInv
  BY RecordedInit, BrokenInit
<1>3. RecordedInv /\ BrokenInv /\ [Next]_vars => (RecordedInv /\ BrokenInv)'
  BY RecordedNext, BrokenNext
<1> QED BY <1>1, <1>2, <1>3, PTL DEF Spec
-----------------------------------------------------------------------------
\* Of the records a repairer can leave, one that was answered nothing never classifies
\* as a measurement.
LEMMA SilenceIsNoMeasurement ==
  ASSUME NEW kind \in {"rules", "ar", "diffusion"}, NEW r \in Recorded(kind),
         Classify(kind, r.record) \in MEASURED
  PROVE  r.answer # "nothing"
<1> SUFFICES ASSUME r.answer = "nothing" PROVE FALSE
  OBVIOUS
<1>1. CASE kind = "rules"
  BY <1>1 DEF Recorded
<1>2. CASE kind = "ar"
  <2>1. r.record = Record({"api"}, FALSE, "none", FALSE)
    <3> DEFINE plans == {Record({}, s, "none", FALSE) : s \in BOOLEAN}
    <3>1. Recorded(kind) = [answer : {"plan"}, record : plans]
                           \cup [answer : {"text"}, record : {Record({"parse"}, FALSE, "none", FALSE)}]
                           \cup [answer : {"nothing"}, record : {Record({"api"}, FALSE, "none", FALSE)}]
      BY <1>2 DEF Recorded
    <3> HIDE DEF plans
    <3> QED BY <3>1
  <2>2. r.record.failures = {"api"}
    BY <2>1 DEF Record
  <2>3. Classify(kind, r.record) = "not_answered"
    BY <2>2 DEF Classify
  <2> QED BY <2>3 DEF MEASURED
<1>3. CASE kind = "diffusion"
  <2>1. r.record \in GivenUp("backend") \cup GivenUp("alignment") \cup {Record({}, FALSE, "yes", FALSE)}
    <3> DEFINE plans == {Record({}, s, "yes", TRUE) : s \in BOOLEAN}
               texts == {Record({"parse"}, FALSE, "no", TRUE)} \cup GivenUp("backend")
               silent == GivenUp("backend") \cup GivenUp("alignment") \cup {Record({}, FALSE, "yes", FALSE)}
    <3>1. Recorded(kind) = [answer : {"plan"}, record : plans]
                           \cup [answer : {"text"}, record : texts]
                           \cup [answer : {"nothing"}, record : silent]
      BY <1>3 DEF Recorded
    <3> HIDE DEF plans, texts, silent
    <3>2. r.record \in silent
      BY <3>1
    <3> QED BY <3>2 DEF silent
  <2>2. ASSUME NEW f \in {"backend", "alignment"}, r.record \in GivenUp(f) PROVE FALSE
    <3>1. r.record.failures = {f}
      BY <2>2 DEF GivenUp, Record
    <3>2. Classify(kind, r.record) = "not_run"
      BY <3>1 DEF Classify
    <3> QED BY <3>2 DEF MEASURED
  <2>3. CASE r.record = Record({}, FALSE, "yes", FALSE)
    <3>1. r.record.failures = {} /\ r.record.solved = FALSE /\ r.record.parsed = "yes" /\ r.record.masked = FALSE
      BY <2>3 DEF Record
    <3>2. Classify(kind, r.record) = "nothing_masked"
      BY <1>3, <3>1 DEF Classify
    <3> QED BY <3>2 DEF MEASURED
  <2> QED BY <2>1, <2>2, <2>3
<1> QED BY <1>1, <1>2, <1>3

\* An outcome that counts as measured is that of the one result that claims the cell.
LEMMA OneMeasurement ==
  ASSUME NEW found, IsFiniteSet(found), Outcome(found) \in MEASURED
  PROVE  \E m : found = {m} /\ Classify(m.kind, m.record) \in MEASURED
<1>1. found # {} /\ ~(Cardinality(found) > 1)
  BY DEF Outcome, MEASURED
<1>2. PICK m : m \in found
  BY <1>1
<1>3. found = {m}
  <2> SUFFICES ASSUME NEW n \in found, n # m PROVE FALSE
    BY <1>2
  <2>1. IsFiniteSet({m, n}) /\ Cardinality({m, n}) = 2
    <3>1. IsFiniteSet({m}) /\ Cardinality({m}) = 1 /\ n \notin {m}
      BY FS_Singleton
    <3>2. IsFiniteSet({m} \cup {n}) /\ Cardinality({m} \cup {n}) = Cardinality({m}) + 1
      BY <3>1, FS_AddElement
    <3>3. {m} \cup {n} = {m, n}
      OBVIOUS
    <3> QED BY <3>1, <3>2, <3>3
  <2>2. {m, n} \subseteq found
    BY <1>2
  <2>3. Cardinality({m, n}) <= Cardinality(found) /\ Cardinality(found) \in Nat
    BY <2>2, FS_Subset, FS_CardinalityType
  <2> QED BY <1>1, <2>1, <2>3
<1>4. (CHOOSE one \in found : TRUE) = m
  BY <1>3
<1>5. Outcome(found) = Classify(m.kind, m.record)
  BY <1>1, <1>4 DEF Outcome
<1> QED BY <1>3, <1>5

LEMMA FoundIsFinite == \A c : IsFiniteSet(Found(c))
<1> TAKE c
<1> DEFINE f(d) == [source |-> <<d, "file">>, kind |-> Kind[c], answer |-> disk[d][c].answer, record |-> disk[d][c].record]
           g(d) == [source |-> <<d, "array">>, kind |-> Kind[c], answer |-> Remeasured.answer, record |-> Remeasured.record]
           files == {f(d) : d \in {e \in Dir : Readable(e, c)}}
           arrays == {g(d) : d \in {e \in Dir : c \in Arrays[e]}}
<1>1. IsFiniteSet({e \in Dir : Readable(e, c)}) /\ IsFiniteSet({e \in Dir : c \in Arrays[e]})
  <2>1. IsFiniteSet(Dir)
    BY ExperimentAssumption DEF ExperimentAssumption
  <2>2. {e \in Dir : Readable(e, c)} \subseteq Dir /\ {e \in Dir : c \in Arrays[e]} \subseteq Dir
    OBVIOUS
  <2> QED BY <2>1, <2>2, FS_Subset
<1>2. IsFiniteSet(files) /\ IsFiniteSet(arrays)
  <2> DEFINE A == {e \in Dir : Readable(e, c)}
             B == {e \in Dir : c \in Arrays[e]}
             F == [d \in A |-> f(d)]
             G == [d \in B |-> g(d)]
  <2>1. F \in Surjection(A, files)
    BY DEF Surjection
  <2>2. G \in Surjection(B, arrays)
    BY DEF Surjection
  <2>3. IsFiniteSet(A) /\ IsFiniteSet(B)
    BY <1>1
  <2> HIDE DEF F, G, A, B, files, arrays
  <2>4. IsFiniteSet(files)
    BY <2>1, <2>3, FS_Surjection
  <2>5. IsFiniteSet(arrays)
    BY <2>2, <2>3, FS_Surjection
  <2> QED BY <2>4, <2>5
<1>3. Found(c) = files \cup arrays
  BY DEF Found
<1> HIDE DEF files, arrays
<1> QED BY <1>2, <1>3, FS_Union

\* "A file is not always a measurement": whatever repairers leave behind in whatever
\* directories, a cell that counts as measured has one result, and it was answered.
THEOREM MeasuredIsAnswered == Spec => []MeasuredMeansAnswered
<1>1. RecordedInv => MeasuredMeansAnswered
  <2> SUFFICES ASSUME RecordedInv, NEW c \in Matrix, Outcome(Found(c)) \in MEASURED, NEW m \in Found(c)
               PROVE  m.answer # "nothing" /\ Found(c) = {m}
    BY DEF MeasuredMeansAnswered
  <2>1. c \in Case /\ Kind[c] \in {"rules", "ar", "diffusion"}
    BY ExperimentAssumption DEF ExperimentAssumption
  <2>2. Found(c) = {m} /\ Classify(m.kind, m.record) \in MEASURED
    BY FoundIsFinite, OneMeasurement
  <2>3. CASE \E d \in Dir : Readable(d, c) /\ m.kind = Kind[c] /\ m.answer = disk[d][c].answer /\ m.record = disk[d][c].record
    <3>1. PICK d \in Dir : Readable(d, c) /\ m.kind = Kind[c] /\ m.answer = disk[d][c].answer /\ m.record = disk[d][c].record
      BY <2>3
    <3>2. IsRecorded(c, disk[d][c])
      BY <2>1, <3>1 DEF RecordedInv
    <3>3. PICK r \in Recorded(Kind[c]) : \E snap : disk[d][c] = Written(snap, r)
      BY <3>2 DEF IsRecorded
    <3>4. m.answer = r.answer /\ m.record = r.record
      BY <3>1, <3>3 DEF Written
    <3> QED BY <2>1, <2>2, <3>1, <3>4, SilenceIsNoMeasurement
  <2>4. CASE m.answer = Remeasured.answer
    BY <2>2, <2>4 DEF Remeasured
  <2> QED BY <2>3, <2>4 DEF Found
<1> QED BY <1>1, RecordedInit, RecordedNext, PTL DEF Spec

-----------------------------------------------------------------------------
(***************************************************************************)
(* What a session takes up.                                                *)
(***************************************************************************)
Settings == [out : Dir, chosen : SUBSET Case, force : BOOLEAN, snap : BOOLEAN, limit : Limits]

LEMMA FirstOfPrefix ==
  ASSUME NEW S, NEW s \in Seq(S), NEW l \in Nat
  PROVE  /\ FirstOf(s, l) \in Seq(S)
         /\ Len(FirstOf(s, l)) = IF l < Len(s) THEN l ELSE Len(s)
         /\ \A i \in 1 .. Len(FirstOf(s, l)) : i \in 1 .. Len(s) /\ FirstOf(s, l)[i] = s[i]
BY DEF FirstOf

LEMMA CasesAreCounted ==
  /\ Cases \in Seq(Case) /\ DOMAIN Cases = 1 .. Len(Cases) /\ Len(Cases) \in Nat
  /\ Cardinality(Case) = Len(Cases)
  /\ \A c \in Case : \E i \in DOMAIN Cases : Cases[i] = c
  /\ \A i, j \in DOMAIN Cases : Cases[i] = Cases[j] => i = j
<1> DEFINE D == DOMAIN Cases
<1>1. /\ Cases \in Seq(Case) /\ D = 1 .. Len(Cases) /\ Len(Cases) \in Nat
      /\ {Cases[i] : i \in D} = Case /\ IsInjective(Cases)
  BY ExperimentAssumption DEF ExperimentAssumption, ToSet
<1>2. Cases \in Bijection(D, Case)
  BY <1>1 DEF Bijection, Injection, Surjection
<1>3. IsFiniteSet(D) /\ Cardinality(D) = Len(Cases)
  BY <1>1, SpanOf
<1>4. Cardinality(Case) = Cardinality(D)
  <2> HIDE DEF D
  <2> QED BY <1>2, <1>3, FS_Bijection DEF ExistsBijection
<1> QED BY <1>1, <1>3, <1>4 DEF IsInjective

\* A session takes up cases it was asked for, each once, and without --force none that
\* has a file; without a limit it takes up all of those.
LEMMA PendingOf ==
  ASSUME NEW s \in Settings
  PROVE  /\ Pending(s) \in Seq(Case)
         /\ \A k, m \in DOMAIN Pending(s) : Pending(s)[k] = Pending(s)[m] => k = m
         /\ \A k \in DOMAIN Pending(s) : s.force \/ ~Exists(s.out, Pending(s)[k])
         /\ s.limit >= Cardinality(Case) =>
              \A c \in s.chosen : (s.force \/ ~Exists(s.out, c)) =>
                \E k \in DOMAIN Pending(s) : Pending(s)[k] = c
<1> DEFINE K == Wanted(s)
           all == Sublist(Cases, K)
           p == FirstOf(all, s.limit)
<1>1. /\ K \in SUBSET DOMAIN Cases /\ s.limit \in Nat /\ s.chosen \subseteq Case
      /\ \A i \in K : s.force \/ ~Exists(s.out, Cases[i])
      /\ \A i \in DOMAIN Cases : (Cases[i] \in s.chosen /\ (s.force \/ ~Exists(s.out, Cases[i]))) => i \in K
  BY ExperimentAssumption DEF ExperimentAssumption, Settings, Wanted
<1>2. p = Pending(s)
  BY DEF Pending
<1> HIDE DEF K, p
<1>3. /\ all \in Seq(Case) /\ DOMAIN all = 1 .. Cardinality(K) /\ Len(all) = Cardinality(K)
      /\ Cardinality(K) \in Nat /\ Cardinality(K) <= Len(Cases)
      /\ \A k \in DOMAIN all : Nth(K, k) \in K /\ all[k] = Cases[Nth(K, k)]
      /\ \A i \in K : Rank(K, i) \in DOMAIN all /\ all[Rank(K, i)] = Cases[i]
  BY <1>1, CasesAreCounted, SublistOf
<1> HIDE DEF all
<1>4. K \in SUBSET Int /\ IsFiniteSet(K)
  BY <1>1, CasesAreCounted, IndicesAreFinite
<1>5. /\ p \in Seq(Case) /\ Len(p) = IF s.limit < Len(all) THEN s.limit ELSE Len(all)
      /\ \A k \in DOMAIN p : k \in DOMAIN all /\ p[k] = all[k]
  <2>1. /\ FirstOf(all, s.limit) \in Seq(Case)
        /\ Len(FirstOf(all, s.limit)) = IF s.limit < Len(all) THEN s.limit ELSE Len(all)
        /\ \A i \in 1 .. Len(FirstOf(all, s.limit)) :
             i \in 1 .. Len(all) /\ FirstOf(all, s.limit)[i] = all[i]
    BY <1>1, <1>3, FirstOfPrefix
  <2>2. DOMAIN FirstOf(all, s.limit) = 1 .. Len(FirstOf(all, s.limit)) /\ DOMAIN all = 1 .. Len(all)
    BY <1>3, <2>1
  <2> QED BY <2>1, <2>2 DEF p
<1>6. ASSUME NEW k \in DOMAIN p, NEW m \in DOMAIN p, p[k] = p[m] PROVE k = m
  <2>1. k \in 1 .. Cardinality(K) /\ m \in 1 .. Cardinality(K)
        /\ Cases[Nth(K, k)] = Cases[Nth(K, m)] /\ Nth(K, k) \in K /\ Nth(K, m) \in K
    BY <1>3, <1>5, <1>6
  <2>2. Nth(K, k) = Nth(K, m)
    BY <1>1, <2>1, CasesAreCounted
  <2>3. Rank(K, Nth(K, k)) = k /\ Rank(K, Nth(K, m)) = m
    BY <1>4, <2>1, NthOf
  <2> QED BY <2>2, <2>3
<1>7. ASSUME NEW k \in DOMAIN p PROVE s.force \/ ~Exists(s.out, p[k])
  <2>1. p[k] = Cases[Nth(K, k)] /\ Nth(K, k) \in K
    BY <1>3, <1>5
  <2> QED BY <1>1, <2>1
<1>8. ASSUME s.limit >= Cardinality(Case), NEW c \in s.chosen, s.force \/ ~Exists(s.out, c)
      PROVE  \E k \in DOMAIN p : p[k] = c
  <2>1. PICK i \in DOMAIN Cases : Cases[i] = c
    BY <1>1, CasesAreCounted
  <2>2. Rank(K, i) \in DOMAIN all /\ all[Rank(K, i)] = c
    <3>1. s.force \/ ~Exists(s.out, Cases[i])
      BY <1>8, <2>1
    <3>2. Cases[i] \in s.chosen
      BY <2>1
    <3>3. i \in K
      BY <1>1, <2>1, <3>1, <3>2, Zenon
    <3> QED BY <1>3, <2>1, <3>3
  <2>3. ~(s.limit < Len(all))
    BY <1>1, <1>3, <1>8, CasesAreCounted
  <2>4. DOMAIN p = DOMAIN all
    BY <1>3, <1>5, <2>3
  <2> QED BY <1>5, <2>2, <2>4
<1> QED BY <1>2, <1>5, <1>6, <1>7, <1>8

-----------------------------------------------------------------------------
(***************************************************************************)
(* A session at work.  The cases it still has are distinct, so writing one *)
(* file never makes another of them one that exists; and the file being    *)
(* written is torn until it is closed.                                     *)
(***************************************************************************)
Todo == IF pc = "writing" THEN Tail(queue) ELSE queue

\* What a session without failures owes for a case it was asked for.
Delivered(c) ==
  /\ Exists(session.out, c)
  /\ session.force => Readable(session.out, c) /\ disk[session.out][c].snap = session.snap

SessionInv ==
  /\ IsDisk
  /\ pc \in {"idle", "running", "writing"} /\ failed \in Nat
  /\ pc # "idle" => /\ session \in Settings /\ queue \in Seq(Case)
                    /\ \A k, m \in DOMAIN queue : queue[k] = queue[m] => k = m
                    /\ \A k \in DOMAIN Todo : session.force \/ ~Exists(session.out, Todo[k])
  /\ pc = "writing" => /\ queue # <<>> /\ disk[session.out][Head(queue)] = Torn
                       /\ \E r : writing = Written(session.snap, r)

DeliveryInv ==
  /\ (pc # "idle" /\ failed = 0 /\ session.limit >= Cardinality(Case)) =>
       \A c \in session.chosen : (\E k \in DOMAIN queue : queue[k] = c) \/ Delivered(c)
  /\ CleanSessionSkipsNothing

LEMMA KindsOfResult ==
  /\ Torn # NoFile /\ Cut # NoFile
  /\ \A snap, r : Written(snap, r) # NoFile /\ Written(snap, r).state = "written"
                  /\ Written(snap, r).snap = snap
<1>1. NoFile.state = "absent" /\ Torn.state = "torn" /\ Cut.state = "cut"
  BY DEF NoFile, Torn, Cut
<1>2. \A snap, r : Written(snap, r).state = "written" /\ Written(snap, r).snap = snap
  BY DEF Written
<1> QED BY <1>1, <1>2

\* The first of the queue is none of the rest.
LEMMA HeadOfQueue ==
  ASSUME queue \in Seq(Case), queue # <<>>,
         \A k, m \in DOMAIN queue : queue[k] = queue[m] => k = m
  PROVE  /\ Head(queue) \in Case /\ Head(queue) = queue[1] /\ 1 \in DOMAIN queue
         /\ Tail(queue) \in Seq(Case)
         /\ \A k \in DOMAIN Tail(queue) :
              k + 1 \in DOMAIN queue /\ Tail(queue)[k] = queue[k + 1] /\ Tail(queue)[k] # Head(queue)
         /\ \A k, m \in DOMAIN Tail(queue) : Tail(queue)[k] = Tail(queue)[m] => k = m
         /\ \A k \in DOMAIN queue : queue[k] # Head(queue) => \E m \in DOMAIN Tail(queue) : Tail(queue)[m] = queue[k]
<1> DEFINE t == Tail(queue)
<1>1. /\ Len(queue) \in Nat /\ Len(queue) # 0 /\ DOMAIN queue = 1 .. Len(queue)
      /\ t \in Seq(Case) /\ DOMAIN t = 1 .. Len(queue) - 1
      /\ \A k \in DOMAIN t : t[k] = queue[k + 1]
      /\ Head(queue) = queue[1] /\ \A k \in DOMAIN queue : queue[k] \in Case
  OBVIOUS
<1> HIDE DEF t
<1>2. 1 \in DOMAIN queue /\ \A k \in DOMAIN t : k \in Int /\ k + 1 \in DOMAIN queue /\ k + 1 # 1
  BY <1>1
<1>3. \A k \in DOMAIN t : t[k] # Head(queue)
  BY <1>1, <1>2
<1>4. ASSUME NEW k \in DOMAIN t, NEW m \in DOMAIN t, t[k] = t[m] PROVE k = m
  <2>1. k + 1 = m + 1
    BY <1>1, <1>2, <1>4
  <2> QED BY <1>2, <2>1
<1>5. ASSUME NEW k \in DOMAIN queue, queue[k] # Head(queue)
      PROVE  \E m \in DOMAIN t : t[m] = queue[k]
  <2>1. k - 1 \in DOMAIN t /\ k - 1 + 1 = k
    BY <1>1, <1>5
  <2> QED BY <1>1, <2>1
<1> QED BY <1>1, <1>2, <1>3, <1>4, <1>5 DEF t

LEMMA SessionInit == Init => SessionInv /\ DeliveryInv
<1> SUFFICES ASSUME Init PROVE SessionInv /\ DeliveryInv
  OBVIOUS
<1>1. pc = "idle" /\ failed = 0 /\ exit = -1 /\ IsDisk
  BY DEF Init, IsDisk
<1> QED BY <1>1 DEF SessionInv, DeliveryInv, CleanSessionSkipsNothing

LEMMA SessionNext == SessionInv /\ [Next]_vars => SessionInv'
<1> SUFFICES ASSUME SessionInv, [Next]_vars PROVE SessionInv'
  OBVIOUS
<1> DEFINE d == session.out
           h == Head(queue)
<1>1. CASE StartSession
  <2>1. session' \in Settings /\ queue' = Pending(session') /\ UNCHANGED disk
        /\ pc' = "running" /\ failed' = 0
    BY <1>1 DEF StartSession, Settings
  <2>2. IsDisk' /\ \A e, c : Exists(e, c)' = Exists(e, c)
    BY <2>1 DEF IsDisk, Exists, SessionInv
  <2>3. /\ queue' \in Seq(Case)
        /\ \A k, m \in DOMAIN queue' : queue'[k] = queue'[m] => k = m
        /\ \A k \in DOMAIN queue' : session'.force \/ ~Exists(session'.out, queue'[k])
    BY <2>1, PendingOf
  <2>4. Todo' = queue'
    BY <2>1 DEF Todo
  <2> QED BY <2>1, <2>2, <2>3, <2>4 DEF SessionInv, Exists
<1>2. CASE Raise
  <2>1. /\ pc = "running" /\ pc' = "running" /\ queue # <<>> /\ queue' = Tail(queue)
        /\ failed' = failed + 1 /\ session' = session /\ disk' = disk
    BY <1>2 DEF Raise
  <2>2. queue \in Seq(Case) /\ session \in Settings /\ failed \in Nat /\ IsDisk
        /\ (\A k, m \in DOMAIN queue : queue[k] = queue[m] => k = m)
        /\ Todo = queue /\ Todo' = Tail(queue)
        /\ \A k \in DOMAIN queue : session.force \/ ~Exists(session.out, queue[k])
    BY <2>1 DEF SessionInv, Todo
  <2>3. /\ Tail(queue) \in Seq(Case)
        /\ \A k \in DOMAIN Tail(queue) : k + 1 \in DOMAIN queue /\ Tail(queue)[k] = queue[k + 1]
        /\ \A k, m \in DOMAIN Tail(queue) : Tail(queue)[k] = Tail(queue)[m] => k = m
    BY <2>1, <2>2, HeadOfQueue
  <2>4. \A k \in DOMAIN Tail(queue) : session.force \/ ~Exists(session.out, Tail(queue)[k])
    BY <2>2, <2>3
  <2>5. IsDisk' /\ \A e, c : Exists(e, c)' = Exists(e, c)
    BY <2>1, <2>2 DEF IsDisk, Exists
  <2> QED BY <2>1, <2>2, <2>3, <2>4, <2>5 DEF SessionInv, Exists
<1>3. CASE OpenResult
  <2>1. /\ pc = "running" /\ pc' = "writing" /\ queue # <<>> /\ queue' = queue
        /\ failed' = failed /\ session' = session /\ Writes(d, h, Torn)
        /\ \E r : writing' = Written(session.snap, r)
    BY <1>3 DEF OpenResult, Writes
  <2>2. queue \in Seq(Case) /\ session \in Settings /\ failed \in Nat /\ IsDisk
        /\ (\A k, m \in DOMAIN queue : queue[k] = queue[m] => k = m)
        /\ Todo = queue /\ Todo' = Tail(queue)
        /\ \A k \in DOMAIN queue : session.force \/ ~Exists(session.out, queue[k])
    BY <2>1 DEF SessionInv, Todo
  <2>3. /\ h \in Case /\ d \in Dir /\ Tail(queue) \in Seq(Case)
        /\ \A k \in DOMAIN Tail(queue) : /\ k + 1 \in DOMAIN queue /\ Tail(queue)[k] = queue[k + 1]
                                         /\ Tail(queue)[k] # h
    BY <2>1, <2>2, HeadOfQueue DEF Settings
  <2>4. /\ IsDisk'
        /\ \A e \in Dir : \A b \in Case : disk'[e][b] = IF e = d /\ b = h THEN Torn ELSE disk[e][b]
    BY <2>1, <2>2, OneFileWritten
  <2>5. ASSUME NEW k \in DOMAIN Tail(queue) PROVE session.force \/ ~Exists(d, Tail(queue)[k])'
    <3>1. Tail(queue)[k] \in Case /\ Tail(queue)[k] # h
      BY <2>3
    <3>2. disk'[d][Tail(queue)[k]] = disk[d][Tail(queue)[k]]
      BY <2>3, <2>4, <3>1
    <3>3. session.force \/ ~Exists(d, Tail(queue)[k])
      BY <2>2, <2>3
    <3> QED BY <2>1, <3>2, <3>3 DEF Exists
  <2>6. disk'[d][h] = Torn
    BY <2>3, <2>4
  <2> QED BY <2>1, <2>2, <2>4, <2>5, <2>6 DEF SessionInv, Exists
<1>4. CASE CloseResult
  <2>1. /\ pc = "writing" /\ pc' = "running" /\ queue' = Tail(queue)
        /\ failed' = failed /\ session' = session /\ Writes(d, h, writing)
    BY <1>4 DEF CloseResult, Writes
  <2>2. queue \in Seq(Case) /\ queue # <<>> /\ session \in Settings /\ failed \in Nat /\ IsDisk
        /\ (\A k, m \in DOMAIN queue : queue[k] = queue[m] => k = m)
        /\ Todo = Tail(queue) /\ Todo' = Tail(queue)
        /\ \A k \in DOMAIN Tail(queue) : session.force \/ ~Exists(session.out, Tail(queue)[k])
    BY <2>1 DEF SessionInv, Todo
  <2>3. /\ h \in Case /\ d \in Dir /\ Tail(queue) \in Seq(Case)
        /\ \A k \in DOMAIN Tail(queue) : Tail(queue)[k] # h
        /\ \A k, m \in DOMAIN Tail(queue) : Tail(queue)[k] = Tail(queue)[m] => k = m
    BY <2>2, HeadOfQueue DEF Settings
  <2>4. /\ IsDisk'
        /\ \A e \in Dir : \A b \in Case : disk'[e][b] = IF e = d /\ b = h THEN writing ELSE disk[e][b]
    BY <2>1, <2>2, OneFileWritten
  <2>5. ASSUME NEW k \in DOMAIN Tail(queue)
        PROVE  session.force \/ disk'[d][Tail(queue)[k]] = NoFile
    <3>1. Tail(queue)[k] \in Case /\ Tail(queue)[k] # h
      BY <2>3
    <3>2. disk'[d][Tail(queue)[k]] = disk[d][Tail(queue)[k]]
      BY <2>3, <2>4, <3>1
    <3>3. session.force \/ ~Exists(d, Tail(queue)[k])
      BY <2>2
    <3> QED BY <3>2, <3>3 DEF Exists
  <2> QED BY <2>1, <2>2, <2>3, <2>4, <2>5 DEF SessionInv, Exists
<1>5. CASE EndSession
  BY <1>5 DEF EndSession, SessionInv, IsDisk
<1>6. CASE Crash
  <2>1. pc' = "idle" /\ failed' = failed /\ (UNCHANGED disk \/ Writes(d, h, Cut))
    BY <1>6 DEF Crash, Writes
  <2>2. IsDisk'
    <3>1. CASE UNCHANGED disk BY <3>1 DEF SessionInv, IsDisk
    <3>2. CASE Writes(d, h, Cut) BY <3>2, OneFileWritten DEF SessionInv
    <3> QED BY <2>1, <3>1, <3>2
  <2> QED BY <2>1, <2>2 DEF SessionInv
<1>7. CASE UNCHANGED vars
  <2>1. UNCHANGED <<disk, session, queue, writing, failed, pc>>
    BY <1>7 DEF vars
  <2> QED BY <2>1 DEF SessionInv, IsDisk, Todo, Exists
<1> QED BY <1>1, <1>2, <1>3, <1>4, <1>5, <1>6, <1>7 DEF Next

LEMMA SessionHolds == Spec => []SessionInv
  BY SessionInit, SessionNext, PTL DEF Spec

\* "A rerun skips whatever is already on disk": without --force no session, of however
\* many, opens a file that exists, and the one file it changes is the one it opened.
THEOREM RerunsKeepResults == Spec => ResultsChangeOnlyByForce
<1>1. SessionInv /\ [Next]_vars =>
        [\A d \in Dir : \A c \in Case :
           (disk'[d][c] # disk[d][c] /\ Exists(d, c)) => session.force \/ pc = "writing"]_vars
  <2> SUFFICES ASSUME SessionInv, [Next]_vars, NEW d \in Dir, NEW c \in Case,
                      disk'[d][c] # disk[d][c], Exists(d, c), pc # "writing"
               PROVE  session.force
    OBVIOUS
  <2>1. OpenResult
    BY DEF Next, vars, StartSession, Raise, CloseResult, EndSession, Crash
  <2>2. /\ pc = "running" /\ queue # <<>> /\ Writes(session.out, Head(queue), Torn)
    BY <2>1 DEF OpenResult, Writes
  <2>3. /\ queue \in Seq(Case) /\ IsDisk /\ Todo = queue
        /\ \A k, m \in DOMAIN queue : queue[k] = queue[m] => k = m
        /\ \A k \in DOMAIN queue : session.force \/ ~Exists(session.out, queue[k])
    BY <2>2 DEF SessionInv, Todo
  <2>4. d = session.out /\ c = Head(queue)
    BY <2>2, <2>3, OneFileWritten
  <2>5. Head(queue) = queue[1] /\ 1 \in DOMAIN queue
    BY <2>2, <2>3, HeadOfQueue
  <2> QED BY <2>3, <2>4, <2>5
<1> QED BY <1>1, SessionHolds, PTL DEF Spec, ResultsChangeOnlyByForce

-----------------------------------------------------------------------------
LEMMA DeliveryNext == SessionInv /\ DeliveryInv /\ [Next]_vars => DeliveryInv'
<1> SUFFICES ASSUME SessionInv, DeliveryInv, [Next]_vars PROVE DeliveryInv'
  OBVIOUS
<1> DEFINE d == session.out
           h == Head(queue)
           owes == pc # "idle" /\ failed = 0 /\ session.limit >= Cardinality(Case)
           Queued(c) == \E k \in DOMAIN queue : queue[k] = c
\* Delivered stays true of a case when its file is not touched.
<1>1. ASSUME session' = session, NEW c, disk'[d][c] = disk[d][c], Delivered(c) PROVE Delivered(c)'
  BY <1>1 DEF Delivered, Exists, Readable
<1>2. ASSUME pc' # "idle" PROVE CleanSessionSkipsNothing'
  BY <1>2 DEF CleanSessionSkipsNothing
<1>3. ASSUME pc' = "idle" \/ failed' # 0, CleanSessionSkipsNothing' PROVE DeliveryInv'
  BY <1>3 DEF DeliveryInv
<1>4. CASE StartSession
  <2>1. /\ session' \in Settings /\ queue' = Pending(session') /\ disk' = disk /\ pc' = "running"
    BY <1>4 DEF StartSession, Settings
  <2>2. ASSUME session'.limit >= Cardinality(Case), NEW c \in session'.chosen
        PROVE  Queued(c)' \/ Delivered(c)'
    <3>1. CASE session'.force \/ ~Exists(session'.out, c)
      BY <2>1, <2>2, <3>1, PendingOf
    <3>2. CASE ~session'.force /\ Exists(session'.out, c)
      BY <2>1, <3>2 DEF Delivered, Exists
    <3> QED BY <3>1, <3>2
  <2> QED BY <1>2, <2>1, <2>2 DEF DeliveryInv
<1>5. CASE Raise
  <2>1. failed' # 0 /\ pc' # "idle"
    BY <1>5 DEF Raise, SessionInv
  <2> QED BY <1>2, <1>3, <2>1
<1>6. CASE OpenResult
  <2>1. /\ pc = "running" /\ pc' = "writing" /\ queue # <<>> /\ queue' = queue
        /\ failed' = failed /\ session' = session /\ Writes(d, h, Torn)
    BY <1>6 DEF OpenResult, Writes
  <2>2. /\ queue \in Seq(Case) /\ session \in Settings /\ IsDisk
        /\ \A k, m \in DOMAIN queue : queue[k] = queue[m] => k = m
    BY <2>1 DEF SessionInv
  <2>3. /\ h = queue[1] /\ 1 \in DOMAIN queue /\ d \in Dir /\ session.chosen \subseteq Case
        /\ \A e \in Dir : \A b \in Case : disk'[e][b] = IF e = d /\ b = h THEN Torn ELSE disk[e][b]
    BY <2>1, <2>2, HeadOfQueue, OneFileWritten DEF Settings
  <2>4. ASSUME owes, NEW c \in session.chosen PROVE Queued(c) \/ Delivered(c)'
    <3>1. CASE c = h BY <2>3, <3>1
    <3>2. CASE c # h
      <4>1. disk'[d][c] = disk[d][c]
        BY <2>3, <3>2
      <4> QED BY <1>1, <2>1, <2>4, <4>1 DEF DeliveryInv
    <3> QED BY <3>1, <3>2
  <2> QED BY <1>2, <2>1, <2>4 DEF DeliveryInv
<1>7. CASE CloseResult
  <2>1. /\ pc = "writing" /\ pc' = "running" /\ queue # <<>> /\ queue' = Tail(queue)
        /\ failed' = failed /\ session' = session /\ Writes(d, h, writing)
    BY <1>7 DEF CloseResult, Writes, SessionInv
  <2>2. /\ queue \in Seq(Case) /\ session \in Settings /\ IsDisk
        /\ \A k, m \in DOMAIN queue : queue[k] = queue[m] => k = m
        /\ \E r : writing = Written(session.snap, r)
    BY <2>1 DEF SessionInv
  <2>3. /\ d \in Dir /\ session.chosen \subseteq Case /\ h \in Case
        /\ \A k \in DOMAIN queue : queue[k] # h => \E m \in DOMAIN Tail(queue) : Tail(queue)[m] = queue[k]
    BY <2>1, <2>2, HeadOfQueue DEF Settings
  <2>4. \A e \in Dir : \A b \in Case : disk'[e][b] = IF e = d /\ b = h THEN writing ELSE disk[e][b]
    BY <2>1, <2>2, OneFileWritten
  <2>5. writing # NoFile /\ writing.state = "written" /\ writing.snap = session.snap
    BY <2>2, KindsOfResult
  <2>6. ASSUME owes, NEW c \in session.chosen
        PROVE  (\E k \in DOMAIN Tail(queue) : Tail(queue)[k] = c) \/ Delivered(c)'
    <3>1. CASE c = h
      <4>1. disk'[d][c] = writing
        BY <2>3, <2>4, <3>1
      <4> QED BY <2>1, <2>5, <4>1 DEF Delivered, Exists, Readable
    <3>2. CASE c # h
      <4>1. disk'[d][c] = disk[d][c]
        BY <2>3, <2>4, <3>2
      <4>2. Queued(c) \/ Delivered(c)
        BY <2>6 DEF DeliveryInv
      <4>3. Queued(c) => \E k \in DOMAIN Tail(queue) : Tail(queue)[k] = c
        BY <2>3, <3>2
      <4> QED BY <1>1, <2>1, <4>1, <4>2, <4>3
    <3> QED BY <3>1, <3>2
  <2> QED BY <1>2, <2>1, <2>6 DEF DeliveryInv
<1>8. CASE EndSession
  <2>1. /\ pc = "running" /\ queue = <<>> /\ pc' = "idle" /\ session' = session /\ disk' = disk
        /\ exit' = 0 => ~(failed > 0)
    BY <1>8 DEF EndSession
  <2>2. exit' = 0 => failed = 0
    BY <2>1 DEF SessionInv
  <2>3. ASSUME exit' = 0, session.limit >= Cardinality(Case), NEW c \in session.chosen PROVE Delivered(c)'
    <3>1. ~Queued(c)
      BY <2>1
    <3>2. Delivered(c)
      BY <2>1, <2>2, <2>3, <3>1 DEF DeliveryInv
    <3> QED BY <1>1, <2>1, <3>2
  <2>4. CleanSessionSkipsNothing'
    BY <2>1, <2>3 DEF CleanSessionSkipsNothing, Delivered
  <2> QED BY <1>3, <2>1, <2>4
<1>9. CASE Crash
  <2>1. pc' = "idle" /\ exit' = -1
    BY <1>9 DEF Crash
  <2> QED BY <1>3, <2>1 DEF CleanSessionSkipsNothing
<1>10. CASE UNCHANGED vars
  <2>1. UNCHANGED <<disk, session, queue, failed, pc, exit>>
    BY <1>10 DEF vars
  <2> QED BY <2>1 DEF DeliveryInv, CleanSessionSkipsNothing, Delivered, Exists, Readable
<1> QED BY <1>4, <1>5, <1>6, <1>7, <1>8, <1>9, <1>10 DEF Next

\* A session that exits with 0 and had no limit has a file for every case it was asked
\* for: the exit code covers the cases it skipped, wrote or saw fail.
THEOREM CleanMeansComplete == Spec => []CleanSessionSkipsNothing
<1>1. SessionInv /\ DeliveryInv /\ [Next]_vars => (SessionInv /\ DeliveryInv)'
  BY SessionNext, DeliveryNext
<1>2. DeliveryInv => CleanSessionSkipsNothing
  BY DEF DeliveryInv
<1> QED BY <1>1, <1>2, SessionInit, PTL DEF Spec

-----------------------------------------------------------------------------
(***************************************************************************)
(* The runner keeps a batch as Batch promises: of its files Batch sees     *)
(* which cases have one, of its settings all but snap.                     *)
(***************************************************************************)
Files == [d \in Dir |-> {c \in Case : Exists(d, c)}]
Seen(s) == [f \in DOMAIN s \ {"snap"} |-> s[f]]

LEMMA SeenSettings ==
  ASSUME NEW s \in Settings
  PROVE  /\ Seen(s) \in Runner!Arguments
         /\ Seen(s).out = s.out /\ Seen(s).chosen = s.chosen
         /\ Seen(s).force = s.force /\ Seen(s).limit = s.limit
<1>1. /\ DOMAIN s = {"out", "chosen", "force", "snap", "limit"}
      /\ s.out \in Dir /\ s.chosen \in SUBSET Case /\ s.force \in BOOLEAN /\ s.limit \in Limits
  BY DEF Settings
<1>2. DOMAIN s \ {"snap"} = {"out", "chosen", "force", "limit"}
  BY <1>1
<1>3. Seen(s) = [out |-> s.out, chosen |-> s.chosen, force |-> s.force, limit |-> s.limit]
  BY <1>2 DEF Seen
<1> QED BY <1>1, <1>3 DEF Runner!Arguments

\* Both take up the same cases.
LEMMA SamePending ==
  ASSUME NEW s \in Settings
  PROVE  Runner!Pending(Seen(s), Files[s.out]) = Pending(s)
<1>1. s.out \in Dir
  BY DEF Settings
<1>2. Files[s.out] = {c \in Case : Exists(s.out, c)}
  BY <1>1 DEF Files
<1>3. Runner!Wanted(Seen(s), Files[s.out]) = Wanted(s)
  <2>1. \A i \in DOMAIN Cases : Cases[i] \in Case
    BY CasesAreCounted
  <2>2. \A i \in DOMAIN Cases : Cases[i] \notin Files[s.out] <=> ~Exists(s.out, Cases[i])
    BY <1>2, <2>1
  <2> QED BY <2>2, SeenSettings, Zenon DEF Runner!Wanted, Wanted
<1>4. \A t, K : Runner!Sublist(t, K) = Sublist(t, K)
  <2>1. \A K : Runner!Cardinality(K) = Cardinality(K)
    BY Zenon DEF Runner!Cardinality, Cardinality
  <2>2. \A K, k : Runner!Nth(K, k) = Nth(K, k)
    BY <2>1, Zenon DEF Runner!Nth, Nth
  <2> QED BY <2>1, <2>2, Zenon DEF Runner!Sublist, Sublist
<1>5. \A t, l : Runner!FirstOf(t, l) = FirstOf(t, l)
  BY Zenon DEF Runner!FirstOf, FirstOf
<1> QED BY <1>3, <1>4, <1>5, SeenSettings, Zenon DEF Runner!Pending, Pending

LEMMA RunnerInit == Init => Runner!Init
<1> SUFFICES ASSUME Init PROVE Runner!Init
  OBVIOUS
<1>1. [f \in DOMAIN session \ {"snap"} |-> session[f]] = <<>>
  BY DEF Init
<1>2. [d \in Dir |-> {c \in Case : Exists(d, c)}] = [d \in Dir |-> {}]
  BY DEF Init, Exists
<1> QED BY <1>1, <1>2 DEF Init, Runner!Init

LEMMA SameFiles ==
  ASSUME \A d \in Dir : \A c \in Case : Exists(d, c)' <=> Exists(d, c)
  PROVE  Files' = Files
BY DEF Files

LEMMA RunnerNext ==
  ASSUME SessionInv, [Next]_vars
  PROVE  [Runner!Next]_(Runner!vars)
<1> DEFINE d == session.out
           h == Head(queue)
           running == pc # "idle"
<1> USE DEF Runner!vars, Runner!Next
<1>1. CASE StartSession
  <2>1. /\ pc = "idle" /\ session' \in Settings /\ queue' = Pending(session')
        /\ pc' = "running" /\ disk' = disk /\ crashes' = crashes
    BY <1>1 DEF StartSession, Settings
  <2>2. Seen(session') \in Runner!Arguments
    BY <2>1, SeenSettings
  <2>3. Files' = Files
    BY <2>1 DEF Files, Exists
  <2>4. Runner!Pending(Seen(session'), Files[Seen(session').out]) = queue'
    BY <2>1, SamePending, SeenSettings
  <2>5. PICK s : s = Seen(session')
    OBVIOUS
  <2>6. Runner!Start(s)
    BY <2>1, <2>3, <2>4, <2>5 DEF Runner!Start, Files, Seen
  <2>7. s \in Runner!Arguments
    BY <2>2, <2>5
  <2> QED BY <2>6, <2>7
<1>2. CASE Raise
  <2>1. /\ pc = "running" /\ pc' = "running" /\ queue # <<>> /\ queue' = Tail(queue)
        /\ session' = session /\ disk' = disk /\ crashes' = crashes
    BY <1>2 DEF Raise
  <2>2. Files' = Files
    BY <2>1 DEF Files, Exists
  <2> QED BY <2>1, <2>2 DEF Runner!Fail, Files
<1>3. CASE OpenResult
  <2>1. /\ pc = "running" /\ pc' = "writing" /\ queue # <<>> /\ queue' = queue /\ h \notin Hopeless
        /\ session' = session /\ crashes' = crashes /\ Writes(d, h, Torn)
    BY <1>3 DEF OpenResult, Writes
  <2>2. /\ h \in Case /\ session \in Settings /\ d \in Dir /\ IsDisk
    BY <2>1, HeadOfQueue DEF SessionInv, Settings
  <2>3. \A e \in Dir : \A b \in Case : disk'[e][b] = IF e = d /\ b = h THEN Torn ELSE disk[e][b]
    BY <2>1, <2>2, OneFileWritten
  <2>4. \A e \in Dir : \A b \in Case : Exists(e, b)' <=> (Exists(e, b) \/ (e = d /\ b = h))
    BY <2>3, KindsOfResult DEF Exists
  <2>5. Files' = [Files EXCEPT ![d] = @ \cup {h}]
    <3>1. \A e \in Dir : {b \in Case : Exists(e, b)}' = {b \in Case : Exists(e, b)} \cup {b \in {h} : e = d}
      BY <2>2, <2>4
    <3> QED BY <3>1 DEF Files
  <2>6. Seen(session).out = d
    BY <2>2, SeenSettings
  <2>7. Runner!Finish(h)
    BY <2>1, <2>5, <2>6 DEF Runner!Finish, Files, Seen
  <2> QED BY <2>2, <2>7
<1>4. CASE CloseResult
  <2>1. /\ pc = "writing" /\ pc' = "running" /\ queue' = Tail(queue)
        /\ session' = session /\ crashes' = crashes /\ Writes(d, h, writing)
    BY <1>4 DEF CloseResult, Writes
  <2>2. IsDisk /\ disk[d][h] = Torn /\ writing # NoFile
    BY <2>1, KindsOfResult DEF SessionInv
  <2>3. \A e \in Dir : \A b \in Case : disk'[e][b] = IF e = d /\ b = h THEN writing ELSE disk[e][b]
    BY <2>1, <2>2, OneFileWritten
  <2>4. Files' = Files
    BY <2>2, <2>3, KindsOfResult, SameFiles DEF Exists
  <2> QED BY <2>1, <2>4 DEF Files
<1>5. CASE EndSession
  <2>1. Files' = Files
    BY <1>5 DEF EndSession, Files, Exists
  <2> QED BY <1>5, <2>1 DEF EndSession, Runner!End, Files
<1>6. CASE Crash
  <2>1. /\ pc # "idle" /\ crashes < MaxCrashes /\ queue' = <<>> /\ pc' = "idle"
        /\ crashes' = crashes + 1 /\ session' = session
        /\ UNCHANGED disk \/ (pc = "writing" /\ Writes(d, h, Cut))
    BY <1>6 DEF Crash, Writes
  <2>2. Files' = Files
    <3>1. CASE UNCHANGED disk
      BY <3>1 DEF Files, Exists
    <3>2. CASE pc = "writing" /\ Writes(d, h, Cut)
      <4>1. IsDisk /\ disk[d][h] = Torn
        BY <3>2 DEF SessionInv
      <4>2. \A e \in Dir : \A b \in Case : disk'[e][b] = IF e = d /\ b = h THEN Cut ELSE disk[e][b]
        BY <3>2, <4>1, OneFileWritten
      <4> QED BY <4>1, <4>2, KindsOfResult, SameFiles DEF Exists
    <3> QED BY <2>1, <3>1, <3>2
  <2> QED BY <2>1, <2>2 DEF Runner!Die, Files
<1>7. CASE UNCHANGED vars
  <2>1. Files' = Files
    BY <1>7 DEF vars, Files, Exists
  <2> QED BY <1>7, <2>1 DEF vars, Files
<1> QED BY <1>1, <1>2, <1>3, <1>4, <1>5, <1>6, <1>7 DEF Next

\* Whatever its files hold, and wherever it dies in the middle of one, the runner takes
\* up, finishes and loses cases as a batch does.
THEOREM RunnerKeepsBatch == Spec => ImplementsBatch
  BY RunnerInit, RunnerNext, SessionHolds, PTL DEF Spec, ImplementsBatch, Runner!SafeSpec
=============================================================================
