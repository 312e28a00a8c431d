-------------------------- MODULE InjectionProofs --------------------------
(***************************************************************************)
(* Facts about plans, for every vocabulary and plans of every length: what *)
(* the checks of a report stand for, what an injector makes of a plan, and *)
(* what the validator then says of it.                                     *)
(***************************************************************************)
EXTENDS Injection, ListsProofs, SequenceTheorems

LEMMA StepDomain ==
  ASSUME NEW p \in AgentPlan
  PROVE  /\ p.steps \in Seq(Step) /\ Len(p.steps) \in Nat
         /\ DOMAIN p.steps = 1 .. Len(p.steps)
         /\ \A i \in DOMAIN p.steps : p.steps[i] \in Step
  BY DEF AgentPlan

LEMMA StepsReplaced ==
  ASSUME NEW p \in AgentPlan, NEW ss \in Seq(Step)
  PROVE  /\ [p EXCEPT !.steps = ss] \in AgentPlan
         /\ [p EXCEPT !.steps = ss].steps = ss
         /\ [p EXCEPT !.steps = ss].stop_condition = p.stop_condition
  BY DEF AgentPlan

-----------------------------------------------------------------------------
(***************************************************************************)
(* A report is sorted by the checks it comes from.                         *)
(***************************************************************************)
LEMMA ErrorType ==
  ASSUME NEW t, NEW ids, NEW paths, NEW kind
  PROVE  Error(t, ids, paths, kind).type = t
BY DEF Error

MissingTags(ss) ==
  {Error(MISSING_EVIDENCE, {}, {EvidencePath(t)}, "") : t \in RequiredEvidence \ Produced(ss)}

MissingWork(ss) ==
  {Error(MISSING_OPERATION, {}, {OperationPath(t)}, "") : t \in RequiredOperation \ Produced(ss)}

LEMMA ChecksReportTheirType ==
  ASSUME NEW p, NEW ss
  PROVE  /\ \A e \in UnknownTools(ss) : e.type = UNKNOWN_TOOL
         /\ \A e \in UnknownDependencies(ss) : e.type = UNKNOWN_DEPENDENCY
         /\ \A e \in CycleErrors(ss) : e.type = DEP_CYCLE
         /\ \A e \in OrderingErrors(ss) : e.type = ORDERING
         /\ \A e \in DuplicateErrors(ss) : e.type = DUPLICATE_STEP
         /\ \A e \in DanglingErrors(ss) : e.type = DANGLING_STEP
         /\ \A e \in MissingStop(p) : e.type = MISSING_STOP_CONDITION
         /\ \A e \in MissingTags(ss) : e.type = MISSING_EVIDENCE
         /\ \A e \in MissingWork(ss) : e.type = MISSING_OPERATION
<1>1. ASSUME NEW e \in UnknownTools(ss) PROVE e.type = UNKNOWN_TOOL
  <2>1. PICK i : e = Error(UNKNOWN_TOOL, {ss[i].id}, {ToolPath(ss[i].id)}, "")
    BY <1>1, Zenon DEF UnknownTools
  <2> QED BY <2>1, ErrorType
<1>2. ASSUME NEW e \in UnknownDependencies(ss) PROVE e.type = UNKNOWN_DEPENDENCY
  <2>1. PICK i : e = Error(UNKNOWN_DEPENDENCY, {ss[i].id}, {InputFromPath(ss[i].id)}, "")
    BY <1>2, Zenon DEF UnknownDependencies
  <2> QED BY <2>1, ErrorType
<1>3. ASSUME NEW e \in CycleErrors(ss) PROVE e.type = DEP_CYCLE
  <2>1. PICK C : e = Error(DEP_CYCLE, C, {InputFromPath(id) : id \in C}, "")
    BY <1>3, Zenon DEF CycleErrors
  <2> QED BY <2>1, ErrorType
<1>4. ASSUME NEW e \in OrderingErrors(ss) PROVE e.type = ORDERING
  <2>1. PICK i : e = Error(ORDERING, {ss[i].id} \cup LateDeps(ss, i), {StepPath(ss[i].id)}, "")
    BY <1>4, Zenon DEF OrderingErrors
  <2> QED BY <2>1, ErrorType
<1>5. ASSUME NEW e \in DuplicateErrors(ss) PROVE e.type = DUPLICATE_STEP
  <2>1. PICK i :
          \/ e = Error(DUPLICATE_STEP, {ss[i].id}, {StepPath(ss[i].id)}, "duplicate_id")
          \/ e = Error(DUPLICATE_STEP, SameWork(ss, i), {StepPath(id) : id \in SameWork(ss, i)},
                       "identical_content")
    BY <1>5, Zenon DEF DuplicateErrors
  <2> QED BY <2>1, ErrorType
<1>6. ASSUME NEW e \in DanglingErrors(ss) PROVE e.type = DANGLING_STEP
  <2>1. PICK id : e = Error(DANGLING_STEP, {id}, {StepPath(id)}, "")
    BY <1>6, Zenon DEF DanglingErrors
  <2> QED BY <2>1, ErrorType
<1>7. ASSUME NEW e \in MissingStop(p) PROVE e.type = MISSING_STOP_CONDITION
  <2>1. e = Error(MISSING_STOP_CONDITION, {}, {StopPath}, "")
    BY <1>7, Zenon DEF MissingStop
  <2> QED BY <2>1, ErrorType
<1>8. ASSUME NEW e \in MissingTags(ss) PROVE e.type = MISSING_EVIDENCE
  <2>1. PICK t : e = Error(MISSING_EVIDENCE, {}, {EvidencePath(t)}, "")
    BY <1>8, Zenon DEF MissingTags
  <2> QED BY <2>1, ErrorType
<1>9. ASSUME NEW e \in MissingWork(ss) PROVE e.type = MISSING_OPERATION
  <2>1. PICK t : e = Error(MISSING_OPERATION, {}, {OperationPath(t)}, "")
    BY <1>9, Zenon DEF MissingWork
  <2> QED BY <2>1, ErrorType
<1> QED BY <1>1, <1>2, <1>3, <1>4, <1>5, <1>6, <1>7, <1>8, <1>9, Zenon

LEMMA ReportByCheck ==
  ASSUME NEW p
  PROVE  /\ OfType(Errors(p), UNKNOWN_TOOL) = UnknownTools(p.steps)
         /\ OfType(Errors(p), UNKNOWN_DEPENDENCY) = UnknownDependencies(p.steps)
         /\ OfType(Errors(p), DEP_CYCLE) = CycleErrors(p.steps)
         /\ OfType(Errors(p), DUPLICATE_STEP) = DuplicateErrors(p.steps)
         /\ OfType(Errors(p), MISSING_EVIDENCE) = MissingTags(p.steps)
         /\ OfType(Errors(p), MISSING_OPERATION) = MissingWork(p.steps)
         /\ DEP_CYCLE \notin ErrorTypes(Errors(p)) => CycleErrors(p.steps) = {}
         /\ (CycleErrors(p.steps) = {} /\ ORDERING \notin ErrorTypes(Errors(p)))
              => OrderingErrors(p.steps) = {}
         /\ ORDERING \in ErrorTypes(Errors(p))
              => CycleErrors(p.steps) = {} /\ OrderingErrors(p.steps) # {}
<1> DEFINE ss == p.steps
           U == UnknownTools(ss)
           R == UnknownDependencies(ss)
           C == CycleErrors(ss)
           O == IF C = {} THEN OrderingErrors(ss) ELSE {}
           D == DuplicateErrors(ss)
           L == DanglingErrors(ss)
           S == MissingStop(p)
           V == MissingTags(ss)
           W == MissingWork(ss)
<1>1. Errors(p) = U \cup R \cup C \cup O \cup D \cup L \cup S \cup V \cup W
  BY DEF Errors, CoverageErrors, MissingTags, MissingWork
<1>2. /\ \A e \in U : e.type = "unknown_tool"
      /\ \A e \in R : e.type = "unknown_dependency"
      /\ \A e \in C : e.type = "dep_cycle"
      /\ \A e \in OrderingErrors(ss) : e.type = "ordering"
      /\ \A e \in D : e.type = "duplicate_step"
      /\ \A e \in L : e.type = "dangling_step"
      /\ \A e \in S : e.type = "missing_stop_condition"
      /\ \A e \in V : e.type = "missing_evidence"
      /\ \A e \in W : e.type = "missing_operation"
  <2> HIDE DEF U, R, C, D, L, S, V, W
  <2> QED BY ChecksReportTheirType, Zenon
          DEF U, R, C, D, L, S, V, W, UNKNOWN_TOOL, UNKNOWN_DEPENDENCY, DEP_CYCLE, ORDERING,
              DUPLICATE_STEP, DANGLING_STEP, MISSING_STOP_CONDITION, MISSING_EVIDENCE, MISSING_OPERATION
<1>3. \A e \in O : e.type = "ordering"
  <2> HIDE DEF C
  <2> QED BY <1>2
<1> USE DEF UNKNOWN_TOOL, UNKNOWN_DEPENDENCY, DEP_CYCLE, ORDERING, DUPLICATE_STEP,
            MISSING_EVIDENCE, MISSING_OPERATION
<1>4. (C = {} => O = OrderingErrors(ss)) /\ (C # {} => O = {})
  OBVIOUS
<1> HIDE DEF U, R, C, O, D, L, S, V, W, ss
<1>5. OfType(Errors(p), UNKNOWN_TOOL) = U
  BY <1>1, <1>2, <1>3 DEF OfType
<1>6. OfType(Errors(p), MISSING_EVIDENCE) = V
  BY <1>1, <1>2, <1>3 DEF OfType
<1>7. OfType(Errors(p), MISSING_OPERATION) = W
  BY <1>1, <1>2, <1>3 DEF OfType
<1>8. DEP_CYCLE \notin ErrorTypes(Errors(p)) => C = {}
  BY <1>1, <1>2 DEF ErrorTypes
<1>9. ORDERING \notin ErrorTypes(Errors(p)) => O = {}
  BY <1>1, <1>3 DEF ErrorTypes
<1>10. ORDERING \in ErrorTypes(Errors(p)) => O # {}
  BY <1>1, <1>2, <1>3 DEF ErrorTypes
<1>11. OfType(Errors(p), UNKNOWN_DEPENDENCY) = R
  BY <1>1, <1>2, <1>3 DEF OfType
<1>12. OfType(Errors(p), DUPLICATE_STEP) = D
  BY <1>1, <1>2, <1>3 DEF OfType
<1>13. OfType(Errors(p), DEP_CYCLE) = C
  BY <1>1, <1>2, <1>3 DEF OfType
<1> QED BY <1>4, <1>5, <1>6, <1>7, <1>8, <1>9, <1>10, <1>11, <1>12, <1>13 DEF U, R, C, D, V, W, ss

\* The first of the steps that do its work.
Leading(ss, i) == \A j \in DOMAIN ss : j < i => Body(ss[j]) # Body(ss[i])

-----------------------------------------------------------------------------
(***************************************************************************)
(* Cycles.  Where everything in a finite set of names consumes something   *)
(* in it, some name consumes itself: take one with the fewest upstream.    *)
(***************************************************************************)
LEMMA UpstreamIsClosed ==
  ASSUME NEW X, NEW edges \in [X -> SUBSET X], NEW id \in X
  PROVE  /\ Upstream(edges, id) \subseteq X
         /\ edges[id] \subseteq Upstream(edges, id)
         /\ \A y \in Upstream(edges, id) : edges[y] \subseteq Upstream(edges, id)
  BY DEF Upstream

LEMMA UpstreamIsLeast ==
  ASSUME NEW X, NEW edges \in [X -> SUBSET X], NEW id \in X,
         NEW S \in SUBSET X, edges[id] \subseteq S, \A y \in S : edges[y] \subseteq S
  PROVE  Upstream(edges, id) \subseteq S
  BY DEF Upstream

LEMMA NoWayOut ==
  ASSUME NEW X, IsFiniteSet(X), NEW edges \in [X -> SUBSET X],
         NEW S \in SUBSET X, S # {}, \A x \in S : \E d \in S : d \in edges[x]
  PROVE  \E x \in S : x \in Upstream(edges, x)
<1> DEFINE T == {Upstream(edges, x) : x \in S}
           R == StrictSubsetOrdering(X)
<1>1. T \subseteq SUBSET X /\ T # {}
  BY UpstreamIsClosed
<1>2. IsWellFoundedOn(R, SUBSET X)
  BY FS_StrictSubsetOrderingWellFounded, FS_FiniteSubsetsOfFinite
<1>3. PICK t \in T : \A y \in T : ~(<<y, t>> \in R)
  <2> HIDE DEF T, R
  <2> QED BY <1>1, <1>2, WFMin
<1>4. PICK x \in S : t = Upstream(edges, x)
  OBVIOUS
<1>5. PICK d \in S : d \in edges[x]
  OBVIOUS
<1>6. /\ d \in Upstream(edges, x)
      /\ Upstream(edges, x) \in SUBSET X /\ Upstream(edges, d) \in SUBSET X
      /\ edges[d] \subseteq Upstream(edges, x)
      /\ \A y \in Upstream(edges, x) : edges[y] \subseteq Upstream(edges, x)
  BY <1>5, UpstreamIsClosed
<1>7. Upstream(edges, d) \subseteq Upstream(edges, x)
  BY <1>6, UpstreamIsLeast
<1>8. ~(<<Upstream(edges, d), Upstream(edges, x)>> \in R)
  BY <1>3, <1>4
<1>9. Upstream(edges, d) = Upstream(edges, x)
  BY <1>6, <1>7, <1>8 DEF StrictSubsetOrdering
<1> QED BY <1>6, <1>9

LEMMA NamesAreFinite ==
  ASSUME NEW ss \in Seq(Step)
  PROVE  IsFiniteSet(KnownIds(ss))
<1> DEFINE D == DOMAIN ss
           K == KnownIds(ss)
           name == [i \in D |-> ss[i].id]
<1>1. IsFiniteSet(D)
  <2>1. D = 1 .. Len(ss) /\ Len(ss) \in Nat
    OBVIOUS
  <2> QED BY <2>1, SpanOf
<1>2. name \in Surjection(D, K)
  BY DEF Surjection, KnownIds
<1> HIDE DEF D, K, name
<1>3. IsFiniteSet(K)
  BY <1>1, <1>2, FS_Surjection
<1> QED BY <1>3 DEF K

\* The dict of the last step of each name finds a name's only step.
LEMMA LastOfUnique ==
  ASSUME NEW ss \in Seq(Step), UniqueIds(ss), NEW i \in DOMAIN ss
  PROVE  LastAt(ss, ss[i].id) = i
<1>1. At(ss, ss[i].id) = {i}
  BY DEF At, UniqueIds
<1>2. i <= i
  OBVIOUS
<1> QED BY <1>1, <1>2 DEF LastAt

\* A plan without a reported cycle has none.
LEMMA AcyclicNames ==
  ASSUME NEW ss, CycleErrors(ss) = {}, NEW id \in KnownIds(ss)
  PROVE  id \notin Upstream(Edges(ss), id)
<1> DEFINE edges == Edges(ss)
           up == [x \in DOMAIN edges |-> Upstream(edges, x)]
<1>1. DOMAIN edges = KnownIds(ss)
  BY DEF Edges
<1>2. ASSUME id \in Upstream(edges, id) PROVE FALSE
  <2> HIDE DEF edges
  <2>1. id \in {x \in DOMAIN edges : x \in up[x]}
    BY <1>1, <1>2
  <2>2. {y \in up[id] : id \in up[y]} \in CyclicComponents(edges)
    BY <2>1, Zenon DEF CyclicComponents
  <2>3. CyclicComponents(Edges(ss)) = {}
    BY Zenon DEF CycleErrors
  <2> QED BY <2>2, <2>3 DEF edges
<1> QED BY <1>2

LEMMA NoCycleIsReported ==
  ASSUME NEW ss, \A id \in KnownIds(ss) : id \notin Upstream(Edges(ss), id)
  PROVE  CycleErrors(ss) = {}
<1> DEFINE edges == Edges(ss)
<1>1. DOMAIN edges = KnownIds(ss)
  BY DEF Edges
<1>2. CyclicComponents(edges) = {}
  <2> HIDE DEF edges
  <2>1. \A id \in DOMAIN edges : id \notin Upstream(edges, id)
    BY <1>1 DEF edges
  <2> QED BY <2>1 DEF CyclicComponents
<1> QED BY <1>2 DEF CycleErrors

\* No step consumes a later one.
Ordered(ss) == \A k, m \in DOMAIN ss : m > k => ss[m].id \notin ss[k].input_from

LEMMA OrderedIsUnreported ==
  ASSUME NEW ss
  PROVE  OrderingErrors(ss) = {} <=> Ordered(ss)
<1>1. OrderingErrors(ss) = {} <=> \A i \in DOMAIN ss : LateDeps(ss, i) = {}
  BY Zenon DEF OrderingErrors
<1>2. (\A i \in DOMAIN ss : LateDeps(ss, i) = {}) <=> Ordered(ss)
  BY DEF LateDeps, Ordered
<1> QED BY <1>1, <1>2

(***************************************************************************)
(* What the list operations of the injectors do, place by place.           *)
(***************************************************************************)
LEMMA RemovedIs ==
  ASSUME NEW S, NEW s \in Seq(S), NEW i \in 1 .. Len(s)
  PROVE  /\ RemoveAt(s, i) \in Seq(S) /\ Len(RemoveAt(s, i)) = Len(s) - 1
         /\ \A k \in 1 .. Len(s) - 1 : RemoveAt(s, i)[k] = IF k < i THEN s[k] ELSE s[k + 1]
<1> DEFINE n == Len(s)
           front == SubSeq(s, 1, i - 1)
           back == SubSeq(s, i + 1, n)
<1>1. n \in Nat /\ i \in 1 .. n /\ \A k \in 1 .. n : s[k] \in S
  OBVIOUS
<1>2. 1 \in Int /\ i - 1 \in Int /\ i + 1 \in Int /\ n \in Int
      /\ (\A k \in 1 .. i - 1 : s[k] \in S) /\ (\A k \in i + 1 .. n : s[k] \in S)
  BY <1>1
<1>3. front \in Seq(S) /\ Len(front) = i - 1 /\ \A k \in 1 .. i - 1 : front[k] = s[k]
  BY <1>1, <1>2, SubSeqProperties
<1>4. back \in Seq(S) /\ Len(back) = n - i /\ \A k \in 1 .. n - i : back[k] = s[k + i]
  BY <1>1, <1>2, SubSeqProperties
<1>5. RemoveAt(s, i) = front \o back
  BY DEF RemoveAt
<1> HIDE DEF front, back
<1>6. /\ front \o back \in Seq(S) /\ Len(front \o back) = n - 1
      /\ \A k \in 1 .. n - 1 : (front \o back)[k] = IF k <= i - 1 THEN front[k] ELSE back[k - (i - 1)]
  <2>1. /\ front \o back \in Seq(S) /\ Len(front \o back) = Len(front) + Len(back)
        /\ \A k \in 1 .. Len(front) + Len(back) :
             (front \o back)[k] = IF k <= Len(front) THEN front[k] ELSE back[k - Len(front)]
    BY <1>3, <1>4, ConcatProperties
  <2>2. Len(front) = i - 1 /\ Len(front) + Len(back) = n - 1
    BY <1>1, <1>3, <1>4
  <2> QED BY <2>1, <2>2
<1>7. ASSUME NEW k \in 1 .. n - 1
      PROVE  (front \o back)[k] = IF k < i THEN s[k] ELSE s[k + 1]
  <2>1. CASE k < i
    BY <1>1, <1>3, <1>6, <2>1
  <2>2. CASE ~(k < i)
    <3>1. k - (i - 1) \in 1 .. n - i /\ k - (i - 1) + i = k + 1 /\ ~(k <= i - 1)
      BY <1>1, <2>2
    <3>2. (front \o back)[k] = back[k - (i - 1)]
      BY <1>6, <3>1
    <3>3. back[k - (i - 1)] = s[k - (i - 1) + i]
      BY <1>4, <3>1
    <3> QED BY <2>2, <3>1, <3>2, <3>3
  <2> QED BY <2>1, <2>2
<1> QED BY <1>5, <1>6, <1>7

LEMMA InsertedIs ==
  ASSUME NEW S, NEW s \in Seq(S), NEW i \in 1 .. Len(s) + 1, NEW e \in S
  PROVE  /\ InsertAt(s, i, e) \in Seq(S) /\ Len(InsertAt(s, i, e)) = Len(s) + 1
         /\ \A k \in 1 .. Len(s) + 1 :
              InsertAt(s, i, e)[k] = IF k < i THEN s[k] ELSE IF k = i THEN e ELSE s[k - 1]
<1> DEFINE n == Len(s)
           front == SubSeq(s, 1, i - 1)
           back == SubSeq(s, i, n)
<1>1. n \in Nat /\ i \in 1 .. n + 1 /\ \A k \in 1 .. n : s[k] \in S
  OBVIOUS
<1>2. 1 \in Int /\ i - 1 \in Int /\ i \in Int /\ n \in Int
      /\ (\A k \in 1 .. i - 1 : s[k] \in S) /\ (\A k \in i .. n : s[k] \in S)
  BY <1>1
<1>3. front \in Seq(S) /\ Len(front) = i - 1 /\ \A k \in 1 .. i - 1 : front[k] = s[k]
  BY <1>1, <1>2, SubSeqProperties
<1>4. back \in Seq(S) /\ Len(back) = n - i + 1 /\ \A k \in 1 .. n - i + 1 : back[k] = s[k + i - 1]
  BY <1>1, <1>2, SubSeqProperties
<1>5. InsertAt(s, i, e) = (front \o <<e>>) \o back
  BY DEF InsertAt
<1> HIDE DEF front, back
<1>6. <<e>> \in Seq(S) /\ Len(<<e>>) = 1 /\ <<e>>[1] = e
  OBVIOUS
<1>7. /\ front \o <<e>> \in Seq(S) /\ Len(front \o <<e>>) = i
      /\ \A k \in 1 .. i : (front \o <<e>>)[k] = IF k < i THEN s[k] ELSE e
  <2>1. /\ front \o <<e>> \in Seq(S) /\ Len(front \o <<e>>) = i
        /\ \A k \in 1 .. i : (front \o <<e>>)[k] = IF k <= i - 1 THEN front[k] ELSE <<e>>[k - (i - 1)]
    BY <1>1, <1>3, <1>6, ConcatProperties
  <2>2. \A k \in 1 .. i : k < i \/ k - (i - 1) = 1
    BY <1>1
  <2> QED BY <1>1, <1>3, <1>6, <2>1, <2>2
<1>8. /\ InsertAt(s, i, e) \in Seq(S) /\ Len(InsertAt(s, i, e)) = n + 1
      /\ \A k \in 1 .. n + 1 :
           InsertAt(s, i, e)[k] = IF k <= i THEN (front \o <<e>>)[k] ELSE back[k - i]
  <2> DEFINE head == front \o <<e>>
  <2>1. head \in Seq(S) /\ Len(head) = i
    BY <1>7
  <2> HIDE DEF head
  <2>2. /\ head \o back \in Seq(S) /\ Len(head \o back) = Len(head) + Len(back)
        /\ \A k \in 1 .. Len(head) + Len(back) :
             (head \o back)[k] = IF k <= Len(head) THEN head[k] ELSE back[k - Len(head)]
    BY <1>4, <2>1, ConcatProperties
  <2>3. Len(head) + Len(back) = n + 1
    BY <1>1, <1>4, <2>1
  <2> QED BY <1>5, <2>1, <2>2, <2>3 DEF head
<1>9. ASSUME NEW k \in 1 .. n + 1
      PROVE  InsertAt(s, i, e)[k] = IF k < i THEN s[k] ELSE IF k = i THEN e ELSE s[k - 1]
  <2>1. CASE k <= i
    BY <1>1, <1>7, <1>8, <2>1
  <2>2. CASE ~(k <= i)
    <3>1. k - i \in 1 .. n - i + 1 /\ k - i + i - 1 = k - 1
      BY <1>1, <2>2
    <3>2. back[k - i] = s[k - i + i - 1]
      BY <1>4, <3>1
    <3> QED BY <1>1, <1>8, <2>2, <3>1, <3>2
  <2> QED BY <2>1, <2>2
<1> QED BY <1>8, <1>9

\* Where the step at k stood before the step at `from` was moved to `to`.
Origin(k, from, to) ==
  IF k < to THEN k ELSE IF k = to THEN from ELSE IF k <= from THEN k - 1 ELSE k

LEMMA MovedIs ==
  ASSUME NEW ss \in Seq(Step), NEW from \in DOMAIN ss, NEW to \in 1 .. from - 1
  PROVE  /\ Moved(ss, from, to) \in Seq(Step) /\ DOMAIN Moved(ss, from, to) = DOMAIN ss
         /\ \A k \in DOMAIN ss : /\ Origin(k, from, to) \in DOMAIN ss
                                 /\ Moved(ss, from, to)[k] = ss[Origin(k, from, to)]
<1> DEFINE n == Len(ss)
           rest == RemoveAt(ss, from)
<1>1. n \in Nat /\ DOMAIN ss = 1 .. n /\ from \in 1 .. n /\ ss[from] \in Step
  OBVIOUS
<1>2. /\ rest \in Seq(Step) /\ Len(rest) = n - 1
      /\ \A k \in 1 .. n - 1 : rest[k] = IF k < from THEN ss[k] ELSE ss[k + 1]
  BY <1>1, RemovedIs
<1>3. Moved(ss, from, to) = InsertAt(rest, to, ss[from])
  BY DEF Moved
<1> HIDE DEF rest
<1>4. /\ Moved(ss, from, to) \in Seq(Step) /\ Len(Moved(ss, from, to)) = n
      /\ \A k \in 1 .. n : Moved(ss, from, to)[k] =
           IF k < to THEN rest[k] ELSE IF k = to THEN ss[from] ELSE rest[k - 1]
  <2> DEFINE s == ss[from]
  <2>1. to \in 1 .. Len(rest) + 1 /\ Len(rest) + 1 = n /\ rest \in Seq(Step) /\ s \in Step
    BY <1>1, <1>2
  <2> HIDE DEF s
  <2>2. /\ InsertAt(rest, to, s) \in Seq(Step) /\ Len(InsertAt(rest, to, s)) = Len(rest) + 1
        /\ \A k \in 1 .. Len(rest) + 1 :
             InsertAt(rest, to, s)[k] = IF k < to THEN rest[k] ELSE IF k = to THEN s ELSE rest[k - 1]
    BY <2>1, InsertedIs
  <2>3. Moved(ss, from, to) = InsertAt(rest, to, s)
    BY <1>3 DEF s
  <2> QED BY <2>1, <2>2, <2>3 DEF s
<1>5. ASSUME NEW k \in 1 .. n
      PROVE  Origin(k, from, to) \in 1 .. n /\ Moved(ss, from, to)[k] = ss[Origin(k, from, to)]
  <2>1. CASE k = to
    BY <1>1, <1>4, <2>1 DEF Origin
  <2>3. CASE k < to
    <3>1. k \in 1 .. n - 1 /\ k < from
      BY <1>1, <2>3
    <3> QED BY <1>1, <1>2, <1>4, <2>3, <3>1 DEF Origin
  <2>2. CASE k > to
    <3>1. k - 1 \in 1 .. n - 1 /\ k - 1 + 1 = k
      BY <1>1, <2>2
    <3>2. rest[k - 1] = IF k - 1 < from THEN ss[k - 1] ELSE ss[k]
      BY <1>2, <3>1
    <3> QED BY <1>1, <1>4, <2>2, <3>1, <3>2 DEF Origin
  <2> QED BY <1>1, <2>1, <2>2, <2>3
<1> QED BY <1>1, <1>4, <1>5

-----------------------------------------------------------------------------
(***************************************************************************)
(* What each injector makes of a plan.                                     *)
(***************************************************************************)
LEMMA KnownAt ==
  ASSUME NEW p \in AgentPlan, NEW id \in Known(p)
  PROVE  /\ FirstAt(p.steps, id) \in DOMAIN p.steps /\ p.steps[FirstAt(p.steps, id)].id = id
         /\ LastAt(p.steps, id) \in DOMAIN p.steps /\ p.steps[LastAt(p.steps, id)].id = id
         /\ \A i \in At(p.steps, id) : FirstAt(p.steps, id) <= i /\ i <= LastAt(p.steps, id)
<1> DEFINE K == At(p.steps, id)
<1>1. DOMAIN p.steps = 1 .. Len(p.steps) /\ Len(p.steps) \in Nat
  BY StepDomain
<1>2. K \in SUBSET (1 .. Len(p.steps)) /\ K # {}
  BY <1>1 DEF At, Known, KnownIds
<1> HIDE DEF K
<1>3. K \in SUBSET Int /\ IsFiniteSet(K)
  BY <1>1, <1>2, IndicesAreFinite
<1>4. (\E i \in K : \A j \in K : i <= j) /\ (\E i \in K : \A j \in K : j <= i)
  BY <1>2, <1>3, LeastOf, GreatestOf
<1> QED BY <1>4 DEF K, FirstAt, LastAt, At

\* Every corruption is a call of one injector.
ByOneCall(p, c) ==
  \/ \E id \in c.touched, dep \in StepId : \E x \in FreeIds(p, UnknownNames[dep]) :
       CanBreakDependency(p, id, dep) /\ c.result = BreakDependency(p, id, dep, x)
  \/ \E id, with \in Known(p) :
       CanCloseCycle(p, id, with) /\ c = Touching({id, with}, CloseCycle(p, id, with))
  \/ \E id \in Known(p) : c = Touching({id}, DeleteStep(p, id))
  \/ \E id \in Known(p), t \in Tool \ Available : c = Touching({id}, SetTool(p, id, t))
  \/ \E id \in Known(p), to \in DOMAIN p.steps :
       CanMove(p, id, to) /\ c = Touching({id}, MoveEarlier(p, id, to))
  \/ \E id \in Known(p) : \E new_id \in {id} \cup FreeIds(p, CopyNames[id]) :
       c = Touching({id}, Duplicate(p, id, new_id))
  \/ c = Touching({}, DropStop(p))
  \/ \E r \in RequiredEvidence \cup RequiredOperation :
       CanDropRequired(p, r) /\ c = Touching({}, DropRequired(p, r))

LEMMA CorruptionCases ==
  ASSUME NEW p, NEW c \in Corruptions(p) \cup AimedCorruptions(p)
  PROVE  ByOneCall(p, c)
<1> DEFINE breaks ==
             UNION {{Touching(d[1], BreakDependency(p, e[1], e[2], d[2])) :
               d \in {{e[1]}, {e[1], e[2]}} \X FreeIds(p, UnknownNames[e[2]])} :
               e \in {x \in Known(p) \X StepId : CanBreakDependency(p, x[1], x[2])}}
           closes ==
             {Touching({e[1], e[2]}, CloseCycle(p, e[1], e[2])) :
               e \in {x \in Known(p) \X Known(p) : CanCloseCycle(p, x[1], x[2])}}
           deletes == {Touching({id}, DeleteStep(p, id)) : id \in Known(p)}
           retools == {Touching({e[1]}, SetTool(p, e[1], e[2])) : e \in Known(p) \X (Tool \ Available)}
           moves ==
             {Touching({e[1]}, MoveEarlier(p, e[1], e[2])) :
               e \in {x \in Known(p) \X DOMAIN p.steps : CanMove(p, x[1], x[2])}}
           copies ==
             UNION {{Touching({id}, Duplicate(p, id, new_id)) :
               new_id \in {id} \cup FreeIds(p, CopyNames[id])} : id \in Known(p)}
           stops == {Touching({}, DropStop(p))}
           drops ==
             {Touching({}, DropRequired(p, r)) :
               r \in {x \in RequiredEvidence \cup RequiredOperation : CanDropRequired(p, x)}}
           matched ==
             UNION {{Touching({id}, SetTool(p, id, t)) :
               t \in LengthMatchedTools(p.steps[FirstAt(p.steps, id)].tool, Tool)} : id \in Known(p)}
<1>0. /\ Corruptions(p) = breaks \cup closes \cup deletes \cup retools \cup moves \cup copies \cup stops
      /\ AimedCorruptions(p) = drops \cup matched
  BY Zenon DEF Corruptions, AimedCorruptions
<1>1. CASE c \in breaks
  <2>1. PICK e \in {x \in Known(p) \X StepId : CanBreakDependency(p, x[1], x[2])} :
          c \in {Touching(d[1], BreakDependency(p, e[1], e[2], d[2])) :
                  d \in {{e[1]}, {e[1], e[2]}} \X FreeIds(p, UnknownNames[e[2]])}
    BY <1>1
  <2>2. PICK touched \in {{e[1]}, {e[1], e[2]}}, x \in FreeIds(p, UnknownNames[e[2]]) :
          c = Touching(touched, BreakDependency(p, e[1], e[2], x))
    BY <2>1
  <2>3. c.touched = touched /\ c.result = BreakDependency(p, e[1], e[2], x)
    BY <2>2 DEF Touching
  <2>4. e[1] \in c.touched /\ e[2] \in StepId /\ CanBreakDependency(p, e[1], e[2])
    BY <2>1, <2>2, <2>3
  <2> QED BY <2>2, <2>3, <2>4 DEF ByOneCall
<1>2. CASE c \in closes
  BY <1>2 DEF ByOneCall
<1>3. CASE c \in deletes
  BY <1>3 DEF ByOneCall
<1>4. CASE c \in retools
  BY <1>4 DEF ByOneCall
<1>5. CASE c \in moves
  BY <1>5 DEF ByOneCall
<1>6. CASE c \in copies
  BY <1>6 DEF ByOneCall
<1>7. CASE c \in stops
  BY <1>7 DEF ByOneCall
<1>8. CASE c \in drops
  BY <1>8 DEF ByOneCall
<1>9. CASE c \in matched
  BY <1>9 DEF LengthMatchedTools, ByOneCall
<1> HIDE DEF breaks, closes, deletes, retools, moves, copies, stops, drops, matched
<1> QED BY <1>0, <1>1, <1>2, <1>3, <1>4, <1>5, <1>6, <1>7, <1>8, <1>9

\* A step of that name does something else, under the same name; the rest is as it was.
Rewrites(ss, tt, id, s) ==
  /\ DOMAIN tt = DOMAIN ss
  /\ FirstAt(ss, id) \in DOMAIN ss /\ ss[FirstAt(ss, id)].id = id
  /\ s.id = id /\ tt[FirstAt(ss, id)] = s
  /\ \A k \in DOMAIN ss \ {FirstAt(ss, id)} : tt[k] = ss[k]

LEMMA InputRewritten ==
  ASSUME NEW p \in AgentPlan, NEW id \in Known(p), NEW deps \in SUBSET StepId
  PROVE  LET i == FirstAt(p.steps, id)
             q == [p EXCEPT !.steps[i].input_from = deps]
         IN  /\ q \in AgentPlan /\ q.stop_condition = p.stop_condition
             /\ Rewrites(p.steps, q.steps, id, [p.steps[i] EXCEPT !.input_from = deps])
<1> DEFINE i == FirstAt(p.steps, id)
           s == [p.steps[i] EXCEPT !.input_from = deps]
           ss == [p.steps EXCEPT ![i] = s]
           q == [p EXCEPT !.steps[i].input_from = deps]
<1>1. i \in DOMAIN p.steps /\ p.steps[i].id = id /\ p.steps \in Seq(Step) /\ p.steps[i] \in Step
  BY KnownAt, StepDomain
<1>2. s \in Step /\ s.id = id
  BY <1>1 DEF Step
<1>3. q = [p EXCEPT !.steps = ss]
  OBVIOUS
<1> HIDE DEF s, i, q
<1>4. ss \in Seq(Step) /\ DOMAIN ss = DOMAIN p.steps /\ ss[i] = s /\ \A k \in DOMAIN p.steps \ {i} : ss[k] = p.steps[k]
  BY <1>1, <1>2
<1> HIDE DEF ss
<1>5. q \in AgentPlan /\ q.steps = ss /\ q.stop_condition = p.stop_condition
  BY <1>3, <1>4, StepsReplaced
<1>6. Rewrites(p.steps, q.steps, id, s)
  BY <1>1, <1>2, <1>4, <1>5 DEF Rewrites, i
<1> QED BY <1>5, <1>6 DEF q, s, i

LEMMA ToolRewritten ==
  ASSUME NEW p \in AgentPlan, NEW id \in Known(p), NEW t \in Tool
  PROVE  LET i == FirstAt(p.steps, id)
             q == [p EXCEPT !.steps[i].tool = t]
         IN  /\ q \in AgentPlan /\ q.stop_condition = p.stop_condition
             /\ Rewrites(p.steps, q.steps, id, [p.steps[i] EXCEPT !.tool = t])
<1> DEFINE i == FirstAt(p.steps, id)
           s == [p.steps[i] EXCEPT !.tool = t]
           ss == [p.steps EXCEPT ![i] = s]
           q == [p EXCEPT !.steps[i].tool = t]
<1>1. i \in DOMAIN p.steps /\ p.steps[i].id = id /\ p.steps \in Seq(Step) /\ p.steps[i] \in Step
  BY KnownAt, StepDomain
<1>2. s \in Step /\ s.id = id
  BY <1>1 DEF Step
<1>3. q = [p EXCEPT !.steps = ss]
  OBVIOUS
<1> HIDE DEF s, i, q
<1>4. ss \in Seq(Step) /\ DOMAIN ss = DOMAIN p.steps /\ ss[i] = s /\ \A k \in DOMAIN p.steps \ {i} : ss[k] = p.steps[k]
  BY <1>1, <1>2
<1> HIDE DEF ss
<1>5. q \in AgentPlan /\ q.steps = ss /\ q.stop_condition = p.stop_condition
  BY <1>3, <1>4, StepsReplaced
<1>6. Rewrites(p.steps, q.steps, id, s)
  BY <1>1, <1>2, <1>4, <1>5 DEF Rewrites, i
<1> QED BY <1>5, <1>6 DEF q, s, i

-----------------------------------------------------------------------------
\* What a corruption leaves alone: a step whose name it does not damage is a step of
\* the plan before, is not joined by another one of that name, and consumes nothing
\* that has gone.
Spares(p, q, ids) ==
  \A k \in DOMAIN q.steps : q.steps[k].id \notin ids =>
    /\ \E i \in DOMAIN p.steps : q.steps[k] = p.steps[i]
    /\ \A m \in DOMAIN q.steps : (m # k /\ q.steps[m].id = q.steps[k].id) =>
         \E i, j \in DOMAIN p.steps :
           i # j /\ p.steps[i].id = q.steps[k].id /\ p.steps[j].id = q.steps[k].id
    /\ q.steps[k].input_from \cap Known(p) \subseteq Known(q)

LEMMA RewriteSpares ==
  ASSUME NEW p \in AgentPlan, NEW q \in AgentPlan, NEW id, NEW s, Rewrites(p.steps, q.steps, id, s)
  PROVE  Spares(p, q, {id}) /\ Known(q) = Known(p)
<1>1. \A k \in DOMAIN p.steps : q.steps[k].id = p.steps[k].id
  BY DEF Rewrites
<1>2. Known(q) = Known(p)
  BY <1>1 DEF Known, KnownIds, Rewrites
<1> QED BY <1>1, <1>2 DEF Spares, Rewrites

LEMMA DeletionSpares ==
  ASSUME NEW p \in AgentPlan, NEW id \in Known(p)
  PROVE  LET q == DeleteStep(p, id).broken
             ids == DeleteStep(p, id).injected.damaged_step_ids
         IN  /\ q \in AgentPlan /\ Spares(p, q, ids) /\ Known(q) = Known(p) \ {id}
             /\ \A k \in DOMAIN q.steps : \E i \in DOMAIN p.steps : q.steps[k] = p.steps[i]
             /\ ids = {q.steps[k].id : k \in {j \in DOMAIN q.steps : id \in q.steps[j].input_from}}
             /\ \A k, m \in DOMAIN q.steps : k < m =>
                  \E i, j \in DOMAIN p.steps : i < j /\ q.steps[k] = p.steps[i] /\ q.steps[m] = p.steps[j]
             /\ DeleteStep(p, id).injected =
                  Injected(STEP_DELETION, ids, {InputFromPath(d) : d \in ids})
<1> DEFINE ss == p.steps
           K == DOMAIN ss \ At(ss, id)
           left == Sublist(ss, K)
           q == DeleteStep(p, id).broken
           ids == DeleteStep(p, id).injected.damaged_step_ids
<1>1. ss \in Seq(Step) /\ K \in SUBSET DOMAIN ss
  BY StepDomain
<1>2. /\ left \in Seq(Step)
      /\ \A k \in DOMAIN left : Nth(K, k) \in K /\ left[k] = ss[Nth(K, k)]
      /\ \A k, m \in DOMAIN left : k < m => Nth(K, k) < Nth(K, m)
      /\ \A i \in K : \E k \in DOMAIN left : left[k] = ss[i]
  <2>1. DOMAIN ss = 1 .. Len(ss) /\ Len(ss) \in Nat
    BY <1>1
  <2>2. K \in SUBSET Int /\ IsFiniteSet(K)
    BY <2>1, IndicesAreFinite
  <2> HIDE DEF K
  <2>3. /\ left \in Seq(Step) /\ DOMAIN left = 1 .. Cardinality(K)
        /\ \A k \in DOMAIN left : Nth(K, k) \in K /\ left[k] = ss[Nth(K, k)]
        /\ \A i \in K : Rank(K, i) \in DOMAIN left /\ left[Rank(K, i)] = ss[i]
    BY <1>1, SublistOf
  <2> HIDE DEF left
  <2>4. \A k, m \in 1 .. Cardinality(K) : k < m => Nth(K, k) < Nth(K, m)
    BY <2>2, NthIncreases
  <2> QED BY <2>3, <2>4
<1>3. /\ q = [p EXCEPT !.steps = left]
      /\ ids = {left[k].id : k \in {j \in DOMAIN left : id \in left[j].input_from}}
      /\ DeleteStep(p, id).injected = Injected(STEP_DELETION, ids, {InputFromPath(d) : d \in ids})
  BY DEF DeleteStep, Result, Injected, WithSteps
<1> HIDE DEF left, q, ids
<1>4. q \in AgentPlan /\ q.steps = left
  BY <1>2, <1>3, StepsReplaced
<1>5. Known(q) = Known(p) \ {id}
  <2>1. \A i \in DOMAIN ss : i \in K <=> ss[i].id # id
    BY DEF At
  <2> HIDE DEF K
  <2> QED BY <1>1, <1>2, <1>4, <2>1 DEF Known, KnownIds
<1>6. \A k \in DOMAIN left : \E i \in DOMAIN ss : left[k] = ss[i]
  BY <1>1, <1>2
<1>7. ASSUME NEW k \in DOMAIN left, left[k].id \notin ids
      PROVE  left[k].input_from \cap Known(p) \subseteq Known(q)
  <2>1. id \notin left[k].input_from
    BY <1>3, <1>7
  <2> QED BY <1>5, <2>1
<1>8. ASSUME NEW k \in DOMAIN left, NEW m \in DOMAIN left, m # k, left[m].id = left[k].id
      PROVE  \E i, j \in DOMAIN ss : i # j /\ ss[i].id = left[k].id /\ ss[j].id = left[k].id
  <2>1. DOMAIN left = 1 .. Len(left) /\ DOMAIN ss = 1 .. Len(ss)
    BY <1>1, <1>2
  <2>2. k < m \/ m < k
    BY <1>8, <2>1
  <2>3. Nth(K, k) \in DOMAIN ss /\ Nth(K, m) \in DOMAIN ss
    BY <1>1, <1>2
  <2>4. Nth(K, k) < Nth(K, m) \/ Nth(K, m) < Nth(K, k)
    BY <1>2, <2>2
  <2>5. Nth(K, k) # Nth(K, m)
    BY <2>1, <2>3, <2>4
  <2> QED BY <1>2, <1>8, <2>3, <2>5
<1>9. Spares(p, q, ids)
  BY <1>4, <1>6, <1>7, <1>8 DEF Spares
<1>10. \A k, m \in DOMAIN left : k < m =>
        \E i, j \in DOMAIN ss : i < j /\ left[k] = ss[i] /\ left[m] = ss[j]
  BY <1>1, <1>2
<1> QED BY <1>3, <1>4, <1>5, <1>6, <1>9, <1>10 DEF q, ids

LEMMA EveryPlaceIsFilled ==
  ASSUME NEW n \in Nat, NEW from \in 1 .. n, NEW to \in 1 .. from - 1, NEW i \in 1 .. n
  PROVE  \E k \in 1 .. n : Origin(k, from, to) = i
<1>1. CASE i = from
  <2>1. to \in 1 .. n /\ Origin(to, from, to) = i
    BY <1>1 DEF Origin
  <2> QED BY <2>1
<1>2. CASE i < to \/ i > from
  <2>1. Origin(i, from, to) = i
    BY <1>2 DEF Origin
  <2> QED BY <2>1
<1>3. CASE i >= to /\ i < from
  <2>1. i + 1 \in 1 .. n /\ Origin(i + 1, from, to) = i
    BY <1>3 DEF Origin
  <2> QED BY <2>1
<1> QED BY <1>1, <1>2, <1>3

LEMMA MoveSpares ==
  ASSUME NEW p \in AgentPlan, NEW id \in Known(p), NEW to, CanMove(p, id, to)
  PROVE  LET q == MoveEarlier(p, id, to).broken
         IN  /\ q \in AgentPlan /\ Spares(p, q, {id}) /\ Known(q) = Known(p)
             /\ DOMAIN q.steps = DOMAIN p.steps
             /\ \A k \in DOMAIN p.steps : /\ Origin(k, LastAt(p.steps, id), to) \in DOMAIN p.steps
                                          /\ q.steps[k] = p.steps[Origin(k, LastAt(p.steps, id), to)]
             /\ \A k, m \in DOMAIN p.steps :
                  k # m => Origin(k, LastAt(p.steps, id), to) # Origin(m, LastAt(p.steps, id), to)
             /\ q.steps = Moved(p.steps, LastAt(p.steps, id), to)
<1> DEFINE ss == p.steps
           from == LastAt(ss, id)
           moved == Moved(ss, from, to)
           q == MoveEarlier(p, id, to).broken
<1>1. ss \in Seq(Step) /\ DOMAIN ss = 1 .. Len(ss) /\ Len(ss) \in Nat /\ from \in DOMAIN ss /\ to \in 1 .. from - 1
  BY StepDomain, KnownAt DEF CanMove
<1>2. q = [p EXCEPT !.steps = moved]
  BY DEF MoveEarlier, Result, WithSteps
<1> HIDE DEF q, from
<1>3. /\ moved \in Seq(Step) /\ DOMAIN moved = DOMAIN ss
      /\ \A k \in DOMAIN ss : Origin(k, from, to) \in DOMAIN ss /\ moved[k] = ss[Origin(k, from, to)]
  BY <1>1, MovedIs
<1> HIDE DEF moved
<1>4. q \in AgentPlan /\ q.steps = moved
  BY <1>2, <1>3, StepsReplaced
<1>5. \A i \in DOMAIN ss : \E k \in DOMAIN ss : Origin(k, from, to) = i
  <2>1. Len(ss) \in Nat /\ from \in 1 .. Len(ss) /\ to \in 1 .. from - 1
    BY <1>1
  <2>2. \A i \in 1 .. Len(ss) : \E k \in 1 .. Len(ss) : Origin(k, from, to) = i
    BY <2>1, EveryPlaceIsFilled
  <2> QED BY <1>1, <2>2
<1>6. \A k, m \in DOMAIN ss : k # m => Origin(k, from, to) # Origin(m, from, to)
  BY <1>1 DEF Origin
<1>7. Known(q) = Known(p)
  <2>1. \A i \in DOMAIN ss : \E k \in DOMAIN moved : moved[k] = ss[i]
    BY <1>3, <1>5
  <2>2. \A k \in DOMAIN moved : \E i \in DOMAIN ss : moved[k] = ss[i]
    BY <1>3
  <2> QED BY <1>4, <2>1, <2>2 DEF Known, KnownIds
<1>8. Spares(p, q, {id})
  BY <1>3, <1>4, <1>6, <1>7 DEF Spares
<1> QED BY <1>3, <1>4, <1>6, <1>7, <1>8 DEF q, from, moved

LEMMA CopySpares ==
  ASSUME NEW p \in AgentPlan, NEW id \in Known(p), NEW new_id \in StepId
  PROVE  LET q == Duplicate(p, id, new_id).broken
             i == FirstAt(p.steps, id)
         IN  /\ q \in AgentPlan /\ Spares(p, q, {new_id}) /\ Known(q) = Known(p) \cup {new_id}
             /\ i \in DOMAIN p.steps /\ DOMAIN q.steps = 1 .. Len(p.steps) + 1
             /\ \A k \in DOMAIN q.steps : q.steps[k] =
                  IF k <= i THEN p.steps[k]
                  ELSE IF k = i + 1 THEN [p.steps[i] EXCEPT !.id = new_id] ELSE p.steps[k - 1]
<1> DEFINE ss == p.steps
           n == Len(ss)
           i == FirstAt(ss, id)
           s == [ss[i] EXCEPT !.id = new_id]
           tt == InsertAt(ss, i + 1, s)
           q == Duplicate(p, id, new_id).broken
<1>1. ss \in Seq(Step) /\ DOMAIN ss = 1 .. n /\ n \in Nat /\ i \in DOMAIN ss /\ ss[i] \in Step
  BY StepDomain, KnownAt
<1>2. s \in Step /\ s.id = new_id
  BY <1>1 DEF Step
<1>3. q = [p EXCEPT !.steps = tt]
  BY DEF Duplicate, Result, WithSteps
<1> HIDE DEF q, s, i
<1>4. /\ tt \in Seq(Step) /\ DOMAIN tt = 1 .. n + 1
      /\ \A k \in DOMAIN tt : tt[k] = IF k <= i THEN ss[k] ELSE IF k = i + 1 THEN s ELSE ss[k - 1]
  <2> DEFINE at == i + 1
  <2>1. at \in 1 .. n + 1 /\ n \in Nat
    BY <1>1
  <2> HIDE DEF at
  <2>2. /\ tt \in Seq(Step) /\ Len(tt) = n + 1
        /\ \A k \in 1 .. n + 1 :
             tt[k] = IF k < at THEN ss[k] ELSE IF k = at THEN s ELSE ss[k - 1]
    <3>1. tt = InsertAt(ss, at, s)
      BY DEF at
    <3> HIDE DEF tt
    <3>2. ss \in Seq(Step) /\ at \in 1 .. Len(ss) + 1 /\ s \in Step
      BY <1>1, <1>2, <2>1
    <3> HIDE DEF ss
    <3>3. /\ InsertAt(ss, at, s) \in Seq(Step) /\ Len(InsertAt(ss, at, s)) = Len(ss) + 1
          /\ \A k \in 1 .. Len(ss) + 1 :
               InsertAt(ss, at, s)[k] = IF k < at THEN ss[k] ELSE IF k = at THEN s ELSE ss[k - 1]
      BY <3>2, InsertedIs
    <3> QED BY <3>1, <3>3
  <2> HIDE DEF tt
  <2>3. DOMAIN tt = 1 .. n + 1
    BY <1>1, <2>2
  <2> QED BY <1>1, <2>2, <2>3 DEF at
<1> HIDE DEF tt
<1>5. q \in AgentPlan /\ q.steps = tt
  BY <1>3, <1>4, StepsReplaced
<1> DEFINE was(k) == IF k <= i THEN k ELSE k - 1
<1>6. ASSUME NEW k \in DOMAIN tt, k # i + 1
      PROVE  was(k) \in DOMAIN ss /\ tt[k] = ss[was(k)]
  BY <1>1, <1>4, <1>6
<1>7. \A j \in DOMAIN ss : \E k \in DOMAIN tt : tt[k] = ss[j]
  <2> SUFFICES ASSUME NEW j \in DOMAIN ss PROVE \E k \in DOMAIN tt : tt[k] = ss[j]
    OBVIOUS
  <2>1. CASE j <= i
    BY <1>1, <1>4, <2>1
  <2>2. CASE j > i
    <3>1. j + 1 \in DOMAIN tt /\ j + 1 # i + 1 /\ was(j + 1) = j
      BY <1>1, <1>4, <2>2
    <3> QED BY <1>6, <3>1
  <2> QED BY <1>1, <2>1, <2>2
<1>8. Known(q) = Known(p) \cup {new_id}
  <2>1. i + 1 \in DOMAIN tt /\ tt[i + 1].id = new_id
    BY <1>1, <1>2, <1>4
  <2>2. \A k \in DOMAIN tt : tt[k].id \in Known(p) \cup {new_id}
    BY <1>6, <2>1 DEF Known, KnownIds
  <2> QED BY <1>5, <1>7, <2>1, <2>2 DEF Known, KnownIds
<1>9. Spares(p, q, {new_id})
  <2>1. ASSUME NEW k \in DOMAIN tt, tt[k].id # new_id PROVE k # i + 1
    BY <1>1, <1>2, <1>4, <2>1
  <2>2. ASSUME NEW k \in DOMAIN tt, NEW m \in DOMAIN tt, k # i + 1, m # i + 1, k # m
        PROVE  was(k) # was(m)
    BY <1>1, <1>4, <2>2
  <2> HIDE DEF was
  <2> QED BY <1>5, <1>6, <1>8, <2>1, <2>2 DEF Spares
<1> QED BY <1>1, <1>4, <1>5, <1>8, <1>9 DEF q, s, i

\* The names made up for a reference or a copy are names, and are free.
LEMMA FreeNames ==
  ASSUME NEW p, NEW id \in StepId, NEW names \in [StepId -> Seq(StepId)], NEW x \in FreeIds(p, names[id])
  PROVE  x \in StepId /\ x \notin Known(p)
<1> DEFINE candidates == names[id]
<1>1. candidates \in Seq(StepId)
  OBVIOUS
<1> HIDE DEF candidates
<1>2. \A k \in DOMAIN candidates : candidates[k] \in StepId
  BY <1>1
<1> QED BY <1>2, Zenon DEF FreeIds, candidates

LEMMA NamesAreNames ==
  ASSUME NEW p \in AgentPlan
  PROVE  Known(p) \subseteq StepId
  BY StepDomain DEF Known, KnownIds, Step

\* Dropping a requirement deletes the one step that produces it.
LEMMA RequirementDropped ==
  ASSUME NEW p \in AgentPlan, NEW r, CanDropRequired(p, r)
  PROVE  \E id \in Known(p) :
           /\ DropRequired(p, r).broken = DeleteStep(p, id).broken
           /\ DropRequired(p, r).injected.damaged_step_ids = DeleteStep(p, id).injected.damaged_step_ids
<1> DEFINE producer == CHOOSE i \in Producers(p, r) : TRUE
           id == p.steps[producer].id
<1>1. Producers(p, r) # {}
  <2>1. Cardinality(Producers(p, r)) = 1
    BY DEF CanDropRequired
  <2> QED BY <2>1, FS_EmptySet
<1>2. producer \in DOMAIN p.steps
  BY <1>1 DEF Producers
<1> HIDE DEF producer
<1>3. id \in Known(p)
  BY <1>2 DEF Known, KnownIds
<1>4. /\ DropRequired(p, r).broken = DeleteStep(p, id).broken
      /\ DropRequired(p, r).injected.damaged_step_ids = DeleteStep(p, id).injected.damaged_step_ids
  BY DEF DropRequired, Result, Injected, producer
<1> QED BY <1>3, <1>4

LEMMA CorruptionSpares ==
  ASSUME NEW p \in AgentPlan, NEW c, ByOneCall(p, c)
  PROVE  LET q == c.result.broken
             ids == c.result.injected.damaged_step_ids
         IN  q \in AgentPlan /\ Spares(p, q, ids)
<1> DEFINE q == c.result.broken
           ids == c.result.injected.damaged_step_ids
           Goal == q \in AgentPlan /\ Spares(p, q, ids)
<1>0. Known(p) \subseteq StepId
  BY NamesAreNames
<1>1. ASSUME NEW id \in c.touched, NEW dep \in StepId, NEW x \in FreeIds(p, UnknownNames[dep]),
             CanBreakDependency(p, id, dep), c.result = BreakDependency(p, id, dep, x)
      PROVE  Goal
  <2> DEFINE i == FirstAt(p.steps, id)
             deps == (p.steps[i].input_from \ {dep}) \cup {x}
  <2>1. id \in Known(p) /\ x \in StepId
    BY <1>1, FreeNames, InjectorAssumption DEF CanBreakDependency
  <2>2. p.steps[i] \in Step
    BY <2>1, KnownAt, StepDomain
  <2>3. deps \in SUBSET StepId
    BY <2>1, <2>2 DEF Step
  <2>4. q = [p EXCEPT !.steps[i].input_from = deps] /\ ids = {id}
    BY <1>1 DEF BreakDependency, Result, Injected
  <2> HIDE DEF deps, q, ids
  <2>5. q \in AgentPlan /\ Rewrites(p.steps, q.steps, id, [p.steps[i] EXCEPT !.input_from = deps])
    BY <2>1, <2>3, <2>4, InputRewritten
  <2> QED BY <2>4, <2>5, RewriteSpares
<1>2. ASSUME NEW id \in Known(p), NEW with \in Known(p), c.result = CloseCycle(p, id, with)
      PROVE  Goal
  <2> DEFINE i == FirstAt(p.steps, id)
             deps == p.steps[i].input_from \cup {with}
  <2>1. p.steps[i] \in Step
    BY KnownAt, StepDomain
  <2>2. deps \in SUBSET StepId
    BY <1>0, <2>1 DEF Step
  <2>3. q = [p EXCEPT !.steps[i].input_from = deps] /\ ids = {id}
    BY <1>2 DEF CloseCycle, Result, Injected
  <2> HIDE DEF deps, q, ids
  <2>4. q \in AgentPlan /\ Rewrites(p.steps, q.steps, id, [p.steps[i] EXCEPT !.input_from = deps])
    BY <2>2, <2>3, InputRewritten
  <2> QED BY <2>3, <2>4, RewriteSpares
<1>3. ASSUME NEW id \in Known(p), c.result = DeleteStep(p, id)
      PROVE  Goal
  BY <1>3, DeletionSpares
<1>4. ASSUME NEW id \in Known(p), NEW t \in Tool, c.result = SetTool(p, id, t)
      PROVE  Goal
  <2>1. q = [p EXCEPT !.steps[FirstAt(p.steps, id)].tool = t] /\ ids = {id}
    BY <1>4 DEF SetTool, Result, Injected
  <2> HIDE DEF q, ids
  <2>2. q \in AgentPlan
        /\ Rewrites(p.steps, q.steps, id, [p.steps[FirstAt(p.steps, id)] EXCEPT !.tool = t])
    BY <2>1, ToolRewritten
  <2> QED BY <2>1, <2>2, RewriteSpares
<1>5. ASSUME NEW id \in Known(p), NEW to, CanMove(p, id, to), c.result = MoveEarlier(p, id, to)
      PROVE  Goal
  <2>1. ids = {id} /\ q = MoveEarlier(p, id, to).broken
    BY <1>5 DEF MoveEarlier, Result, Injected
  <2> HIDE DEF q, ids
  <2> QED BY <1>5, <2>1, MoveSpares
<1>6. ASSUME NEW id \in Known(p), NEW new_id \in {id} \cup FreeIds(p, CopyNames[id]),
             c.result = Duplicate(p, id, new_id)
      PROVE  Goal
  <2>1. ids = {new_id} /\ q = Duplicate(p, id, new_id).broken
    BY <1>6 DEF Duplicate, Result, Injected
  <2>2. new_id \in StepId
    BY <1>0, FreeNames, InjectorAssumption
  <2> HIDE DEF q, ids
  <2> QED BY <1>6, <2>1, <2>2, CopySpares
<1>7. ASSUME c.result = DropStop(p)
      PROVE  Goal
  <2>1. q = [p EXCEPT !.stop_condition = "none"]
    BY <1>7 DEF DropStop, Result
  <2>2. q \in AgentPlan /\ q.steps = p.steps
    BY <2>1 DEF AgentPlan, StopCondition
  <2> QED BY <2>2 DEF Spares, Known
<1>8. ASSUME NEW r, CanDropRequired(p, r), c.result = DropRequired(p, r)
      PROVE  Goal
  <2>1. PICK id \in Known(p) :
          q = DeleteStep(p, id).broken /\ ids = DeleteStep(p, id).injected.damaged_step_ids
    BY <1>8, RequirementDropped
  <2> HIDE DEF q, ids
  <2> QED BY <2>1, DeletionSpares
<1> HIDE DEF Goal
<1> QED
  <2>1. Goal
    BY <1>1, <1>2, <1>3, <1>4, <1>5, <1>6, <1>7, <1>8 DEF ByOneCall, Touching
  <2> QED BY <2>1 DEF Goal

-----------------------------------------------------------------------------
(***************************************************************************)
(* A valid plan: no two steps share a name or do the same, every reference *)
(* points back to a step.                                                  *)
(***************************************************************************)
Sound(ss) ==
  /\ \A i \in DOMAIN ss : ss[i].tool \in Available /\ ss[i].input_from \subseteq KnownIds(ss)
  /\ UniqueIds(ss) /\ \A i, j \in DOMAIN ss : Body(ss[i]) = Body(ss[j]) => i = j
  /\ CycleErrors(ss) = {} /\ OrderingErrors(ss) = {}

LEMMA ValidIsSound ==
  ASSUME NEW p \in AgentPlan, Valid(p)
  PROVE  Sound(p.steps)
<1> DEFINE ss == p.steps
<1>1. /\ UnknownTools(ss) = {} /\ UnknownDependencies(ss) = {} /\ CycleErrors(ss) = {}
      /\ DuplicateErrors(ss) = {}
      /\ CycleErrors(ss) = {} => OrderingErrors(ss) = {}
  BY DEF Valid, Errors
<1>2. \A i \in DOMAIN ss : ss[i].tool \in Available
  BY <1>1, Zenon DEF UnknownTools
<1>3. \A i \in DOMAIN ss : MissingDeps(ss, i) = {}
  BY <1>1, Zenon DEF UnknownDependencies
<1>4. /\ \A i \in DOMAIN ss : ~ \E k \in DOMAIN ss \ {i} : ss[k].id = ss[i].id
      /\ \A i \in DOMAIN ss : ~ \E k \in DOMAIN ss \ {i} : Body(ss[k]) = Body(ss[i])
  <2>1. DuplicateErrors(ss) = {}
    BY <1>1
  <2> QED BY <2>1 DEF DuplicateErrors
<1>5. UniqueIds(ss) /\ \A i, j \in DOMAIN ss : Body(ss[i]) = Body(ss[j]) => i = j
  BY <1>4 DEF UniqueIds
<1>6. \A i \in DOMAIN ss : ss[i].input_from \subseteq KnownIds(ss)
  BY <1>3 DEF MissingDeps
<1> QED BY <1>1, <1>2, <1>5, <1>6 DEF Sound

(***************************************************************************)
(* What the record of the corruptions says, however many there were.       *)
(***************************************************************************)
LEMMA DamageAdds ==
  ASSUME NEW S, injected \in Seq(S), NEW e, injected' = Append(injected, e)
  PROVE  /\ injected' \in Seq(S \cup {e}) /\ Len(injected') = Len(injected) + 1
         /\ Damaged' = Damaged \cup e.damaged_step_ids
         /\ Types' = Types \cup {e.corruption_type}
<1>1. /\ injected' \in Seq(S \cup {e}) /\ Len(injected') = Len(injected) + 1
      /\ DOMAIN injected' = 1 .. Len(injected) + 1 /\ DOMAIN injected = 1 .. Len(injected)
      /\ Len(injected) \in Nat /\ injected'[Len(injected) + 1] = e
      /\ \A k \in 1 .. Len(injected) : injected'[k] = injected[k]
  OBVIOUS
<1>2. DOMAIN injected' = DOMAIN injected \cup {Len(injected) + 1}
  BY <1>1
<1>3. Damaged' = Damaged \cup e.damaged_step_ids
  BY <1>1, <1>2 DEF Damaged
<1>4. Types' = Types \cup {e.corruption_type}
  BY <1>1, <1>2 DEF Types
<1> QED BY <1>1, <1>3, <1>4

IsList(s) == s \in Seq({s[k] : k \in DOMAIN s})

\* What a corruption does not name is as the reference has it: the step is one of the
\* reference's, has its name to itself, and everything it consumes is still there.
GroundInv ==
  /\ reference \in AgentPlan /\ broken \in AgentPlan /\ Sound(reference.steps)
  /\ IsList(injected)
  /\ \A k \in DOMAIN broken.steps : broken.steps[k].id \notin Damaged =>
       /\ \E i \in DOMAIN reference.steps : broken.steps[k] = reference.steps[i]
       /\ At(broken.steps, broken.steps[k].id) = {k}
       /\ broken.steps[k].input_from \subseteq Known(broken)

LEMMA CorruptionKeepsGround ==
  ASSUME GroundInv, NEW c, ByOneCall(broken, c), Apply(c)
  PROVE  GroundInv'
<1> DEFINE q == c.result.broken
           e == c.result.injected
           ids == e.damaged_step_ids
           S == {injected[k] : k \in DOMAIN injected}
<1>1. /\ reference \in AgentPlan /\ broken \in AgentPlan /\ Sound(reference.steps) /\ injected \in Seq(S)
      /\ broken' = q /\ injected' = Append(injected, e) /\ reference' = reference
  BY DEF GroundInv, Apply, IsList
<1>2. q \in AgentPlan /\ Spares(broken, q, ids)
  BY <1>1, CorruptionSpares
<1> HIDE DEF q, S, e
<1>3. injected' \in Seq(S \cup {e}) /\ Damaged' = Damaged \cup ids
  BY <1>1, DamageAdds
<1>4. IsList(injected')
  BY <1>3 DEF IsList
<1>5. ASSUME NEW k \in DOMAIN q.steps, q.steps[k].id \notin Damaged'
      PROVE  /\ \E i \in DOMAIN reference.steps : q.steps[k] = reference.steps[i]
             /\ At(q.steps, q.steps[k].id) = {k}
             /\ q.steps[k].input_from \subseteq Known(q)
  <2>1. q.steps[k].id \notin Damaged /\ q.steps[k].id \notin ids
    BY <1>3, <1>5
  <2>2. /\ \E i \in DOMAIN broken.steps : q.steps[k] = broken.steps[i]
        /\ \A m \in DOMAIN q.steps : (m # k /\ q.steps[m].id = q.steps[k].id) =>
             \E i, j \in DOMAIN broken.steps :
               i # j /\ broken.steps[i].id = q.steps[k].id /\ broken.steps[j].id = q.steps[k].id
        /\ q.steps[k].input_from \cap Known(broken) \subseteq Known(q)
    BY <1>2, <2>1 DEF Spares
  <2>3. PICK i \in DOMAIN broken.steps : q.steps[k] = broken.steps[i]
    BY <2>2
  <2>4. /\ \E r \in DOMAIN reference.steps : broken.steps[i] = reference.steps[r]
        /\ At(broken.steps, broken.steps[i].id) = {i}
        /\ broken.steps[i].input_from \subseteq Known(broken)
    BY <2>1, <2>3 DEF GroundInv
  <2>5. \A m \in DOMAIN q.steps : q.steps[m].id = q.steps[k].id => m = k
    BY <2>2, <2>3, <2>4 DEF At
  <2>6. At(q.steps, q.steps[k].id) = {k}
    BY <2>5 DEF At
  <2> QED BY <2>2, <2>3, <2>4, <2>6
<1> QED BY <1>1, <1>2, <1>4, <1>5 DEF GroundInv

LEMMA BodyOfTheOnly ==
  ASSUME NEW p, NEW k \in DOMAIN p.steps, At(p.steps, p.steps[k].id) = {k}
  PROVE  p.steps[k].id \in Known(p) /\ Bodies(p)[p.steps[k].id] = {Body(p.steps[k])}
<1>1. p.steps[k].id \in KnownIds(p.steps)
  BY DEF KnownIds
<1>2. Cardinality(At(p.steps, p.steps[k].id)) = 1
  BY FS_Singleton
<1> QED BY <1>1, <1>2 DEF Bodies, Known

-----------------------------------------------------------------------------
(***************************************************************************)
(* What a fault makes the validator say.                                   *)
(***************************************************************************)
\* A report names these steps and these paths.
Names(errs, ids, paths) == ids \subseteq DetectedStepIds(errs) /\ paths \subseteq DetectedPaths(errs)

LEMMA ErrorNames ==
  ASSUME NEW errs, NEW t, NEW ids, NEW paths, NEW kind, Error(t, ids, paths, kind) \in errs
  PROVE  Names(errs, ids, paths)
<1> DEFINE e == Error(t, ids, paths, kind)
<1>1. e \in errs /\ e.step_ids = ids /\ e.paths = paths
  BY DEF Error
<1> HIDE DEF e
<1> QED BY <1>1 DEF Names, DetectedStepIds, DetectedPaths

LEMMA ChecksAreReported ==
  ASSUME NEW p
  PROVE  /\ UnknownTools(p.steps) \subseteq Errors(p) /\ UnknownDependencies(p.steps) \subseteq Errors(p)
         /\ CycleErrors(p.steps) \subseteq Errors(p) /\ DuplicateErrors(p.steps) \subseteq Errors(p)
         /\ MissingStop(p) \subseteq Errors(p) /\ CoverageErrors(p.steps) \subseteq Errors(p)
         /\ CycleErrors(p.steps) = {} => OrderingErrors(p.steps) \subseteq Errors(p)
  BY DEF Errors

LEMMA UnknownToolIsReported ==
  ASSUME NEW p, NEW k \in DOMAIN p.steps, p.steps[k].tool \notin Available
  PROVE  Names(Errors(p), {p.steps[k].id}, {ToolPath(p.steps[k].id)})
<1>1. Error(UNKNOWN_TOOL, {p.steps[k].id}, {ToolPath(p.steps[k].id)}, "") \in UnknownTools(p.steps)
  BY Zenon DEF UnknownTools
<1> QED BY <1>1, ChecksAreReported, ErrorNames

LEMMA MissingDepIsReported ==
  ASSUME NEW p, NEW k \in DOMAIN p.steps, NEW d \in p.steps[k].input_from, d \notin Known(p)
  PROVE  Names(Errors(p), {p.steps[k].id}, {InputFromPath(p.steps[k].id)})
<1>1. MissingDeps(p.steps, k) # {}
  BY DEF MissingDeps, Known
<1>2. Error(UNKNOWN_DEPENDENCY, {p.steps[k].id}, {InputFromPath(p.steps[k].id)}, "")
        \in UnknownDependencies(p.steps)
  BY <1>1, Zenon DEF UnknownDependencies
<1> QED BY <1>2, ChecksAreReported, ErrorNames

LEMMA UncleanIsReported ==
  ASSUME NEW p, NEW i \in DOMAIN p.steps, MissingDeps(p.steps, i) # {}
  PROVE  p.steps[i].id \in DetectedStepIds(OfType(Errors(p), UNKNOWN_DEPENDENCY))
<1> DEFINE e == Error(UNKNOWN_DEPENDENCY, {p.steps[i].id}, {InputFromPath(p.steps[i].id)}, "")
<1>1. e \in UnknownDependencies(p.steps)
  BY DEF UnknownDependencies
<1>2. e.step_ids = {p.steps[i].id}
  BY DEF Error
<1>3. OfType(Errors(p), UNKNOWN_DEPENDENCY) = UnknownDependencies(p.steps)
  BY ReportByCheck
<1> HIDE DEF e
<1> QED BY <1>1, <1>2, <1>3 DEF DetectedStepIds

LEMMA LateDepIsReported ==
  ASSUME NEW p, CycleErrors(p.steps) = {}, NEW k \in DOMAIN p.steps, LateDeps(p.steps, k) # {}
  PROVE  Names(Errors(p), {p.steps[k].id}, {StepPath(p.steps[k].id)})
<1> DEFINE ids == {p.steps[k].id} \cup LateDeps(p.steps, k)
<1>1. Error(ORDERING, ids, {StepPath(p.steps[k].id)}, "") \in OrderingErrors(p.steps)
  BY Zenon DEF OrderingErrors
<1>2. Names(Errors(p), ids, {StepPath(p.steps[k].id)})
  BY <1>1, ChecksAreReported, ErrorNames
<1> QED BY <1>2 DEF Names

LEMMA CopyIsReported ==
  ASSUME NEW p, NEW k \in DOMAIN p.steps, NEW m \in DOMAIN p.steps, k # m,
         Body(p.steps[k]) = Body(p.steps[m])
  PROVE  Names(Errors(p), {p.steps[k].id}, {StepPath(p.steps[k].id)})
<1> DEFINE ids == SameWork(p.steps, k)
           paths == {StepPath(id) : id \in SameWork(p.steps, k)}
<1>1. \E j \in DOMAIN p.steps \ {k} : Body(p.steps[j]) = Body(p.steps[k])
  OBVIOUS
<1>2. Error(DUPLICATE_STEP, ids, paths, "identical_content") \in DuplicateErrors(p.steps)
  BY <1>1, Zenon DEF DuplicateErrors
<1>3. p.steps[k].id \in ids
  BY DEF SameWork
<1>4. StepPath(p.steps[k].id) \in paths
  BY <1>3
<1> HIDE DEF ids, paths
<1>5. Names(Errors(p), ids, paths)
  BY <1>2, ChecksAreReported, ErrorNames
<1> QED BY <1>3, <1>4, <1>5 DEF Names

LEMMA CycleIsReported ==
  ASSUME NEW p, NEW id \in Known(p), id \in Upstream(Edges(p.steps), id)
  PROVE  Names(Errors(p), {id}, {InputFromPath(id)}) /\ CycleErrors(p.steps) # {}
<1> DEFINE edges == Edges(p.steps)
           up == [x \in DOMAIN edges |-> Upstream(edges, x)]
           C == {y \in up[id] : id \in up[y]}
           paths == {InputFromPath(x) : x \in C}
<1>1. id \in DOMAIN edges
  BY DEF Edges, Known
<1> HIDE DEF edges
<1>2. id \in {x \in DOMAIN edges : x \in up[x]} /\ id \in C
  BY <1>1 DEF edges
<1>3. C \in CyclicComponents(edges)
  BY <1>2, Zenon DEF CyclicComponents
<1> HIDE DEF C
<1>4. Error(DEP_CYCLE, C, paths, "") \in CycleErrors(p.steps)
  BY <1>3, Zenon DEF CycleErrors, edges
<1>5. InputFromPath(id) \in paths
  BY <1>2
<1> HIDE DEF paths
<1>6. Names(Errors(p), C, paths)
  BY <1>4, ChecksAreReported, ErrorNames
<1> QED BY <1>2, <1>4, <1>5, <1>6 DEF Names

\* Without a name for two steps, the dict of edges has what each step consumes.
LEMMA EdgesOfUnique ==
  ASSUME NEW p \in AgentPlan, UniqueIds(p.steps), NEW k \in DOMAIN p.steps
  PROVE  /\ FirstAt(p.steps, p.steps[k].id) = k /\ LastAt(p.steps, p.steps[k].id) = k
         /\ Edges(p.steps)[p.steps[k].id] = p.steps[k].input_from \cap Known(p)
         /\ Edges(p.steps) \in [Known(p) -> SUBSET Known(p)]
<1>1. p.steps[k].id \in Known(p)
  BY DEF Known, KnownIds
<1>2. \A i \in DOMAIN p.steps : p.steps[i].id = p.steps[k].id => i = k
  BY DEF UniqueIds
<1>3. FirstAt(p.steps, p.steps[k].id) = k /\ LastAt(p.steps, p.steps[k].id) = k
  BY <1>1, <1>2, KnownAt
<1> QED BY <1>1, <1>3 DEF Edges, Known

LEMMA BreakIsReported ==
  ASSUME NEW p \in AgentPlan, Sound(p.steps), NEW id, NEW dep \in StepId,
         NEW x \in FreeIds(p, UnknownNames[dep]), CanBreakDependency(p, id, dep)
  PROVE  LET q == BreakDependency(p, id, dep, x).broken
         IN  Names(Errors(q), {id}, {InputFromPath(id)}) /\ ORDERING \notin ErrorTypes(Errors(q))
<1> DEFINE i == FirstAt(p.steps, id)
           deps == (p.steps[i].input_from \ {dep}) \cup {x}
           s == [p.steps[i] EXCEPT !.input_from = deps]
           q == BreakDependency(p, id, dep, x).broken
<1>1. id \in Known(p) /\ x \in StepId /\ x \notin Known(p)
  BY FreeNames, InjectorAssumption DEF CanBreakDependency
<1>2. p.steps[i] \in Step
  BY <1>1, KnownAt, StepDomain
<1>3. deps \in SUBSET StepId /\ s.input_from = deps
  BY <1>1, <1>2 DEF Step
<1>4. q = [p EXCEPT !.steps[i].input_from = deps]
  BY DEF BreakDependency, Result
<1>5. /\ deps \subseteq p.steps[i].input_from \cup {x} /\ x \in deps
      /\ s = [p.steps[i] EXCEPT !.input_from = deps]
  OBVIOUS
<1> HIDE DEF deps, q, s
<1>6. q \in AgentPlan /\ Rewrites(p.steps, q.steps, id, s)
  <2>1. q \in AgentPlan /\ Rewrites(p.steps, q.steps, id, [p.steps[i] EXCEPT !.input_from = deps])
    BY <1>1, <1>3, <1>4, InputRewritten
  <2> QED BY <1>5, <2>1
<1>7. Known(q) = Known(p)
  BY <1>6, RewriteSpares
<1>8. /\ i \in DOMAIN q.steps /\ q.steps[i].id = id /\ q.steps[i].input_from = deps
      /\ DOMAIN q.steps = DOMAIN p.steps /\ \A k \in DOMAIN p.steps : q.steps[k].id = p.steps[k].id
      /\ \A k \in DOMAIN p.steps : k # i => q.steps[k] = p.steps[k]
  BY <1>3, <1>6 DEF Rewrites
<1>9. Names(Errors(q), {id}, {InputFromPath(id)})
  BY <1>1, <1>5, <1>7, <1>8, MissingDepIsReported
<1>10. Ordered(q.steps)
  <2>1. Ordered(p.steps)
    BY OrderedIsUnreported DEF Sound
  <2>2. \A k \in DOMAIN p.steps : q.steps[k].input_from \subseteq p.steps[k].input_from \cup {x}
    BY <1>5, <1>8
  <2>3. \A k \in DOMAIN p.steps : q.steps[k].id # x
    BY <1>1, <1>8 DEF Known, KnownIds
  <2> QED BY <1>8, <2>1, <2>2, <2>3 DEF Ordered
<1>11. ORDERING \notin ErrorTypes(Errors(q))
  BY <1>10, OrderedIsUnreported, ReportByCheck
<1> QED BY <1>9, <1>11 DEF q

LEMMA ClosedCycleIsReported ==
  ASSUME NEW p \in AgentPlan, Sound(p.steps), NEW id \in Known(p), NEW with \in Known(p),
         CanCloseCycle(p, id, with)
  PROVE  LET q == CloseCycle(p, id, with).broken
         IN  Names(Errors(q), {id}, {InputFromPath(id)}) /\ CycleErrors(q.steps) # {}
<1> DEFINE i == FirstAt(p.steps, id)
           deps == p.steps[i].input_from \cup {with}
           s == [p.steps[i] EXCEPT !.input_from = deps]
           q == CloseCycle(p, id, with).broken
           X == Known(p)
           before == Edges(p.steps)
           after == Edges(q.steps)
<1>1. p.steps[i] \in Step /\ i \in DOMAIN p.steps /\ p.steps[i].id = id /\ X \subseteq StepId
  BY KnownAt, StepDomain, NamesAreNames
<1>2. deps \in SUBSET StepId /\ s.input_from = deps
  BY <1>1 DEF Step
<1>3. q = [p EXCEPT !.steps[i].input_from = deps] /\ s = [p.steps[i] EXCEPT !.input_from = deps]
  BY DEF CloseCycle, Result
<1>4. p.steps[i].input_from \subseteq deps /\ with \in deps
  OBVIOUS
<1> HIDE DEF deps, q, s
<1>5. q \in AgentPlan /\ Rewrites(p.steps, q.steps, id, s)
  <2>1. q \in AgentPlan /\ Rewrites(p.steps, q.steps, id, [p.steps[i] EXCEPT !.input_from = deps])
    BY <1>2, <1>3, InputRewritten
  <2> QED BY <1>3, <2>1
<1>6. Known(q) = X
  BY <1>5, RewriteSpares
<1>7. /\ DOMAIN q.steps = DOMAIN p.steps /\ \A k \in DOMAIN p.steps : q.steps[k].id = p.steps[k].id
      /\ \A k \in DOMAIN p.steps : p.steps[k].input_from \subseteq q.steps[k].input_from
      /\ with \in q.steps[i].input_from
  BY <1>2, <1>4, <1>5 DEF Rewrites
<1>8. UniqueIds(p.steps) /\ UniqueIds(q.steps)
  BY <1>7 DEF Sound, UniqueIds
<1>9. /\ before \in [X -> SUBSET X] /\ after \in [X -> SUBSET X]
      /\ \A y \in X : before[y] \subseteq after[y]
      /\ with \in after[id]
  <2>1. before \in [X -> SUBSET X] /\ after \in [X -> SUBSET X]
    BY <1>1, <1>5, <1>6, <1>7, <1>8, EdgesOfUnique
  <2>2. \A k \in DOMAIN p.steps :
          /\ before[p.steps[k].id] = p.steps[k].input_from \cap X
          /\ after[p.steps[k].id] = q.steps[k].input_from \cap X
    <3>1. \A k \in DOMAIN p.steps : before[p.steps[k].id] = p.steps[k].input_from \cap X
      BY <1>8, EdgesOfUnique
    <3>2. \A k \in DOMAIN q.steps : after[q.steps[k].id] = q.steps[k].input_from \cap X
      BY <1>5, <1>6, <1>8, EdgesOfUnique
    <3> QED BY <1>7, <3>1, <3>2
  <2>3. ASSUME NEW y \in X PROVE before[y] \subseteq after[y]
    <3>1. PICK k \in DOMAIN p.steps : p.steps[k].id = y
      BY DEF Known, KnownIds
    <3> HIDE DEF before, after
    <3> QED BY <1>7, <2>2, <3>1
  <2>4. with \in after[id]
    <3> HIDE DEF before, after
    <3> QED BY <1>1, <1>7, <2>2
  <2> QED BY <2>1, <2>3, <2>4
<1>10. id \in Upstream(before, with)
  BY DEF CanCloseCycle
<1> HIDE DEF before, after, X
<1>11. id \in X /\ with \in X
  BY DEF X
<1>12. /\ Upstream(after, id) \subseteq X /\ after[id] \subseteq Upstream(after, id)
       /\ \A y \in Upstream(after, id) : after[y] \subseteq Upstream(after, id)
  BY <1>9, <1>11, UpstreamIsClosed
<1>13. Upstream(before, with) \subseteq Upstream(after, id)
  <2> DEFINE U == Upstream(after, id)
  <2>1. /\ U \in SUBSET X /\ with \in U /\ before[with] \subseteq U
        /\ \A y \in U : before[y] \subseteq U
    BY <1>9, <1>11, <1>12
  <2> HIDE DEF U
  <2>2. Upstream(before, with) \subseteq U
    BY <1>9, <1>11, <2>1, UpstreamIsLeast
  <2> QED BY <2>2 DEF U
<1>14. id \in Upstream(after, id) /\ id \in Known(q)
  BY <1>6, <1>10, <1>11, <1>13
<1>15. Names(Errors(q), {id}, {InputFromPath(id)}) /\ CycleErrors(q.steps) # {}
  BY <1>14, CycleIsReported DEF after
<1> QED BY <1>15 DEF q

LEMMA DeletionIsReported ==
  ASSUME NEW p \in AgentPlan, Sound(p.steps), NEW id \in Known(p)
  PROVE  LET q == DeleteStep(p, id).broken
             e == DeleteStep(p, id).injected
         IN  Names(Errors(q), e.damaged_step_ids, e.damaged_paths) /\ ORDERING \notin ErrorTypes(Errors(q))
<1> DEFINE q == DeleteStep(p, id).broken
           e == DeleteStep(p, id).injected
           ids == e.damaged_step_ids
<1>1. /\ Known(q) = Known(p) \ {id}
      /\ ids = {q.steps[k].id : k \in {j \in DOMAIN q.steps : id \in q.steps[j].input_from}}
      /\ \A k, m \in DOMAIN q.steps : k < m =>
           \E i, j \in DOMAIN p.steps : i < j /\ q.steps[k] = p.steps[i] /\ q.steps[m] = p.steps[j]
      /\ e = Injected(STEP_DELETION, ids, {InputFromPath(d) : d \in ids}) /\ q \in AgentPlan
  BY DeletionSpares
<1>2. e.damaged_paths = {InputFromPath(d) : d \in ids}
  BY <1>1 DEF Injected
<1> HIDE DEF q, e
<1>3. ASSUME NEW d \in ids PROVE Names(Errors(q), {d}, {InputFromPath(d)})
  <2>1. PICK k \in DOMAIN q.steps : q.steps[k].id = d /\ id \in q.steps[k].input_from
    BY <1>1
  <2> QED BY <1>1, <2>1, MissingDepIsReported
<1>4. Names(Errors(q), ids, {InputFromPath(d) : d \in ids})
  BY <1>3 DEF Names
<1>5. Ordered(q.steps)
  <2>1. Ordered(p.steps)
    BY OrderedIsUnreported DEF Sound
  <2>2. DOMAIN q.steps = 1 .. Len(q.steps) /\ DOMAIN p.steps = 1 .. Len(p.steps)
    BY <1>1, StepDomain
  <2> QED BY <1>1, <2>1, <2>2 DEF Ordered
<1>6. ORDERING \notin ErrorTypes(Errors(q))
  BY <1>5, OrderedIsUnreported, ReportByCheck
<1> QED BY <1>2, <1>4, <1>6 DEF q, e

LEMMA WrongToolIsReported ==
  ASSUME NEW p \in AgentPlan, NEW id \in Known(p), NEW t \in Tool \ Available
  PROVE  Names(Errors(SetTool(p, id, t).broken), {id}, {ToolPath(id)})
<1> DEFINE i == FirstAt(p.steps, id)
           s == [p.steps[i] EXCEPT !.tool = t]
           q == SetTool(p, id, t).broken
<1>1. p.steps[i] \in Step
  BY KnownAt, StepDomain
<1>2. s.tool = t
  BY <1>1 DEF Step
<1>3. q = [p EXCEPT !.steps[i].tool = t]
  BY DEF SetTool, Result
<1> HIDE DEF q
<1>4. Rewrites(p.steps, q.steps, id, s)
  BY <1>3, ToolRewritten
<1> HIDE DEF s
<1>5. i \in DOMAIN q.steps /\ q.steps[i].id = id /\ q.steps[i].tool = t
  BY <1>2, <1>4 DEF Rewrites
<1>6. Names(Errors(q), {id}, {ToolPath(id)})
  BY <1>5, UnknownToolIsReported
<1> QED BY <1>6 DEF q

LEMMA MoveIsReported ==
  ASSUME NEW p \in AgentPlan, Sound(p.steps), NEW id \in Known(p), NEW to, CanMove(p, id, to)
  PROVE  Names(Errors(MoveEarlier(p, id, to).broken), {id}, {StepPath(id)})
<1> DEFINE from == LastAt(p.steps, id)
           q == MoveEarlier(p, id, to).broken
           o(k) == Origin(k, from, to)
<1>1. /\ q \in AgentPlan /\ Known(q) = Known(p) /\ DOMAIN q.steps = DOMAIN p.steps
      /\ \A k \in DOMAIN p.steps : o(k) \in DOMAIN p.steps /\ q.steps[k] = p.steps[o(k)]
      /\ \A k, m \in DOMAIN p.steps : k # m => o(k) # o(m)
      /\ q.steps = Moved(p.steps, from, to)
  BY MoveSpares
<1> HIDE DEF q
<1>2. from \in DOMAIN p.steps /\ p.steps[from].id = id
  BY KnownAt
<1>3. FirstAt(p.steps, id) = from
  BY <1>2, EdgesOfUnique DEF Sound
<1>4. \E d \in p.steps[from].input_from \cap Known(p) : LastAt(q.steps, d) > LastAt(q.steps, id)
  BY <1>1, <1>3 DEF CanMove, KnownDeps
<1>5. PICK d \in p.steps[from].input_from \cap Known(p) : LastAt(q.steps, d) > LastAt(q.steps, id)
  BY <1>4
<1> DEFINE k == LastAt(q.steps, id)
<1>6. /\ k \in DOMAIN q.steps /\ q.steps[k].id = id
      /\ LastAt(q.steps, d) \in DOMAIN q.steps /\ q.steps[LastAt(q.steps, d)].id = d
  BY <1>1, KnownAt
<1> HIDE DEF k, o
<1>7. o(k) = from
  BY <1>1, <1>2, <1>6 DEF Sound, UniqueIds
<1>8. LateDeps(q.steps, k) # {}
  <2>1. d \in q.steps[k].input_from
    BY <1>1, <1>6, <1>7
  <2>2. \E j \in DOMAIN q.steps : j > k /\ q.steps[j].id = d
    BY <1>5, <1>6 DEF k
  <2> QED BY <2>1, <2>2 DEF LateDeps
<1>9. CycleErrors(q.steps) = {}
  <2>1. UniqueIds(q.steps)
    BY <1>1 DEF Sound, UniqueIds
  <2>2. \A m \in DOMAIN q.steps :
          Edges(q.steps)[q.steps[m].id] = q.steps[m].input_from \cap Known(p)
    BY <1>1, <2>1, EdgesOfUnique
  <2>3. \A m \in DOMAIN p.steps :
          Edges(p.steps)[p.steps[m].id] = p.steps[m].input_from \cap Known(p)
    BY EdgesOfUnique DEF Sound
  <2>4. Edges(q.steps) \in [Known(p) -> SUBSET Known(p)] /\ Edges(p.steps) \in [Known(p) -> SUBSET Known(p)]
    BY <1>1, <1>2, <1>6, <2>1, EdgesOfUnique DEF Sound
  <2>5. ASSUME NEW y \in Known(p) PROVE Edges(q.steps)[y] = Edges(p.steps)[y]
    <3>1. PICK m \in DOMAIN q.steps : q.steps[m].id = y
      BY <1>1 DEF Known, KnownIds
    <3>2. Edges(q.steps)[y] = q.steps[m].input_from \cap Known(p)
      BY <2>2, <3>1
    <3>3. q.steps[m] = p.steps[o(m)] /\ o(m) \in DOMAIN p.steps
      BY <1>1
    <3>4. Edges(p.steps)[p.steps[o(m)].id] = p.steps[o(m)].input_from \cap Known(p)
      BY <2>3, <3>3
    <3> QED BY <3>1, <3>2, <3>3, <3>4
  <2>6. Edges(q.steps) = Edges(p.steps)
    BY <2>4, <2>5
  <2>7. CycleErrors(q.steps) = CycleErrors(p.steps)
    BY <2>6, Zenon DEF CycleErrors
  <2> QED BY <2>7 DEF Sound
<1>10. Names(Errors(q), {id}, {StepPath(id)})
  BY <1>6, <1>8, <1>9, LateDepIsReported
<1> QED BY <1>10 DEF q

LEMMA FreshCopyIsReported ==
  ASSUME NEW p \in AgentPlan, NEW id \in Known(p), NEW new_id \in StepId
  PROVE  Names(Errors(Duplicate(p, id, new_id).broken), {new_id}, {StepPath(new_id)})
<1> DEFINE i == FirstAt(p.steps, id)
           q == Duplicate(p, id, new_id).broken
<1>1. /\ i \in DOMAIN p.steps /\ DOMAIN q.steps = 1 .. Len(p.steps) + 1
      /\ \A k \in DOMAIN q.steps : q.steps[k] =
           IF k <= i THEN p.steps[k]
           ELSE IF k = i + 1 THEN [p.steps[i] EXCEPT !.id = new_id] ELSE p.steps[k - 1]
  BY CopySpares
<1> HIDE DEF q, i
<1>2. DOMAIN p.steps = 1 .. Len(p.steps) /\ Len(p.steps) \in Nat /\ p.steps[i] \in Step
  BY <1>1, StepDomain
<1>3. i \in DOMAIN q.steps /\ i + 1 \in DOMAIN q.steps /\ i # i + 1
  BY <1>1, <1>2
<1>4. q.steps[i] = p.steps[i] /\ q.steps[i + 1] = [p.steps[i] EXCEPT !.id = new_id]
  <2>1. i <= i /\ ~(i + 1 <= i)
    BY <1>1, <1>2
  <2> QED BY <1>1, <1>3, <2>1
<1>5. Body(q.steps[i + 1]) = Body(q.steps[i]) /\ q.steps[i + 1].id = new_id
  BY <1>2, <1>4 DEF Body, Step
<1>6. Names(Errors(q), {new_id}, {StepPath(new_id)})
  BY <1>3, <1>5, CopyIsReported
<1> QED BY <1>6 DEF q

LEMMA DroppedStopIsReported ==
  ASSUME NEW p \in AgentPlan
  PROVE  Names(Errors(DropStop(p).broken), {}, {StopPath})
<1> DEFINE q == DropStop(p).broken
<1>1. q.stop_condition = "none"
  BY DEF DropStop, Result, AgentPlan
<1> HIDE DEF q
<1>2. Error(MISSING_STOP_CONDITION, {}, {StopPath}, "") \in MissingStop(q)
  BY <1>1 DEF MissingStop
<1>3. Names(Errors(q), {}, {StopPath})
  BY <1>2, ChecksAreReported, ErrorNames
<1> QED BY <1>3 DEF q

LEMMA DroppedRequirementIsReported ==
  ASSUME NEW p \in AgentPlan, Sound(p.steps),
         NEW r \in RequiredEvidence \cup RequiredOperation, CanDropRequired(p, r)
  PROVE  LET q == DropRequired(p, r).broken
             e == DropRequired(p, r).injected
         IN  Names(Errors(q), e.damaged_step_ids, e.damaged_paths) /\ ORDERING \notin ErrorTypes(Errors(q))
<1> DEFINE producer == CHOOSE i \in Producers(p, r) : TRUE
           id == p.steps[producer].id
           deletion == DeleteStep(p, id)
           q == DropRequired(p, r).broken
           e == DropRequired(p, r).injected
           path == IF r \in RequiredEvidence THEN EvidencePath(r) ELSE OperationPath(r)
<1>1. Producers(p, r) = {producer} /\ producer \in DOMAIN p.steps
  <2>1. Producers(p, r) \in SUBSET (1 .. Len(p.steps)) /\ Len(p.steps) \in Nat
    BY StepDomain DEF Producers
  <2>2. IsFiniteSet(Producers(p, r))
    BY <2>1, IndicesAreFinite
  <2>3. PICK x : Producers(p, r) = {x}
    BY <2>2, FS_Singleton DEF CanDropRequired
  <2>4. producer \in Producers(p, r)
    BY <2>3
  <2> HIDE DEF producer
  <2> QED BY <2>3, <2>4 DEF Producers
<1>2. /\ q = deletion.broken /\ e.damaged_step_ids = deletion.injected.damaged_step_ids
      /\ e.damaged_paths = deletion.injected.damaged_paths \cup {path}
  BY DEF DropRequired, Result, Injected
<1> HIDE DEF producer, q, e, path
<1>3. id \in Known(p)
  BY <1>1 DEF Known, KnownIds
<1>4. /\ Names(Errors(q), e.damaged_step_ids, deletion.injected.damaged_paths)
      /\ ORDERING \notin ErrorTypes(Errors(q))
  <2> HIDE DEF id
  <2> QED BY <1>2, <1>3, DeletionIsReported
<1>5. r \notin Produced(q.steps)
  <2>1. /\ \A k \in DOMAIN q.steps : \E i \in DOMAIN p.steps : q.steps[k] = p.steps[i]
        /\ Known(q) = Known(p) \ {id}
    <3>1. q = DeleteStep(p, id).broken
      BY <1>2
    <3> HIDE DEF id, deletion
    <3>2. /\ \A k \in DOMAIN DeleteStep(p, id).broken.steps :
               \E i \in DOMAIN p.steps : DeleteStep(p, id).broken.steps[k] = p.steps[i]
          /\ Known(DeleteStep(p, id).broken) = Known(p) \ {id}
      BY <1>3, DeletionSpares
    <3> QED BY <3>1, <3>2
  <2>2. ASSUME NEW k \in DOMAIN q.steps PROVE r \notin q.steps[k].produces
    <3>1. PICK i \in DOMAIN p.steps : q.steps[k] = p.steps[i]
      BY <2>1
    <3>2. q.steps[k].id # id
      BY <2>1 DEF Known, KnownIds
    <3>3. i # producer
      BY <3>1, <3>2
    <3> QED BY <1>1, <3>1, <3>3 DEF Producers
  <2> QED BY <2>2 DEF Produced
<1>6. Names(Errors(q), {}, {path})
  <2>1. CASE r \in RequiredEvidence
    <3>1. Error(MISSING_EVIDENCE, {}, {EvidencePath(r)}, "") \in CoverageErrors(q.steps)
      BY <1>5, <2>1, Zenon DEF CoverageErrors
    <3> QED BY <2>1, <3>1, ChecksAreReported, ErrorNames DEF path
  <2>2. CASE r \notin RequiredEvidence
    <3>1. Error(MISSING_OPERATION, {}, {OperationPath(r)}, "") \in CoverageErrors(q.steps)
      BY <1>5, <2>2, Zenon DEF CoverageErrors
    <3> QED BY <2>2, <3>1, ChecksAreReported, ErrorNames DEF path
  <2> QED BY <2>1, <2>2
<1>7. Names(Errors(q), e.damaged_step_ids, e.damaged_paths)
  BY <1>2, <1>4, <1>6 DEF Names
<1> QED BY <1>4, <1>7 DEF q, e

LEMMA CorruptionIsReported ==
  ASSUME NEW p \in AgentPlan, Sound(p.steps), NEW c, ByOneCall(p, c)
  PROVE  LET q == c.result.broken
             e == c.result.injected
         IN  /\ Names(Errors(q), e.damaged_step_ids, e.damaged_paths)
             /\ e.corruption_type \in {BROKEN_DEPENDENCY, STEP_DELETION, DROP_REQUIRED_STEP}
                  => ORDERING \notin ErrorTypes(Errors(q))
<1> DEFINE q == c.result.broken
           e == c.result.injected
           Goal == /\ Names(Errors(q), e.damaged_step_ids, e.damaged_paths)
                   /\ e.corruption_type \in {BROKEN_DEPENDENCY, STEP_DELETION, DROP_REQUIRED_STEP}
                        => ORDERING \notin ErrorTypes(Errors(q))
<1> USE DEF BROKEN_DEPENDENCY, STEP_DELETION, DROP_REQUIRED_STEP, WRONG_TOOL, WRONG_ORDERING,
            DUPLICATE_STEP, MISSING_STOP_CONDITION
<1>1. ASSUME NEW id, NEW dep \in StepId, NEW x \in FreeIds(p, UnknownNames[dep]),
             CanBreakDependency(p, id, dep), c.result = BreakDependency(p, id, dep, x)
      PROVE  Goal
  <2>1. e.damaged_step_ids = {id} /\ e.damaged_paths = {InputFromPath(id)}
    BY <1>1 DEF BreakDependency, Result, Injected
  <2>2. q = BreakDependency(p, id, dep, x).broken
    BY <1>1
  <2> HIDE DEF e, q
  <2>3. Names(Errors(q), {id}, {InputFromPath(id)}) /\ ORDERING \notin ErrorTypes(Errors(q))
    BY <1>1, <2>2, BreakIsReported
  <2> QED BY <2>1, <2>3
<1>2. ASSUME NEW id \in Known(p), NEW with \in Known(p), CanCloseCycle(p, id, with),
             c.result = CloseCycle(p, id, with)
      PROVE  Goal
  <2>1. e.damaged_step_ids = {id} /\ e.damaged_paths = {InputFromPath(id)}
    BY <1>2 DEF CloseCycle, Result, Injected
  <2>2. q = CloseCycle(p, id, with).broken
    BY <1>2
  <2> HIDE DEF e, q
  <2>3. Names(Errors(q), {id}, {InputFromPath(id)}) /\ CycleErrors(q.steps) # {}
    BY <1>2, <2>2, ClosedCycleIsReported
  <2>4. ORDERING \notin ErrorTypes(Errors(q))
    BY <2>3, ReportByCheck
  <2> QED BY <2>1, <2>3, <2>4
<1>3. ASSUME NEW id \in Known(p), c.result = DeleteStep(p, id)
      PROVE  Goal
  BY <1>3, DeletionIsReported
<1>4. ASSUME NEW id \in Known(p), NEW t \in Tool \ Available, c.result = SetTool(p, id, t)
      PROVE  Goal
  <2>1. e.damaged_step_ids = {id} /\ e.damaged_paths = {ToolPath(id)} /\ e.corruption_type = WRONG_TOOL
    BY <1>4 DEF SetTool, Result, Injected
  <2> HIDE DEF e
  <2> QED BY <1>4, <2>1, WrongToolIsReported
<1>5. ASSUME NEW id \in Known(p), NEW to, CanMove(p, id, to), c.result = MoveEarlier(p, id, to)
      PROVE  Goal
  <2>1. e.damaged_step_ids = {id} /\ e.damaged_paths = {StepPath(id)} /\ e.corruption_type = WRONG_ORDERING
    BY <1>5 DEF MoveEarlier, Result, Injected
  <2> HIDE DEF e
  <2> QED BY <1>5, <2>1, MoveIsReported
<1>6. ASSUME NEW id \in Known(p), NEW new_id \in {id} \cup FreeIds(p, CopyNames[id]),
             c.result = Duplicate(p, id, new_id)
      PROVE  Goal
  <2>1. /\ e.damaged_step_ids = {new_id} /\ e.damaged_paths = {StepPath(new_id)}
        /\ e.corruption_type = DUPLICATE_STEP
    BY <1>6 DEF Duplicate, Result, Injected
  <2>2. new_id \in StepId
    BY NamesAreNames, FreeNames, InjectorAssumption
  <2> HIDE DEF e
  <2> QED BY <1>6, <2>1, <2>2, FreshCopyIsReported
<1>7. ASSUME c.result = DropStop(p)
      PROVE  Goal
  <2>1. /\ e.damaged_step_ids = {} /\ e.damaged_paths = {StopPath}
        /\ e.corruption_type = MISSING_STOP_CONDITION
    BY <1>7 DEF DropStop, Result, Injected
  <2> HIDE DEF e
  <2> QED BY <1>7, <2>1, DroppedStopIsReported
<1>8. ASSUME NEW r \in RequiredEvidence \cup RequiredOperation, CanDropRequired(p, r),
             c.result = DropRequired(p, r)
      PROVE  Goal
  BY <1>8, DroppedRequirementIsReported
<1> HIDE DEF Goal
<1>9. Goal
  BY <1>1, <1>2, <1>3, <1>4, <1>5, <1>6, <1>7, <1>8 DEF ByOneCall, Touching
<1> QED BY <1>9 DEF Goal

-----------------------------------------------------------------------------
(***************************************************************************)
(* Two steps of a broken plan share a name only where one was copied under *)
(* its own name, and that step is not touched again.                       *)
(***************************************************************************)
Clashes(ss, taken) ==
  \A i, j \in DOMAIN ss : (i # j /\ ss[i].id = ss[j].id) => Body(ss[i]) = Body(ss[j]) /\ ss[i].id \in taken

LEMMA RewriteClashes ==
  ASSUME NEW ss, NEW tt, NEW id, NEW s, Rewrites(ss, tt, id, s), NEW taken, id \notin taken, Clashes(ss, taken)
  PROVE  Clashes(tt, taken)
<1> SUFFICES ASSUME NEW i \in DOMAIN tt, NEW j \in DOMAIN tt, i # j, tt[i].id = tt[j].id
             PROVE  Body(tt[i]) = Body(tt[j]) /\ tt[i].id \in taken
  BY DEF Clashes
<1>1. \A k \in DOMAIN ss : tt[k].id = ss[k].id
  BY DEF Rewrites
<1>2. Body(ss[i]) = Body(ss[j]) /\ ss[i].id \in taken /\ ss[j].id \in taken
  BY <1>1 DEF Rewrites, Clashes
<1>3. tt[i] = ss[i] /\ tt[j] = ss[j]
  BY <1>2 DEF Rewrites
<1> QED BY <1>2, <1>3

LEMMA DeletionKeepsOrder ==
  ASSUME NEW p \in AgentPlan, NEW id \in Known(p), NEW q, q = DeleteStep(p, id).broken
  PROVE  /\ q \in AgentPlan
         /\ \A k, m \in DOMAIN q.steps : k < m =>
              \E i, j \in DOMAIN p.steps : i < j /\ q.steps[k] = p.steps[i] /\ q.steps[m] = p.steps[j]
<1> DEFINE d == DeleteStep(p, id).broken
<1>1. /\ d \in AgentPlan
      /\ \A k, m \in DOMAIN d.steps : k < m =>
           \E i, j \in DOMAIN p.steps : i < j /\ d.steps[k] = p.steps[i] /\ d.steps[m] = p.steps[j]
  BY DeletionSpares
<1>2. q = d
  OBVIOUS
<1> HIDE DEF d
<1> QED BY <1>1, <1>2

LEMMA DeletionClashes ==
  ASSUME NEW p \in AgentPlan, NEW id \in Known(p), NEW taken, Clashes(p.steps, taken)
  PROVE  Clashes(DeleteStep(p, id).broken.steps, taken)
<1> DEFINE q == DeleteStep(p, id).broken
<1>1. /\ q \in AgentPlan
      /\ \A k, m \in DOMAIN q.steps : k < m =>
           \E i, j \in DOMAIN p.steps : i < j /\ q.steps[k] = p.steps[i] /\ q.steps[m] = p.steps[j]
  BY DeletionKeepsOrder
<1> HIDE DEF q
<1>2. DOMAIN q.steps = 1 .. Len(q.steps) /\ DOMAIN p.steps = 1 .. Len(p.steps)
  BY <1>1, StepDomain
<1>3. \A k, m \in DOMAIN q.steps : k # m =>
        \E i, j \in DOMAIN p.steps : i # j /\ q.steps[k] = p.steps[i] /\ q.steps[m] = p.steps[j]
  <2> SUFFICES ASSUME NEW k \in DOMAIN q.steps, NEW m \in DOMAIN q.steps, k # m
               PROVE  \E i, j \in DOMAIN p.steps : i # j /\ q.steps[k] = p.steps[i] /\ q.steps[m] = p.steps[j]
    OBVIOUS
  <2>1. CASE k < m
    BY <1>1, <1>2, <2>1
  <2>2. CASE m < k
    BY <1>1, <1>2, <2>2
  <2> QED BY <1>2, <2>1, <2>2
<1>4. Clashes(q.steps, taken)
  BY <1>3 DEF Clashes
<1> QED BY <1>4 DEF q

LEMMA MoveClashes ==
  ASSUME NEW p \in AgentPlan, NEW id \in Known(p), NEW to, CanMove(p, id, to), NEW taken,
         Clashes(p.steps, taken)
  PROVE  Clashes(MoveEarlier(p, id, to).broken.steps, taken)
<1> DEFINE q == MoveEarlier(p, id, to).broken
           o(k) == Origin(k, LastAt(p.steps, id), to)
<1>1. /\ DOMAIN q.steps = DOMAIN p.steps
      /\ \A k \in DOMAIN p.steps : o(k) \in DOMAIN p.steps /\ q.steps[k] = p.steps[o(k)]
      /\ \A k, m \in DOMAIN p.steps : k # m => o(k) # o(m)
  BY MoveSpares
<1> HIDE DEF q, o
<1>2. Clashes(q.steps, taken)
  BY <1>1 DEF Clashes
<1> QED BY <1>2 DEF q

LEMMA CopyClashes ==
  ASSUME NEW p \in AgentPlan, NEW id \in Known(p), NEW new_id \in StepId, NEW taken,
         id \notin taken, new_id = id \/ new_id \notin Known(p), Clashes(p.steps, taken)
  PROVE  Clashes(Duplicate(p, id, new_id).broken.steps, taken \cup {id})
<1> DEFINE q == Duplicate(p, id, new_id).broken
           f == FirstAt(p.steps, id)
           was(k) == IF k <= f THEN k ELSE k - 1
<1>1. /\ f \in DOMAIN p.steps /\ DOMAIN q.steps = 1 .. Len(p.steps) + 1
      /\ \A k \in DOMAIN q.steps : q.steps[k] =
           IF k <= f THEN p.steps[k]
           ELSE IF k = f + 1 THEN [p.steps[f] EXCEPT !.id = new_id] ELSE p.steps[k - 1]
  BY CopySpares
<1>2. DOMAIN p.steps = 1 .. Len(p.steps) /\ Len(p.steps) \in Nat /\ p.steps[f] \in Step /\ p.steps[f].id = id
  BY KnownAt, StepDomain
<1> HIDE DEF q, f
<1>3. ASSUME NEW k \in DOMAIN q.steps
      PROVE  /\ was(k) \in DOMAIN p.steps
             /\ k # f + 1 => q.steps[k] = p.steps[was(k)]
             /\ k = f + 1 => was(k) = f /\ q.steps[k] = [p.steps[f] EXCEPT !.id = new_id]
  BY <1>1, <1>2
<1>4. \A k, m \in DOMAIN q.steps : (k # m /\ k # f + 1 /\ m # f + 1) => was(k) # was(m)
  BY <1>1, <1>2
<1> HIDE DEF was
<1>5. Body([p.steps[f] EXCEPT !.id = new_id]) = Body(p.steps[f])
      /\ [p.steps[f] EXCEPT !.id = new_id].id = new_id
  BY <1>2 DEF Body, Step
<1>6. \A k \in DOMAIN q.steps : Body(q.steps[k]) = Body(p.steps[was(k)])
  BY <1>3, <1>5
<1>7. \A i \in DOMAIN p.steps : p.steps[i].id = id => i = f
  BY <1>1, <1>2 DEF Clashes
<1>8. ASSUME NEW k \in DOMAIN q.steps, NEW m \in DOMAIN q.steps, k # m, q.steps[k].id = q.steps[m].id,
             k # f + 1
      PROVE  Body(q.steps[k]) = Body(q.steps[m]) /\ q.steps[k].id \in taken \cup {id}
  <2>1. CASE m # f + 1
    <3>1. was(k) # was(m) /\ q.steps[k] = p.steps[was(k)] /\ q.steps[m] = p.steps[was(m)]
          /\ was(k) \in DOMAIN p.steps /\ was(m) \in DOMAIN p.steps
      BY <1>3, <1>4, <1>8, <2>1
    <3> QED BY <1>8, <3>1 DEF Clashes
  <2>2. CASE m = f + 1
    <3>1. p.steps[was(k)].id = new_id /\ was(k) \in DOMAIN p.steps /\ q.steps[k].id = new_id /\ was(m) = f
      BY <1>3, <1>5, <1>8, <2>2
    <3>2. new_id = id
      BY <3>1 DEF Known, KnownIds
    <3>3. was(k) = f
      BY <1>7, <3>1, <3>2
    <3> QED BY <1>6, <3>1, <3>2, <3>3
  <2> QED BY <2>1, <2>2
<1>9. Clashes(q.steps, taken \cup {id})
  <2> SUFFICES ASSUME NEW k \in DOMAIN q.steps, NEW m \in DOMAIN q.steps, k # m, q.steps[k].id = q.steps[m].id
               PROVE  Body(q.steps[k]) = Body(q.steps[m]) /\ q.steps[k].id \in taken \cup {id}
    BY DEF Clashes
  <2>1. CASE k # f + 1
    BY <1>8, <2>1
  <2>2. CASE k = f + 1
    <3>1. m # f + 1
      BY <2>2
    <3>2. Body(q.steps[m]) = Body(q.steps[k]) /\ q.steps[m].id \in taken \cup {id}
      BY <1>8, <3>1
    <3> QED BY <3>2
  <2> QED BY <2>1, <2>2
<1> QED BY <1>9 DEF q

LEMMA CorruptionClashes ==
  ASSUME NEW p \in AgentPlan, NEW c, ByOneCall(p, c), NEW taken, c.touched \cap taken = {},
         Clashes(p.steps, taken)
  PROVE  Clashes(c.result.broken.steps, taken \cup c.touched)
<1> DEFINE q == c.result.broken
           Goal == Clashes(q.steps, taken \cup c.touched)
<1>0. \A tt : Clashes(tt, taken) => Clashes(tt, taken \cup c.touched)
  BY DEF Clashes
<1>1. ASSUME NEW id \in c.touched, NEW dep \in StepId, NEW x \in FreeIds(p, UnknownNames[dep]),
             CanBreakDependency(p, id, dep), c.result = BreakDependency(p, id, dep, x)
      PROVE  Goal
  <2> DEFINE i == FirstAt(p.steps, id)
             deps == (p.steps[i].input_from \ {dep}) \cup {x}
  <2>1. id \in Known(p) /\ x \in StepId /\ id \notin taken
    BY <1>1, FreeNames, InjectorAssumption DEF CanBreakDependency
  <2>2. p.steps[i] \in Step
    BY <2>1, KnownAt, StepDomain
  <2>3. deps \in SUBSET StepId
    BY <2>1, <2>2 DEF Step
  <2>4. q = [p EXCEPT !.steps[i].input_from = deps]
    BY <1>1 DEF BreakDependency, Result
  <2> HIDE DEF deps, q
  <2>5. Rewrites(p.steps, q.steps, id, [p.steps[i] EXCEPT !.input_from = deps])
    BY <2>1, <2>3, <2>4, InputRewritten
  <2>6. Clashes(q.steps, taken)
    BY <2>1, <2>5, RewriteClashes
  <2> QED BY <1>0, <2>6
<1>2. ASSUME NEW id \in Known(p), NEW with \in Known(p), c = Touching({id, with}, CloseCycle(p, id, with))
      PROVE  Goal
  <2> DEFINE i == FirstAt(p.steps, id)
             deps == p.steps[i].input_from \cup {with}
  <2>1. p.steps[i] \in Step /\ Known(p) \subseteq StepId
    BY KnownAt, StepDomain, NamesAreNames
  <2>2. deps \in SUBSET StepId
    BY <2>1 DEF Step
  <2>3. q = [p EXCEPT !.steps[i].input_from = deps] /\ id \notin taken
    BY <1>2 DEF CloseCycle, Result, Touching
  <2> HIDE DEF deps, q
  <2>4. Rewrites(p.steps, q.steps, id, [p.steps[i] EXCEPT !.input_from = deps])
    BY <2>2, <2>3, InputRewritten
  <2>5. Clashes(q.steps, taken)
    BY <2>3, <2>4, RewriteClashes
  <2> QED BY <1>0, <2>5
<1>3. ASSUME NEW id \in Known(p), q = DeleteStep(p, id).broken
      PROVE  Goal
  <2> HIDE DEF q
  <2> QED BY <1>0, <1>3, DeletionClashes
<1>4. ASSUME NEW id \in Known(p), NEW t \in Tool, c = Touching({id}, SetTool(p, id, t))
      PROVE  Goal
  <2>1. q = [p EXCEPT !.steps[FirstAt(p.steps, id)].tool = t] /\ id \notin taken
    BY <1>4 DEF SetTool, Result, Touching
  <2> HIDE DEF q
  <2>2. Rewrites(p.steps, q.steps, id, [p.steps[FirstAt(p.steps, id)] EXCEPT !.tool = t])
    BY <2>1, ToolRewritten
  <2>3. Clashes(q.steps, taken)
    BY <2>1, <2>2, RewriteClashes
  <2> QED BY <1>0, <2>3
<1>5. ASSUME NEW id \in Known(p), NEW to, CanMove(p, id, to), q = MoveEarlier(p, id, to).broken
      PROVE  Goal
  <2> HIDE DEF q
  <2> QED BY <1>0, <1>5, MoveClashes
<1>6. ASSUME NEW id \in Known(p), NEW new_id \in {id} \cup FreeIds(p, CopyNames[id]),
             c = Touching({id}, Duplicate(p, id, new_id))
      PROVE  Goal
  <2>1. q = Duplicate(p, id, new_id).broken /\ c.touched = {id} /\ id \notin taken
    BY <1>6 DEF Touching
  <2>2. new_id \in StepId /\ (new_id = id \/ new_id \notin Known(p))
    BY NamesAreNames, FreeNames, InjectorAssumption
  <2> HIDE DEF q
  <2> QED BY <2>1, <2>2, CopyClashes
<1>7. ASSUME c.result = DropStop(p)
      PROVE  Goal
  <2>1. q.steps = p.steps
    BY <1>7 DEF DropStop, Result, AgentPlan
  <2> HIDE DEF q
  <2> QED BY <1>0, <2>1
<1>8. ASSUME NEW r, CanDropRequired(p, r), c.result = DropRequired(p, r)
      PROVE  Goal
  <2>1. PICK id \in Known(p) : q = DeleteStep(p, id).broken
    BY <1>8, RequirementDropped
  <2> QED BY <1>3, <2>1
<1> HIDE DEF Goal
<1>9. Goal
  BY <1>1, <1>2, <1>3, <1>4, <1>5, <1>6, <1>7, <1>8 DEF ByOneCall, Touching
<1> QED BY <1>9 DEF Goal

\* What a single corruption leaves alone is no later copy of anything, unless the
\* corruption closed a cycle.
LEMMA RewriteLeads ==
  ASSUME NEW ss, NEW tt, NEW id, NEW s, Rewrites(ss, tt, id, s), Sound(ss), DOMAIN ss \in SUBSET Int,
         \A k \in DOMAIN ss : ss[k].id # id => Body(ss[k]) # Body(s)
  PROVE  \A k \in DOMAIN tt : tt[k].id # id => Leading(tt, k)
<1> SUFFICES ASSUME NEW k \in DOMAIN tt, tt[k].id # id, NEW j \in DOMAIN tt, j < k
             PROVE  Body(tt[j]) # Body(tt[k])
  BY DEF Leading
<1>1. DOMAIN tt = DOMAIN ss /\ tt[k] = ss[k] /\ ss[k].id # id /\ (tt[j] = ss[j] \/ tt[j] = s)
  BY DEF Rewrites
<1>2. j # k
  BY <1>1
<1> QED BY <1>1, <1>2 DEF Sound

LEMMA CorruptionLeads ==
  ASSUME NEW p \in AgentPlan, Sound(p.steps), NEW c, ByOneCall(p, c)
  PROVE  LET q == c.result.broken
             ids == c.result.injected.damaged_step_ids
         IN  \/ CycleErrors(q.steps) # {}
             \/ \A k \in DOMAIN q.steps : q.steps[k].id \notin ids => Leading(q.steps, k)
<1> DEFINE q == c.result.broken
           ids == c.result.injected.damaged_step_ids
           Goal == \/ CycleErrors(q.steps) # {}
                   \/ \A k \in DOMAIN q.steps : q.steps[k].id \notin ids => Leading(q.steps, k)
<1>0. q \in AgentPlan /\ DOMAIN p.steps = 1 .. Len(p.steps) /\ DOMAIN q.steps = 1 .. Len(q.steps)
      /\ Len(p.steps) \in Nat /\ \A i \in DOMAIN p.steps : p.steps[i] \in Step
  BY CorruptionSpares, StepDomain
<1>1. ASSUME NEW id \in c.touched, NEW dep \in StepId, NEW x \in FreeIds(p, UnknownNames[dep]),
             CanBreakDependency(p, id, dep), c.result = BreakDependency(p, id, dep, x)
      PROVE  Goal
  <2> DEFINE i == FirstAt(p.steps, id)
             deps == (p.steps[i].input_from \ {dep}) \cup {x}
             s == [p.steps[i] EXCEPT !.input_from = deps]
  <2>1. id \in Known(p) /\ x \in StepId /\ x \notin Known(p)
    BY <1>1, FreeNames, InjectorAssumption DEF CanBreakDependency
  <2>2. p.steps[i] \in Step
    BY <2>1, KnownAt, StepDomain
  <2>3. deps \in SUBSET StepId /\ x \in deps
    BY <2>1, <2>2 DEF Step
  <2>4. q = [p EXCEPT !.steps[i].input_from = deps] /\ ids = {id}
    BY <1>1 DEF BreakDependency, Result, Injected
  <2> HIDE DEF deps, q, ids
  <2>5. Rewrites(p.steps, q.steps, id, s)
    BY <2>1, <2>3, <2>4, InputRewritten
  <2>6. x \in Body(s).input_from
    BY <2>2, <2>3 DEF Body, Step
  <2>7. \A k \in DOMAIN p.steps : x \notin Body(p.steps[k]).input_from
    BY <2>1 DEF Sound, Body, Known
  <2> HIDE DEF s
  <2>8. \A k \in DOMAIN p.steps : p.steps[k].id # id => Body(p.steps[k]) # Body(s)
    BY <2>6, <2>7
  <2>9. \A k \in DOMAIN q.steps : q.steps[k].id # id => Leading(q.steps, k)
    BY <1>0, <2>5, <2>8, RewriteLeads, DOMAIN p.steps \in SUBSET Int
  <2> QED BY <2>4, <2>9
<1>2. ASSUME NEW id \in Known(p), NEW with \in Known(p), CanCloseCycle(p, id, with),
             c = Touching({id, with}, CloseCycle(p, id, with))
      PROVE  Goal
  <2>1. q = CloseCycle(p, id, with).broken
    BY <1>2 DEF Touching
  <2> HIDE DEF q
  <2> QED BY <1>2, <2>1, ClosedCycleIsReported
<1>3. ASSUME NEW id \in Known(p), q = DeleteStep(p, id).broken
      PROVE  Goal
  <2>1. \A k, m \in DOMAIN q.steps : k < m =>
          \E i, j \in DOMAIN p.steps : i < j /\ q.steps[k] = p.steps[i] /\ q.steps[m] = p.steps[j]
    <3> HIDE DEF q
    <3> QED BY <1>3, DeletionKeepsOrder
  <2> HIDE DEF q
  <2>2. \A k, m \in DOMAIN q.steps : k < m => Body(q.steps[k]) # Body(q.steps[m])
    BY <1>0, <2>1 DEF Sound
  <2> QED BY <2>2 DEF Leading
<1>4. ASSUME NEW id \in Known(p), NEW t \in Tool \ Available, c = Touching({id}, SetTool(p, id, t))
      PROVE  Goal
  <2> DEFINE i == FirstAt(p.steps, id)
             s == [p.steps[i] EXCEPT !.tool = t]
  <2>1. q = [p EXCEPT !.steps[i].tool = t] /\ ids = {id}
    BY <1>4 DEF SetTool, Result, Injected, Touching
  <2> HIDE DEF q, ids
  <2>2. Rewrites(p.steps, q.steps, id, s)
    BY <2>1, ToolRewritten
  <2>3. Body(s).tool = t
    BY <1>0, KnownAt DEF Body, Step
  <2>4. \A k \in DOMAIN p.steps : Body(p.steps[k]).tool \in Available
    BY DEF Sound, Body
  <2> HIDE DEF s
  <2>5. \A k \in DOMAIN p.steps : p.steps[k].id # id => Body(p.steps[k]) # Body(s)
    BY <2>3, <2>4
  <2>6. \A k \in DOMAIN q.steps : q.steps[k].id # id => Leading(q.steps, k)
    BY <1>0, <2>2, <2>5, RewriteLeads, DOMAIN p.steps \in SUBSET Int
  <2> QED BY <2>1, <2>6
<1>5. ASSUME NEW id \in Known(p), NEW to, CanMove(p, id, to), q = MoveEarlier(p, id, to).broken
      PROVE  Goal
  <2> DEFINE o(k) == Origin(k, LastAt(p.steps, id), to)
  <2> HIDE DEF q
  <2>1. /\ DOMAIN q.steps = DOMAIN p.steps
        /\ \A k \in DOMAIN p.steps : o(k) \in DOMAIN p.steps /\ q.steps[k] = p.steps[o(k)]
        /\ \A k, m \in DOMAIN p.steps : k # m => o(k) # o(m)
    BY <1>5, MoveSpares
  <2> HIDE DEF o
  <2>2. \A k, m \in DOMAIN q.steps : k # m => Body(q.steps[k]) # Body(q.steps[m])
    BY <2>1 DEF Sound
  <2>3. \A k, m \in DOMAIN q.steps : k < m => k # m
    BY <1>0
  <2> QED BY <2>2, <2>3 DEF Leading
<1>6. ASSUME NEW id \in Known(p), NEW new_id \in {id} \cup FreeIds(p, CopyNames[id]),
             c = Touching({id}, Duplicate(p, id, new_id))
      PROVE  Goal
  <2> DEFINE f == FirstAt(p.steps, id)
             was(k) == IF k <= f THEN k ELSE k - 1
  <2>1. q = Duplicate(p, id, new_id).broken /\ ids = {new_id}
    BY <1>6 DEF Duplicate, Result, Injected, Touching
  <2>2. new_id \in StepId
    BY NamesAreNames, FreeNames, InjectorAssumption
  <2> HIDE DEF q, ids
  <2>3. /\ f \in DOMAIN p.steps /\ DOMAIN q.steps = 1 .. Len(p.steps) + 1
        /\ \A k \in DOMAIN q.steps : q.steps[k] =
             IF k <= f THEN p.steps[k]
             ELSE IF k = f + 1 THEN [p.steps[f] EXCEPT !.id = new_id] ELSE p.steps[k - 1]
    BY <2>1, <2>2, CopySpares
  <2> HIDE DEF f
  <2>4. Body([p.steps[f] EXCEPT !.id = new_id]) = Body(p.steps[f])
        /\ [p.steps[f] EXCEPT !.id = new_id].id = new_id
    BY <1>0, <2>3 DEF Body, Step
  <2>5. ASSUME NEW k \in DOMAIN q.steps
        PROVE  /\ was(k) \in DOMAIN p.steps /\ Body(q.steps[k]) = Body(p.steps[was(k)])
               /\ k = f + 1 => q.steps[k].id = new_id
    <3>1. was(k) \in DOMAIN p.steps
      BY <1>0, <2>3
    <3>2. CASE k = f + 1
      <4>1. q.steps[k] = [p.steps[f] EXCEPT !.id = new_id] /\ was(k) = f
        BY <1>0, <2>3, <3>2
      <4> QED BY <2>4, <3>1, <4>1
    <3>3. CASE k # f + 1
      <4>1. q.steps[k] = p.steps[was(k)]
        BY <2>3, <3>3
      <4> QED BY <3>1, <3>3, <4>1
    <3> QED BY <3>2, <3>3
  <2>6. \A k, j \in DOMAIN q.steps : (j < k /\ k # f + 1) => was(j) # was(k)
    BY <1>0, <2>3
  <2> HIDE DEF was
  <2>7. \A k, j \in DOMAIN q.steps : (j < k /\ k # f + 1) => Body(q.steps[j]) # Body(q.steps[k])
    BY <2>5, <2>6 DEF Sound
  <2> QED BY <2>1, <2>5, <2>7 DEF Leading
<1>7. ASSUME c.result = DropStop(p)
      PROVE  Goal
  <2>1. q.steps = p.steps
    BY <1>7 DEF DropStop, Result, AgentPlan
  <2> HIDE DEF q
  <2>2. \A k, j \in DOMAIN p.steps : j < k => Body(p.steps[j]) # Body(p.steps[k])
    BY <1>0 DEF Sound
  <2> QED BY <2>1, <2>2 DEF Leading
<1>8. ASSUME NEW r, CanDropRequired(p, r), c.result = DropRequired(p, r)
      PROVE  Goal
  <2>1. PICK id \in Known(p) : q = DeleteStep(p, id).broken
    BY <1>8, RequirementDropped
  <2> QED BY <1>3, <2>1
<1> HIDE DEF Goal
<1>9. Goal
  BY <1>1, <1>2, <1>3, <1>4, <1>5, <1>6, <1>7, <1>8 DEF ByOneCall, Touching
<1> QED BY <1>9 DEF Goal

\* A step the repairer answers for has its name to itself and misses nothing.
LEMMA ScopedStep ==
  ASSUME GroundInv, NEW id \in InScope(reference, broken, Damaged)
  PROVE  \E k \in DOMAIN broken.steps :
           /\ At(broken.steps, id) = {k} /\ broken.steps[k].id = id /\ id \notin Damaged
           /\ MissingDeps(broken.steps, k) = {}
           /\ Bodies(reference)[id] = {Body(broken.steps[k])}
<1>1. \A p : DOMAIN Bodies(p) = Known(p)
  BY DEF Bodies, Known
<1>2. id \notin Damaged /\ id \in Known(broken) /\ Bodies(broken)[id] = Bodies(reference)[id]
  BY <1>1 DEF InScope
<1>3. PICK k \in DOMAIN broken.steps : broken.steps[k].id = id
  BY <1>2 DEF Known, KnownIds
<1>4. At(broken.steps, id) = {k} /\ broken.steps[k].input_from \subseteq Known(broken)
  BY <1>2, <1>3 DEF GroundInv
<1>5. MissingDeps(broken.steps, k) = {}
  BY <1>4 DEF MissingDeps, Known
<1>6. Bodies(broken)[id] = {Body(broken.steps[k])}
  BY <1>3, <1>4, BodyOfTheOnly
<1> QED BY <1>2, <1>3, <1>4, <1>5, <1>6

-----------------------------------------------------------------------------
(***************************************************************************)
(* Faults of order, copies and the stop condition.  However many of them   *)
(* are combined, every step of the reference is there, first of its kind,  *)
(* and beside them there are copies of the steps that were touched.        *)
(***************************************************************************)
Mechanical == {WRONG_ORDERING, DUPLICATE_STEP, MISSING_STOP_CONDITION}

Shuffled(rr, bb, taken) ==
  /\ \A i \in DOMAIN rr : \E k \in DOMAIN bb : bb[k] = rr[i] /\ Leading(bb, k)
  /\ \A k \in DOMAIN bb : \E i \in DOMAIN rr :
       Body(bb[k]) = Body(rr[i]) /\ (bb[k].id \in KnownIds(rr) => bb[k] = rr[i])
  /\ \A k, m \in DOMAIN bb : (k # m /\ Body(bb[k]) = Body(bb[m])) =>
       \E i \in DOMAIN rr : Body(rr[i]) = Body(bb[k]) /\ rr[i].id \in taken

LEMMA MechanicalCases ==
  ASSUME NEW p, NEW c, ByOneCall(p, c), c.result.injected.corruption_type \in Mechanical
  PROVE  \/ \E id \in Known(p), to \in DOMAIN p.steps :
              CanMove(p, id, to) /\ c = Touching({id}, MoveEarlier(p, id, to))
         \/ \E id \in Known(p) : \E new_id \in {id} \cup FreeIds(p, CopyNames[id]) :
              c = Touching({id}, Duplicate(p, id, new_id))
         \/ c = Touching({}, DropStop(p))
<1> DEFINE type == c.result.injected.corruption_type
<1>1. /\ "broken_dependency" \notin Mechanical /\ "step_deletion" \notin Mechanical
      /\ "wrong_tool" \notin Mechanical /\ "drop_required_step" \notin Mechanical
  BY DEF Mechanical, WRONG_ORDERING, DUPLICATE_STEP, MISSING_STOP_CONDITION
<1>2. \A id, dep, x : c.result # BreakDependency(p, id, dep, x)
  BY <1>1 DEF BreakDependency, Result, Injected, BROKEN_DEPENDENCY
<1>3. \A id, with : c # Touching({id, with}, CloseCycle(p, id, with))
  BY <1>1 DEF CloseCycle, Result, Injected, Touching, BROKEN_DEPENDENCY
<1>4. \A id : c # Touching({id}, DeleteStep(p, id))
  BY <1>1 DEF DeleteStep, Result, Injected, Touching, STEP_DELETION
<1>5. \A id, t : c # Touching({id}, SetTool(p, id, t))
  BY <1>1 DEF SetTool, Result, Injected, Touching, WRONG_TOOL
<1>6. \A r : c # Touching({}, DropRequired(p, r))
  BY <1>1 DEF DropRequired, Result, Injected, Touching, DROP_REQUIRED_STEP
<1> QED BY <1>2, <1>3, <1>4, <1>5, <1>6 DEF ByOneCall

LEMMA MoveShuffles ==
  ASSUME NEW r \in AgentPlan, NEW p \in AgentPlan, Sound(r.steps), NEW taken,
         Shuffled(r.steps, p.steps, taken),
         NEW id \in Known(p), id \in Known(r), id \notin taken, NEW to, CanMove(p, id, to)
  PROVE  Shuffled(r.steps, MoveEarlier(p, id, to).broken.steps, taken)
<1> DEFINE rr == r.steps
           bb == p.steps
           from == LastAt(bb, id)
           qq == MoveEarlier(p, id, to).broken.steps
           o(k) == Origin(k, from, to)
<1>1. /\ DOMAIN qq = DOMAIN bb
      /\ \A k \in DOMAIN bb : o(k) \in DOMAIN bb /\ qq[k] = bb[o(k)]
      /\ \A k, m \in DOMAIN bb : k # m => o(k) # o(m)
  BY MoveSpares
<1>2. from \in DOMAIN bb /\ bb[from].id = id
  BY KnownAt
<1>3. DOMAIN bb = 1 .. Len(bb) /\ Len(bb) \in Nat /\ to \in 1 .. from - 1
  BY StepDomain DEF CanMove
<1> HIDE DEF qq, from
<1>0. \A i \in DOMAIN bb : \E k \in DOMAIN bb : o(k) = i
  BY <1>2, <1>3, EveryPlaceIsFilled
<1>4. \A k, m \in DOMAIN bb : (k < m /\ o(k) # from /\ o(m) # from) => o(k) < o(m)
  BY <1>2, <1>3 DEF Origin
<1> HIDE DEF o
<1>5. UniqueIds(rr) /\ \A i, j \in DOMAIN rr : Body(rr[i]) = Body(rr[j]) => i = j
  BY DEF Sound
<1>6. ASSUME NEW k \in DOMAIN bb, k # from PROVE Body(bb[k]) # Body(bb[from])
  <2>1. ASSUME Body(bb[k]) = Body(bb[from]) PROVE FALSE
    <3>1. PICK i \in DOMAIN rr : Body(rr[i]) = Body(bb[k]) /\ rr[i].id \in taken
      BY <1>2, <1>6, <2>1 DEF Shuffled
    <3>2. PICK x \in DOMAIN rr : bb[from] = rr[x]
      BY <1>2 DEF Shuffled, Known
    <3> QED BY <1>2, <1>5, <2>1, <3>1, <3>2
  <2> QED BY <2>1
<1>7. ASSUME NEW i \in DOMAIN rr
      PROVE  \E k \in DOMAIN qq : qq[k] = rr[i] /\ Leading(qq, k)
  <2>1. PICK k \in DOMAIN bb : bb[k] = rr[i] /\ Leading(bb, k)
    BY DEF Shuffled
  <2>2. PICK n \in DOMAIN bb : o(n) = k
    BY <1>0
  <2>3. ASSUME NEW m \in DOMAIN qq, m < n, Body(qq[m]) = Body(qq[n]) PROVE FALSE
    <3>1. Body(bb[o(m)]) = Body(bb[k]) /\ o(m) # k /\ o(m) \in DOMAIN bb
      BY <1>1, <1>3, <2>2, <2>3
    <3>2. o(m) # from /\ k # from
      BY <1>2, <1>6, <3>1
    <3>3. o(m) < k
      BY <1>1, <1>4, <2>2, <2>3, <3>2
    <3> QED BY <2>1, <3>1, <3>3 DEF Leading
  <2>4. Leading(qq, n)
    BY <2>3 DEF Leading
  <2> QED BY <1>1, <2>1, <2>2, <2>4
<1>8. Shuffled(rr, qq, taken)
  <2>1. \A k \in DOMAIN qq : \E i \in DOMAIN rr :
          Body(qq[k]) = Body(rr[i]) /\ (qq[k].id \in KnownIds(rr) => qq[k] = rr[i])
    BY <1>1 DEF Shuffled
  <2>2. \A k, m \in DOMAIN qq : (k # m /\ Body(qq[k]) = Body(qq[m])) =>
          \E i \in DOMAIN rr : Body(rr[i]) = Body(qq[k]) /\ rr[i].id \in taken
    BY <1>1 DEF Shuffled
  <2> QED BY <1>7, <2>1, <2>2 DEF Shuffled
<1> QED BY <1>8 DEF qq

LEMMA CopyShuffles ==
  ASSUME NEW r \in AgentPlan, NEW p \in AgentPlan, Known(r) \subseteq Known(p), NEW taken,
         Shuffled(r.steps, p.steps, taken),
         NEW id \in Known(p), id \in Known(r), NEW new_id \in StepId, new_id = id \/ new_id \notin Known(p)
  PROVE  Shuffled(r.steps, Duplicate(p, id, new_id).broken.steps, taken \cup {id})
<1> DEFINE rr == r.steps
           bb == p.steps
           f == FirstAt(bb, id)
           qq == Duplicate(p, id, new_id).broken.steps
           s == [bb[f] EXCEPT !.id = new_id]
           was(k) == IF k <= f THEN k ELSE k - 1
<1>1. /\ f \in DOMAIN bb /\ DOMAIN qq = 1 .. Len(bb) + 1
      /\ \A k \in DOMAIN qq : qq[k] = IF k <= f THEN bb[k] ELSE IF k = f + 1 THEN s ELSE bb[k - 1]
  BY CopySpares
<1>2. DOMAIN bb = 1 .. Len(bb) /\ Len(bb) \in Nat /\ bb[f] \in Step /\ bb[f].id = id
  BY KnownAt, StepDomain
<1> HIDE DEF qq, f
<1>3. Body(s) = Body(bb[f]) /\ s.id = new_id /\ (new_id = id => s = bb[f])
  BY <1>2 DEF Body, Step
<1> HIDE DEF s
<1>4. ASSUME NEW k \in DOMAIN qq
      PROVE  /\ was(k) \in DOMAIN bb /\ (k # f + 1 => qq[k] = bb[was(k)])
             /\ k = f + 1 => was(k) = f /\ qq[k] = s
  BY <1>1, <1>2
<1>5. \A k, m \in DOMAIN qq : k < m => was(k) < was(m) \/ (was(k) = was(m) /\ k = f /\ m = f + 1)
  BY <1>1, <1>2
<1>6. \A i \in DOMAIN bb : \E k \in DOMAIN qq : k # f + 1 /\ was(k) = i
  <2> SUFFICES ASSUME NEW i \in DOMAIN bb PROVE \E k \in DOMAIN qq : k # f + 1 /\ was(k) = i
    OBVIOUS
  <2>1. CASE i <= f
    BY <1>1, <1>2, <2>1
  <2>2. CASE i > f
    <3>1. i + 1 \in DOMAIN qq /\ i + 1 # f + 1 /\ was(i + 1) = i
      BY <1>1, <1>2, <2>2
    <3> QED BY <3>1
  <2> QED BY <1>1, <1>2, <2>1, <2>2
<1> HIDE DEF was
<1>7. \A k \in DOMAIN qq : Body(qq[k]) = Body(bb[was(k)])
  BY <1>3, <1>4
<1>8. PICK x \in DOMAIN rr : bb[f] = rr[x]
  BY <1>1, <1>2 DEF Shuffled, Known
<1>9. ASSUME NEW i \in DOMAIN rr
      PROVE  \E k \in DOMAIN qq : qq[k] = rr[i] /\ Leading(qq, k)
  <2>1. PICK k \in DOMAIN bb : bb[k] = rr[i] /\ Leading(bb, k)
    BY DEF Shuffled
  <2>2. PICK n \in DOMAIN qq : n # f + 1 /\ was(n) = k
    BY <1>6
  <2>3. \A m \in DOMAIN qq : m < n => was(m) < k
    BY <1>5, <2>2
  <2>4. Leading(qq, n)
    BY <1>4, <1>7, <2>1, <2>2, <2>3 DEF Leading
  <2> QED BY <1>4, <2>1, <2>2, <2>4
<1>10. ASSUME NEW k \in DOMAIN qq
       PROVE  \E i \in DOMAIN rr : Body(qq[k]) = Body(rr[i]) /\ (qq[k].id \in KnownIds(rr) => qq[k] = rr[i])
  <2>1. CASE k # f + 1
    <3>1. was(k) \in DOMAIN bb /\ qq[k] = bb[was(k)]
      BY <1>4, <2>1
    <3> QED BY <3>1 DEF Shuffled
  <2>2. CASE k = f + 1
    <3>1. qq[k] = s
      BY <1>4, <2>2
    <3>2. Body(qq[k]) = Body(rr[x]) /\ (qq[k].id \in KnownIds(rr) => qq[k] = rr[x])
      BY <1>3, <1>8, <3>1 DEF Known
    <3> QED BY <3>2
  <2> QED BY <2>1, <2>2
<1>11. ASSUME NEW k \in DOMAIN qq, NEW m \in DOMAIN qq, k # m, Body(qq[k]) = Body(qq[m])
       PROVE  \E i \in DOMAIN rr : Body(rr[i]) = Body(qq[k]) /\ rr[i].id \in taken \cup {id}
  <2>1. CASE was(k) # was(m)
    <3>1. was(k) \in DOMAIN bb /\ was(m) \in DOMAIN bb /\ Body(bb[was(k)]) = Body(bb[was(m)])
      BY <1>4, <1>7, <1>11
    <3>2. PICK i \in DOMAIN rr : Body(rr[i]) = Body(bb[was(k)]) /\ rr[i].id \in taken
      BY <2>1, <3>1 DEF Shuffled
    <3> QED BY <1>7, <3>2
  <2>2. CASE was(k) = was(m)
    <3>1. k \in Int /\ m \in Int
      BY <1>1
    <3>2. k < m \/ m < k
      BY <1>11, <3>1
    <3>3. was(k) \in Int /\ (k = f + 1 \/ m = f + 1)
      BY <1>2, <1>4, <1>5, <2>2, <3>2
    <3>4. was(k) = f
      BY <1>4, <2>2, <3>3
    <3>5. Body(rr[x]) = Body(qq[k]) /\ rr[x].id = id
      BY <1>2, <1>7, <1>8, <3>4
    <3> QED BY <3>5
  <2> QED BY <2>1, <2>2
<1>12. Shuffled(rr, qq, taken \cup {id})
  BY <1>9, <1>10, <1>11 DEF Shuffled
<1> QED BY <1>12 DEF qq

LEMMA CorruptionKeepsArguments ==
  ASSUME NEW p \in AgentPlan, NEW c, ByOneCall(p, c)
  PROVE  LET q == c.result.broken
         IN  \A k \in DOMAIN q.steps : \E i \in DOMAIN p.steps : q.steps[k].arguments = p.steps[i].arguments
<1> DEFINE q == c.result.broken
           Goal == \A k \in DOMAIN q.steps : \E i \in DOMAIN p.steps : q.steps[k].arguments = p.steps[i].arguments
<1>0. Known(p) \subseteq StepId
  BY NamesAreNames
<1>1. ASSUME NEW id \in Known(p), NEW s, Rewrites(p.steps, q.steps, id, s),
             s.arguments = p.steps[FirstAt(p.steps, id)].arguments
      PROVE  Goal
  <2> HIDE DEF q
  <2>1. \A k \in DOMAIN p.steps : q.steps[k].arguments = p.steps[k].arguments
    BY <1>1 DEF Rewrites
  <2> QED BY <1>1, <2>1 DEF Rewrites
<1>2. ASSUME NEW id \in Known(p), NEW deps \in SUBSET StepId,
             q = [p EXCEPT !.steps[FirstAt(p.steps, id)].input_from = deps]
      PROVE  Goal
  <2> DEFINE i == FirstAt(p.steps, id)
             s == [p.steps[i] EXCEPT !.input_from = deps]
  <2>1. p.steps[i] \in Step
    BY KnownAt, StepDomain
  <2>2. s.arguments = p.steps[i].arguments
    BY <2>1 DEF Step
  <2>3. Rewrites(p.steps, q.steps, id, s)
    <3> HIDE DEF q
    <3> QED BY <1>2, InputRewritten
  <2> HIDE DEF s, q, Goal
  <2> QED BY <1>1, <2>2, <2>3 DEF i
<1>3. ASSUME NEW id \in c.touched, NEW dep \in StepId, NEW x \in FreeIds(p, UnknownNames[dep]),
             CanBreakDependency(p, id, dep), c.result = BreakDependency(p, id, dep, x)
      PROVE  Goal
  <2> DEFINE i == FirstAt(p.steps, id)
             deps == (p.steps[i].input_from \ {dep}) \cup {x}
  <2>1. id \in Known(p) /\ x \in StepId
    BY <1>3, FreeNames, InjectorAssumption DEF CanBreakDependency
  <2>2. p.steps[i] \in Step
    BY <2>1, KnownAt, StepDomain
  <2>3. deps \in SUBSET StepId
    BY <2>1, <2>2 DEF Step
  <2>4. q = [p EXCEPT !.steps[i].input_from = deps]
    BY <1>3 DEF BreakDependency, Result
  <2> HIDE DEF deps, Goal, q
  <2> QED BY <1>2, <2>1, <2>3, <2>4
<1>4. ASSUME NEW id \in Known(p), NEW with \in Known(p), c.result = CloseCycle(p, id, with)
      PROVE  Goal
  <2> DEFINE i == FirstAt(p.steps, id)
             deps == p.steps[i].input_from \cup {with}
  <2>1. p.steps[i] \in Step
    BY KnownAt, StepDomain
  <2>2. deps \in SUBSET StepId
    BY <1>0, <2>1 DEF Step
  <2>3. q = [p EXCEPT !.steps[i].input_from = deps]
    BY <1>4 DEF CloseCycle, Result
  <2> HIDE DEF deps, Goal, q
  <2> QED BY <1>2, <2>2, <2>3
<1>5. ASSUME NEW id \in Known(p), q = DeleteStep(p, id).broken
      PROVE  Goal
  <2> HIDE DEF q
  <2> DEFINE left == DeleteStep(p, id).broken
  <2>0. \A k \in DOMAIN left.steps : \E i \in DOMAIN p.steps : left.steps[k] = p.steps[i]
    BY DeletionSpares
  <2> HIDE DEF left
  <2>1. \A k \in DOMAIN q.steps : \E i \in DOMAIN p.steps : q.steps[k] = p.steps[i]
    BY <1>5, <2>0 DEF left
  <2> QED BY <2>1
<1>6. ASSUME NEW id \in Known(p), NEW t \in Tool, c.result = SetTool(p, id, t)
      PROVE  Goal
  <2> DEFINE i == FirstAt(p.steps, id)
             s == [p.steps[i] EXCEPT !.tool = t]
  <2>1. p.steps[i] \in Step
    BY KnownAt, StepDomain
  <2>2. s.arguments = p.steps[i].arguments
    BY <2>1 DEF Step
  <2>3. q = [p EXCEPT !.steps[i].tool = t]
    BY <1>6 DEF SetTool, Result
  <2> HIDE DEF q
  <2>4. Rewrites(p.steps, q.steps, id, s)
    BY <2>3, ToolRewritten
  <2> HIDE DEF s
  <2> QED BY <1>1, <2>2, <2>4
<1>7. ASSUME NEW id \in Known(p), NEW to, CanMove(p, id, to), q = MoveEarlier(p, id, to).broken
      PROVE  Goal
  <2> DEFINE o(k) == Origin(k, LastAt(p.steps, id), to)
  <2> HIDE DEF q
  <2>1. /\ DOMAIN q.steps = DOMAIN p.steps
        /\ \A k \in DOMAIN p.steps : o(k) \in DOMAIN p.steps /\ q.steps[k] = p.steps[o(k)]
    BY <1>7, MoveSpares
  <2> HIDE DEF o
  <2> QED BY <2>1
<1>8. ASSUME NEW id \in Known(p), NEW new_id \in {id} \cup FreeIds(p, CopyNames[id]),
             q = Duplicate(p, id, new_id).broken
      PROVE  Goal
  <2> DEFINE f == FirstAt(p.steps, id)
             s == [p.steps[f] EXCEPT !.id = new_id]
  <2>1. new_id \in StepId
    BY <1>0, FreeNames, InjectorAssumption
  <2> HIDE DEF q
  <2>2. /\ f \in DOMAIN p.steps /\ DOMAIN q.steps = 1 .. Len(p.steps) + 1
        /\ \A k \in DOMAIN q.steps : q.steps[k] =
             IF k <= f THEN p.steps[k] ELSE IF k = f + 1 THEN s ELSE p.steps[k - 1]
    BY <1>8, <2>1, CopySpares
  <2>3. p.steps[f] \in Step /\ DOMAIN p.steps = 1 .. Len(p.steps) /\ Len(p.steps) \in Nat
    BY <2>2, StepDomain
  <2>4. s.arguments = p.steps[f].arguments
    BY <2>3 DEF Step
  <2> HIDE DEF s, f
  <2> SUFFICES ASSUME NEW k \in DOMAIN q.steps
               PROVE  \E i \in DOMAIN p.steps : q.steps[k].arguments = p.steps[i].arguments
    OBVIOUS
  <2>5. CASE k <= f
    <3>1. k \in DOMAIN p.steps
      BY <2>2, <2>3, <2>5
    <3> QED BY <2>2, <2>5, <3>1
  <2>6. CASE k = f + 1
    BY <2>2, <2>3, <2>4, <2>6
  <2>7. CASE k > f + 1
    <3>1. k - 1 \in DOMAIN p.steps /\ ~(k <= f) /\ k # f + 1
      BY <2>2, <2>3, <2>7
    <3> QED BY <2>2, <3>1
  <2> QED BY <2>2, <2>3, <2>5, <2>6, <2>7
<1>9. ASSUME c.result = DropStop(p)
      PROVE  Goal
  <2>1. q.steps = p.steps
    BY <1>9 DEF DropStop, Result, AgentPlan
  <2> QED BY <2>1
<1>10. ASSUME NEW r, CanDropRequired(p, r), c.result = DropRequired(p, r)
       PROVE  Goal
  <2>1. PICK id \in Known(p) : q = DeleteStep(p, id).broken
    BY <1>10, RequirementDropped
  <2> QED BY <1>5, <2>1
<1> HIDE DEF Goal
<1>11. Goal
  BY <1>3, <1>4, <1>5, <1>6, <1>7, <1>8, <1>9, <1>10 DEF ByOneCall, Touching
<1> QED BY <1>11 DEF Goal
=============================================================================
