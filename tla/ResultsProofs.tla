---------------------------- MODULE ResultsProofs ----------------------------
(***************************************************************************)
(* What a result stands for, where it is taken and where it is counted.    *)
(* However many cases are run and however often their objects are asked    *)
(* again, a result holds nothing of another repair, and its token counts   *)
(* are there just when the model ran to the end.  Whatever the tree of     *)
(* files the aggregator reads, each result in it is accounted for once,    *)
(* and no cell stands on one of several.  A repairer that asks an API      *)
(* asks with the budget it was given, and keeps the contract.              *)
(***************************************************************************)
EXTENDS RunCase, Autoregressive, Aggregate, ListsProofs, SequenceTheorems

Stamps == {repairer.mask, repairer.alignment, repairer.snaps, repairer.diagnostics}
Facts == {backend.hint, backend.hint_tokens, backend.positions}
Kinds == {f[1] : f \in given_up}

\* While new objects serve their first repair they hold nothing of another one, have
\* recorded at most the failure that ended it, and have counted positions just when
\* denoising is behind them.
FirstServed ==
  /\ repair # 0
  /\ Stamps \subseteq {0, repair} /\ Facts \subseteq {0, repair}
  /\ given_up = {} \/ \E kind \in {"alignment", "backend", "parse"} : pc = "returned" /\ given_up = {<<kind, repair>>}
  /\ pc \in {"mask", "align"} => backend.positions = 0
  /\ pc \in {"hint", "denoise"} => masked /\ backend.positions = 0
  /\ pc = "decode" => masked /\ backend.positions = repair
  /\ pc = "put_back" => (masked <=> backend.positions = repair)
  /\ pc = "returned" => ((masked /\ Kinds \subseteq {"parse"}) <=> backend.positions = repair)

ObjectsInv ==
  /\ repair \in Nat /\ served \in Nat
  /\ masked \in BOOLEAN
  /\ repairer \in [mask : Nat, alignment : Nat, snaps : Nat, diagnostics : Nat]
  /\ backend \in [hint : Nat, hint_tokens : Nat, positions : Nat]
  /\ pc \in {"idle", "mask", "align", "hint", "denoise", "decode", "put_back", "returned"}
  /\ pc # "idle" => served # 0
  /\ (pc # "idle" /\ served = 1) => FirstServed
  /\ ResultIsOfItsCase /\ CountsMeanTheModelRan

LEMMA ObjectsInit == Init => ObjectsInv
<1> SUFFICES ASSUME Init PROVE ObjectsInv
  OBVIOUS
<1>1. ResultIsOfItsCase /\ CountsMeanTheModelRan
  BY DEF Init, ResultIsOfItsCase, CountsMeanTheModelRan
<1> QED BY <1>1 DEF Init, ObjectsInv, NewRepairer, NewBackend

\* What every step but TakeResult does to the result: it keeps it or drops it.
LEMMA ResultKept ==
  ASSUME ResultIsOfItsCase, CountsMeanTheModelRan, result' = result \/ result' = <<>>
  PROVE  ResultIsOfItsCase' /\ CountsMeanTheModelRan'
<1>1. CASE result' = <<>>
  BY <1>1 DEF ResultIsOfItsCase, CountsMeanTheModelRan
<1>2. CASE result' = result
  <2>1. ResultIsOfItsCase'
    BY <1>2 DEF ResultIsOfItsCase
  <2>2. CountsMeanTheModelRan'
    BY <1>2, Zenon DEF CountsMeanTheModelRan
  <2> QED BY <2>1, <2>2
<1> QED BY <1>1, <1>2

\* A repair given up in its first serving leaves its one failure.
LEMMA FailureOnRecord ==
  ASSUME ObjectsInv, pc # "idle", pc # "returned", NEW kind \in {"alignment", "backend", "parse"}, GivesUp(kind),
         repair' = repair, served' = served, masked' = masked,
         served = 1 => /\ Stamps' \subseteq {0, repair} /\ Facts' \subseteq {0, repair}
                       /\ (masked /\ kind = "parse") <=> backend'.positions = repair
  PROVE  (pc' # "idle" /\ served' = 1) => FirstServed'
<1> SUFFICES ASSUME served = 1 PROVE FirstServed'
  OBVIOUS
<1>1. FirstServed /\ pc' = "returned" /\ given_up = {}
  BY DEF ObjectsInv, FirstServed, GivesUp
<1>2. given_up' = {<<kind, repair>>}
  BY <1>1 DEF GivesUp
<1>3. Kinds' = {kind}
  BY <1>2 DEF Kinds
<1> QED BY <1>1, <1>2, <1>3 DEF FirstServed

LEMMA ObjectsNext == ObjectsInv /\ [Next]_vars => ObjectsInv'
<1> SUFFICES ASSUME ObjectsInv, [Next]_vars PROVE ObjectsInv'
  OBVIOUS
<1> USE DEF ObjectsInv
<1>1. CASE Build
  <2>1. FirstServed'
    BY <1>1 DEF Build, NewRepairer, NewBackend, FirstServed, Stamps, Facts
  <2> QED BY <1>1, <2>1, ResultKept DEF Build, NewRepairer, NewBackend
<1>2. CASE Again
  BY <1>2, ResultKept DEF Again
<1>3. CASE Mask
  <2>1. served = 1 => FirstServed'
    BY <1>3 DEF Mask, FirstServed, Stamps, Facts
  <2> QED BY <1>3, <2>1, ResultKept DEF Mask
<1>4. CASE Align
  <2>1. CASE GivesUp("alignment") /\ UNCHANGED repairer
    <3>1. served = 1 => Stamps' \subseteq {0, repair} /\ Facts' \subseteq {0, repair} /\ backend'.positions # repair
      BY <1>4, <2>1 DEF Align, FirstServed, Stamps, Facts
    <3>2. (pc' # "idle" /\ served' = 1) => FirstServed'
      BY <1>4, <2>1, <3>1, FailureOnRecord DEF Align
    <3> QED BY <1>4, <2>1, <3>2, ResultKept DEF Align, GivesUp
  <2>2. CASE ~(GivesUp("alignment") /\ UNCHANGED repairer)
    <3>1. served = 1 => FirstServed'
      BY <1>4, <2>2 DEF Align, FirstServed, Stamps, Facts
    <3> QED BY <1>4, <2>2, <3>1, ResultKept DEF Align
  <2> QED BY <2>1, <2>2
<1>5. CASE HintFails
  <2>1. CASE Escape
    BY <1>5, <2>1, ResultKept DEF HintFails, Escape
  <2>2. CASE GivesUp("backend") /\ UNCHANGED result
    <3>1. served = 1 => Stamps' \subseteq {0, repair} /\ Facts' \subseteq {0, repair} /\ backend'.positions # repair
      BY <1>5, <2>2 DEF HintFails, FirstServed, Stamps, Facts
    <3>2. (pc' # "idle" /\ served' = 1) => FirstServed'
      BY <1>5, <2>2, <3>1, FailureOnRecord DEF HintFails
    <3> QED BY <1>5, <2>2, <3>2, ResultKept DEF HintFails, GivesUp
  <2> QED BY <1>5, <2>1, <2>2 DEF HintFails
<1>6. CASE Encode
  <2>1. served = 1 => FirstServed'
    BY <1>6 DEF Encode, FirstServed, Stamps, Facts
  <2> QED BY <1>6, <2>1, ResultKept DEF Encode
<1>7. CASE DenoiseFails
  <2>1. CASE Escape
    BY <1>7, <2>1, ResultKept DEF DenoiseFails, Escape
  <2>2. CASE GivesUp("backend") /\ UNCHANGED result
    <3>1. served = 1 => Stamps' \subseteq {0, repair} /\ Facts' \subseteq {0, repair} /\ backend'.positions # repair
      BY <1>7, <2>2 DEF DenoiseFails, FirstServed, Stamps, Facts
    <3>2. (pc' # "idle" /\ served' = 1) => FirstServed'
      BY <1>7, <2>2, <3>1, FailureOnRecord DEF DenoiseFails
    <3> QED BY <1>7, <2>2, <3>2, ResultKept DEF DenoiseFails, GivesUp
  <2> QED BY <1>7, <2>1, <2>2 DEF DenoiseFails
<1>8. CASE Denoise
  <2>1. served = 1 => FirstServed'
    BY <1>8 DEF Denoise, FirstServed, Stamps, Facts
  <2> QED BY <1>8, <2>1, ResultKept DEF Denoise
<1>9. CASE Decode
  <2>1. CASE Escape
    BY <1>9, <2>1, ResultKept DEF Decode, Escape
  <2>2. CASE pc' = "put_back" /\ UNCHANGED result
    <3>1. served = 1 => FirstServed'
      BY <1>9, <2>2 DEF Decode, FirstServed, Stamps, Facts
    <3> QED BY <1>9, <2>2, <3>1, ResultKept DEF Decode
  <2> QED BY <1>9, <2>1, <2>2 DEF Decode
<1>10. CASE PutBack
  <2>1. CASE masked /\ GivesUp("parse")
    <3>1. served = 1 => Stamps' \subseteq {0, repair} /\ Facts' \subseteq {0, repair} /\ backend'.positions = repair
      BY <1>10, <2>1 DEF PutBack, FirstServed, Stamps, Facts
    <3>2. (pc' # "idle" /\ served' = 1) => FirstServed'
      BY <1>10, <2>1, <3>1, FailureOnRecord DEF PutBack
    <3> QED BY <1>10, <2>1, <3>2, ResultKept DEF PutBack, GivesUp
  <2>2. CASE pc' = "returned" /\ UNCHANGED given_up
    <3>1. served = 1 => FirstServed'
      BY <1>10, <2>2 DEF PutBack, FirstServed, Stamps, Facts, Kinds
    <3> QED BY <1>10, <2>2, <3>1, ResultKept DEF PutBack
  <2> QED BY <1>10, <2>1, <2>2 DEF PutBack
<1>11. CASE TakeResult
  <2>1. FirstServed /\ pc = "returned"
    BY <1>11 DEF TakeResult
  <2>2. /\ result'.of = repair /\ result'.masked = masked /\ result'.failures = given_up
        /\ result'.stamps = Stamps /\ result'.facts = Facts /\ result'.positions = backend.positions
    BY <1>11 DEF TakeResult, Stamps, Facts
  <2>3. /\ \A f \in given_up : f[2] = repair
        /\ Cardinality(given_up) <= 1
    <3>1. CASE given_up = {}
      <4>1. Cardinality(given_up) = 0
        BY <3>1, FS_EmptySet
      <4> QED BY <3>1, <4>1
    <3>2. CASE given_up # {}
      <4>1. PICK kind : given_up = {<<kind, repair>>}
        BY <2>1, <3>2 DEF FirstServed
      <4>2. Cardinality(given_up) = 1
        BY <4>1, FS_Singleton
      <4> QED BY <4>1, <4>2
    <3> QED BY <3>1, <3>2
  <2>4. ResultIsOfItsCase'
    BY <2>1, <2>2, <2>3 DEF ResultIsOfItsCase, FirstServed
  <2>5. CountsMeanTheModelRan'
    BY <2>1, <2>2 DEF CountsMeanTheModelRan, FirstServed, Kinds
  <2> QED BY <1>11, <2>4, <2>5 DEF TakeResult
<1>12. CASE UNCHANGED vars
  <2>1. FirstServed => FirstServed'
    BY <1>12 DEF vars, FirstServed, Stamps, Facts, Kinds
  <2> QED BY <1>12, <2>1, ResultKept DEF vars
<1> QED BY <1>1, <1>2, <1>3, <1>4, <1>5, <1>6, <1>7, <1>8, <1>9, <1>10, <1>11, <1>12 DEF Next

\* A result file speaks of its own case alone, however many cases came before it and
\* whatever became of them.
THEOREM ResultsAreOfTheirCase == Spec => []ResultIsOfItsCase
<1>1. ObjectsInv => ResultIsOfItsCase
  BY DEF ObjectsInv
<1> QED BY <1>1, ObjectsInit, ObjectsNext, PTL DEF Spec

\* The token counts in a result are those of its own fill, and are there just when the
\* model ran to the end of it.
THEOREM CountsAreOfTheirFill == Spec => []CountsMeanTheModelRan
<1>1. ObjectsInv => CountsMeanTheModelRan
  BY DEF ObjectsInv
<1> QED BY <1>1, ObjectsInit, ObjectsNext, PTL DEF Spec
-----------------------------------------------------------------------------
Entry == [source : Nat \X Nat, payload : Payload]

\* The list holds the results at these places, each as it was read and each once.
Faithful(list, places) ==
  /\ list \in Seq(Entry)
  /\ \A k \in DOMAIN list : list[k].source \in places /\ list[k].payload = At(list[k].source)
  /\ \A k, m \in DOMAIN list : list[k].source = list[m].source => k = m
  /\ \A place \in places : \E k \in DOMAIN list : list[k].source = place

WithCase(n) == {place \in Places(n) : HasCase(At(place))}

LoadInv ==
  /\ files \in Seq(File) /\ read \in 0 .. Len(files)
  /\ Faithful(measurements, WithCase(read))
  /\ Faithful(without_case, Places(read) \ WithCase(read))
  /\ \A place \in Places(read) : Complete(At(place))
  /\ phase = "reported" => read = Len(files) /\ cells = [cell \in Matrix |-> FoundFor(cell)]

\* A result at one of the places is found in the list once, one at another not at all.
LEMMA FoundOnce ==
  ASSUME NEW list, NEW places, Faithful(list, places), NEW place
  PROVE  Cardinality(From(list, place)) = IF place \in places THEN 1 ELSE 0
<1>1. CASE place \in places
  <2>1. PICK k \in DOMAIN list : list[k].source = place
    BY <1>1 DEF Faithful
  <2>2. From(list, place) = {k}
    BY <2>1 DEF Faithful, From
  <2> QED BY <1>1, <2>2, FS_Singleton
<1>2. CASE place \notin places
  <2>1. From(list, place) = {}
    BY <1>2 DEF Faithful, From
  <2> QED BY <1>2, <2>1, FS_EmptySet
<1> QED BY <1>1, <1>2

\* What is filtered from a list by the places it came from holds just those places.
LEMMA FilteredIsFaithful ==
  ASSUME NEW list, NEW places, Faithful(list, places), NEW some \in SUBSET places,
         NEW K, K = {k \in DOMAIN list : list[k].source \in some}
  PROVE  Faithful(Sublist(list, K), some)
<1> DEFINE t == Sublist(list, K)
<1>1. list \in Seq(Entry) /\ K \in SUBSET DOMAIN list
  BY DEF Faithful
<1>2. /\ t \in Seq(Entry)
      /\ \A k \in DOMAIN t : Nth(K, k) \in K /\ t[k] = list[Nth(K, k)]
      /\ \A i \in K : Rank(K, i) \in DOMAIN t /\ t[Rank(K, i)] = list[i]
      /\ DOMAIN t = 1 .. Cardinality(K)
  BY <1>1, SublistOf
<1>3. \A k \in DOMAIN t : Rank(K, Nth(K, k)) = k
  <2>1. DOMAIN list = 1 .. Len(list) /\ Len(list) \in Nat
    BY <1>1
  <2>2. K \in SUBSET Int /\ IsFiniteSet(K)
    BY <1>1, <2>1, IndicesAreFinite
  <2> QED BY <1>2, <2>2, NthOf
<1> HIDE DEF t
<1>4. ASSUME NEW k \in DOMAIN t PROVE t[k].source \in some /\ t[k].payload = At(t[k].source)
  <2>1. Nth(K, k) \in DOMAIN list /\ list[Nth(K, k)].source \in some /\ t[k] = list[Nth(K, k)]
    BY <1>2, <1>4
  <2> QED BY <2>1 DEF Faithful
<1>5. ASSUME NEW k \in DOMAIN t, NEW m \in DOMAIN t, t[k].source = t[m].source PROVE k = m
  <2>1. Nth(K, k) \in DOMAIN list /\ Nth(K, m) \in DOMAIN list
    BY <1>1, <1>2, <1>5
  <2>2. list[Nth(K, k)].source = list[Nth(K, m)].source
    BY <1>2, <1>5
  <2>3. Nth(K, k) = Nth(K, m)
    BY <2>1, <2>2 DEF Faithful
  <2> QED BY <1>3, <1>5, <2>3
<1>6. ASSUME NEW place \in some PROVE \E k \in DOMAIN t : t[k].source = place
  <2>1. PICK i \in DOMAIN list : list[i].source = place
    BY <1>6 DEF Faithful
  <2> QED BY <1>2, <1>6, <2>1
<1>7. Faithful(t, some)
  BY <1>2, <1>4, <1>5, <1>6 DEF Faithful
<1> QED BY <1>7 DEF t

\* Lists of different places, one after the other, hold the places of both.
LEMMA JoinedIsFaithful ==
  ASSUME NEW s, NEW t, NEW S, NEW T, Faithful(s, S), Faithful(t, T), S \cap T = {}
  PROVE  Faithful(s \o t, S \cup T)
<1> DEFINE u == s \o t
<1>1. s \in Seq(Entry) /\ t \in Seq(Entry)
  BY DEF Faithful
<1>2. /\ Len(s) \in Nat /\ Len(t) \in Nat
      /\ DOMAIN s = 1 .. Len(s) /\ DOMAIN t = 1 .. Len(t)
  BY <1>1
<1>3. /\ u \in Seq(Entry) /\ Len(u) = Len(s) + Len(t)
      /\ \A i \in 1 .. Len(s) + Len(t) : u[i] = IF i <= Len(s) THEN s[i] ELSE t[i - Len(s)]
  BY <1>1, ConcatProperties, Zenon
<1>4. DOMAIN u = 1 .. Len(s) + Len(t)
  BY <1>3, <1>1
<1> HIDE DEF u
<1>5. \A k \in DOMAIN u : \/ k \in DOMAIN s /\ u[k] = s[k]
                          \/ ~(k <= Len(s)) /\ k - Len(s) \in DOMAIN t /\ u[k] = t[k - Len(s)]
  BY <1>2, <1>3, <1>4
<1>6. \A k \in DOMAIN s : k \in DOMAIN u /\ u[k] = s[k]
  BY <1>2, <1>3, <1>4
<1>7. \A k \in DOMAIN t : Len(s) + k \in DOMAIN u /\ u[Len(s) + k] = t[k]
  <2> TAKE k \in DOMAIN t
  <2>1. Len(s) + k \in DOMAIN u /\ ~(Len(s) + k <= Len(s)) /\ Len(s) + k - Len(s) = k
    BY <1>2, <1>4
  <2> QED BY <1>3, <1>4, <2>1
<1>8. ASSUME NEW k \in DOMAIN u
      PROVE  u[k].source \in S \cup T /\ u[k].payload = At(u[k].source)
  BY <1>5, <1>8 DEF Faithful
<1>9. ASSUME NEW k \in DOMAIN u, NEW m \in DOMAIN u, u[k].source = u[m].source PROVE k = m
  <2>1. CASE k \in DOMAIN s /\ u[k] = s[k]
    <3>1. u[m].source \in S
      BY <1>9, <2>1 DEF Faithful
    <3>2. m \in DOMAIN s /\ u[m] = s[m]
      BY <1>5, <1>9, <3>1 DEF Faithful
    <3> QED BY <1>9, <2>1, <3>2 DEF Faithful
  <2>2. CASE ~(k <= Len(s)) /\ k - Len(s) \in DOMAIN t /\ u[k] = t[k - Len(s)]
    <3>1. u[m].source \in T
      BY <1>9, <2>2 DEF Faithful
    <3>2. m - Len(s) \in DOMAIN t /\ u[m] = t[m - Len(s)]
      BY <1>5, <1>9, <3>1 DEF Faithful
    <3>3. k - Len(s) = m - Len(s)
      BY <1>9, <2>2, <3>2 DEF Faithful
    <3> QED BY <1>2, <1>4, <1>9, <3>3
  <2> QED BY <1>5, <1>9, <2>1, <2>2
<1>10. ASSUME NEW place \in S \cup T PROVE \E k \in DOMAIN u : u[k].source = place
  BY <1>6, <1>7, <1>10 DEF Faithful
<1>11. Faithful(u, S \cup T)
  BY <1>3, <1>8, <1>9, <1>10 DEF Faithful
<1> QED BY <1>11 DEF u

\* A file holds results, none of them when it is torn.
LEMMA FileHolds ==
  ASSUME NEW f \in File
  PROVE  f.entries \in Seq(Payload) /\ (f.state = "torn" => f.entries = <<>>)
<1>1. \A n \in Nat : \A e \in BoundedSeq(Payload, n) : e \in Seq(Payload)
  BY DEF BoundedSeq, SeqOf
<1>2. CASE f \in [state : {"torn", "cut"}, entries : {<<>>}]
  <2>1. <<>> \in Seq(Payload)
    OBVIOUS
  <2> QED BY <1>2, <2>1
<1>3. CASE f \in [state : {"one"}, entries : {<<p>> : p \in Payload}]
  <2>1. \A p \in Payload : <<p>> \in Seq(Payload)
    OBVIOUS
  <2> QED BY <1>3, <2>1
<1>4. CASE f \in [state : {"list"}, entries : BoundedSeq(Payload, MaxEntries)]
  <2>1. f.state = "list" /\ f.entries \in BoundedSeq(Payload, MaxEntries)
    BY <1>4
  <2> QED BY <1>1, <2>1, AggregateAssumption DEF AggregateAssumption
<1> QED BY <1>2, <1>3, <1>4 DEF File

\* One file more adds its own places, and no other list holds them.
LEMMA PlacesGrow ==
  ASSUME NEW n \in Nat
  PROVE  LET here == {n + 1} \X DOMAIN files[n + 1].entries
         IN  Places(n + 1) = Places(n) \cup here /\ Places(n) \cap here = {}
<1> DEFINE at(i) == {i} \X DOMAIN files[i].entries
<1>1. \A i \in 1 .. n : i \in 1 .. n + 1 /\ i # n + 1
  OBVIOUS
<1>2. \A i \in 1 .. n + 1 : i \in 1 .. n \/ i = n + 1
  OBVIOUS
<1>3. n + 1 \in 1 .. n + 1
  OBVIOUS
<1>4. \A place : \A i : place \in at(i) => place[1] = i
  OBVIOUS
<1>5. Places(n) = UNION {at(i) : i \in 1 .. n} /\ Places(n + 1) = UNION {at(i) : i \in 1 .. n + 1}
  BY DEF Places
<1> HIDE DEF at
<1>6. Places(n + 1) = Places(n) \cup at(n + 1)
  BY <1>1, <1>2, <1>3, <1>5
<1>7. Places(n) \cap at(n + 1) = {}
  BY <1>1, <1>4, <1>5
<1> QED BY <1>6, <1>7 DEF at

\* What load_results makes of a file holds its results, each once.
LEMMA EntriesAreFaithful ==
  ASSUME NEW i \in Nat, files[i].entries \in Seq(Payload)
  PROVE  Faithful(Entries(i), {i} \X DOMAIN files[i].entries)
<1> DEFINE e == files[i].entries
           t == Entries(i)
           here == {i} \X DOMAIN e
<1>1. DOMAIN e = 1 .. Len(e) /\ Len(e) \in Nat /\ \A j \in DOMAIN e : e[j] \in Payload
  OBVIOUS
<1>2. /\ t = [j \in 1 .. Len(e) |-> [source |-> <<i, j>>, payload |-> e[j]]]
      /\ \A j \in 1 .. Len(e) : [source |-> <<i, j>>, payload |-> e[j]] \in Entry
  BY <1>1 DEF Entries, Entry
<1>3. t \in Seq(Entry) /\ DOMAIN t = DOMAIN e
  BY <1>1, <1>2
<1>4. \A j \in DOMAIN e : t[j].source = <<i, j>> /\ t[j].payload = e[j]
  BY <1>1, <1>2
<1>5. \A j \in DOMAIN e : <<i, j>> \in here /\ At(<<i, j>>) = e[j]
  BY DEF At
<1>6. \A place \in here : \E j \in DOMAIN e : place = <<i, j>>
  OBVIOUS
<1>7. \A j, m : <<i, j>> = <<i, m>> => j = m
  OBVIOUS
<1> HIDE DEF t, e, here
<1>8. \A k \in DOMAIN t : t[k].source \in here /\ t[k].payload = At(t[k].source)
  BY <1>3, <1>4, <1>5
<1>9. \A k, m \in DOMAIN t : t[k].source = t[m].source => k = m
  BY <1>3, <1>4, <1>7
<1>10. \A place \in here : \E k \in DOMAIN t : t[k].source = place
  BY <1>3, <1>4, <1>6
<1>11. Faithful(t, here)
  BY <1>3, <1>8, <1>9, <1>10 DEF Faithful
<1> QED BY <1>11 DEF t, e, here

LEMMA LoadInit == Tree => LoadInv
<1> SUFFICES ASSUME Tree PROVE LoadInv
  OBVIOUS
<1>1. files \in Seq(File) /\ read \in 0 .. Len(files)
  <2>1. \A n \in Nat : \A e \in BoundedSeq(File, n) : e \in Seq(File)
    BY DEF BoundedSeq, SeqOf
  <2>2. files \in Seq(File)
    BY <2>1, AggregateAssumption DEF Tree, AggregateAssumption
  <2> QED BY <2>2 DEF Tree
<1>2. Places(read) = {}
  BY DEF Tree, Places
<1>3. Faithful(<<>>, {})
  BY DEF Faithful
<1>4. WithCase(read) = {} /\ Places(read) \ WithCase(read) = {}
  BY <1>2 DEF WithCase
<1> QED BY <1>1, <1>3, <1>4 DEF LoadInv, Tree

\* Reading a file adds its results with a case to the measurements, and notes the rest.
LEMMA ReadFileKeeps == LoadInv /\ ReadFile => LoadInv'
<1> SUFFICES ASSUME LoadInv, ReadFile PROVE LoadInv'
  OBVIOUS
<1> DEFINE n == read + 1
           here == {n} \X DOMAIN files[n].entries
           named == {place \in here : HasCase(At(place))}
<1>1. /\ read \in Nat /\ n \in 1 .. Len(files) /\ n \in Nat /\ read' = n
      /\ files' = files /\ phase' = phase /\ phase = "loading"
      /\ files \in Seq(File) /\ files[n] \in File
  BY DEF LoadInv, ReadFile
<1>2. Places(n) = Places(read) \cup here /\ Places(read) \cap here = {}
  BY <1>1, PlacesGrow
<1>3. /\ WithCase(n) = WithCase(read) \cup named
      /\ Places(n) \ WithCase(n) = (Places(read) \ WithCase(read)) \cup (here \ named)
      /\ WithCase(read) \cap named = {}
      /\ (Places(read) \ WithCase(read)) \cap (here \ named) = {}
  BY <1>2 DEF WithCase
<1>4. \A list, places : Faithful(list, places)' <=> Faithful(list', places')
  BY <1>1 DEF Faithful, At
<1>5. WithCase(read)' = WithCase(n) /\ Places(read)' = Places(n)
  BY <1>1 DEF WithCase, Places, At
<1>6. files[n].entries \in Seq(Payload) /\ (files[n].state = "torn" => files[n].entries = <<>>)
  BY <1>1, FileHolds
<1>7. Faithful(measurements', WithCase(n)) /\ Faithful(without_case', Places(n) \ WithCase(n))
  <2>1. CASE files[n].state = "torn"
    <3>1. here = {}
      BY <1>6, <2>1
    <3>2. named = {} /\ here \ named = {}
      BY <3>1
    <3>3. WithCase(n) = WithCase(read) /\ Places(n) \ WithCase(n) = Places(read) \ WithCase(read)
      BY <1>3, <3>2
    <3>4. measurements' = measurements /\ without_case' = without_case
      BY <1>1, <2>1 DEF ReadFile
    <3> QED BY <3>3, <3>4 DEF LoadInv
  <2>2. CASE files[n].state # "torn"
    <3> DEFINE e == Entries(n)
               K == Named(n)
               M == DOMAIN Entries(n) \ Named(n)
    <3>1. Faithful(e, here) /\ DOMAIN e = DOMAIN files[n].entries
      BY <1>1, <1>6, EntriesAreFaithful DEF Entries
    <3>2. ASSUME NEW j \in DOMAIN e
          PROVE  e[j].source \in here /\ (e[j].source \in named <=> j \in K)
      <4>1. e[j].source = <<n, j>> /\ j \in DOMAIN files[n].entries
        BY DEF Entries
      <4>2. <<n, j>> \in here /\ (<<n, j>> \in named <=> HasCase(files[n].entries[j]))
        BY <4>1 DEF At
      <4>3. j \in K <=> HasCase(files[n].entries[j])
        BY <4>1 DEF Named
      <4> HIDE DEF e, K, here, named
      <4> QED BY <4>1, <4>2, <4>3
    <3>3. K = {k \in DOMAIN e : e[k].source \in named}
      <4>1. K \subseteq DOMAIN e
        BY <3>1 DEF Named
      <4> HIDE DEF e, K, named, here
      <4> QED BY <3>2, <4>1
    <3>4. M = {k \in DOMAIN e : e[k].source \in here \ named}
      <4>1. M = DOMAIN e \ K
        OBVIOUS
      <4> HIDE DEF e, K, M, named, here
      <4> QED BY <3>2, <4>1
    <3>5. measurements' = measurements \o Sublist(e, K) /\ without_case' = without_case \o Sublist(e, M)
      BY <1>1, <2>2 DEF ReadFile
    <3>6. named \in SUBSET here /\ here \ named \in SUBSET here
      OBVIOUS
    <3> HIDE DEF e, K, M, here, named
    <3>7. Faithful(Sublist(e, K), named)
      BY <3>1, <3>3, <3>6, FilteredIsFaithful
    <3>8. Faithful(Sublist(e, M), here \ named)
      BY <3>1, <3>4, <3>6, FilteredIsFaithful
    <3>9. Faithful(measurements', WithCase(n))
      <4>1. Faithful(measurements, WithCase(read))
        BY DEF LoadInv
      <4> QED BY <1>3, <3>5, <3>7, <4>1, JoinedIsFaithful
    <3>10. Faithful(without_case', Places(n) \ WithCase(n))
      <4> DEFINE S == Places(read) \ WithCase(read)
                 T == here \ named
                 t == Sublist(e, M)
      <4>1. Faithful(without_case, S) /\ Faithful(t, T) /\ S \cap T = {}
        BY <1>3, <3>8 DEF LoadInv
      <4>2. without_case' = without_case \o t /\ Places(n) \ WithCase(n) = S \cup T
        BY <1>3, <3>5
      <4> HIDE DEF S, T, t
      <4> QED BY <4>1, <4>2, JoinedIsFaithful
    <3> QED BY <3>9, <3>10
  <2> QED BY <2>1, <2>2
<1>8. Faithful(measurements, WithCase(read))' /\ Faithful(without_case, Places(read) \ WithCase(read))'
  BY <1>1, <1>5, <1>7 DEF Faithful, At
<1>9. files' \in Seq(File) /\ read' \in 0 .. Len(files') /\ phase' # "reported"
  BY <1>1
<1>10. \A place \in Places(n) : Complete(At(place))
  <2>1. \A place \in Places(read) : Complete(At(place))
    BY DEF LoadInv
  <2>2. \A j \in DOMAIN files[n].entries : Complete(files[n].entries[j])
    BY DEF ReadFile, Unloadable
  <2>3. \A place \in here : Complete(At(place))
    BY <2>2 DEF At
  <2> HIDE DEF here
  <2> QED BY <1>2, <2>1, <2>3
<1>11. \A place \in Places(read)' : Complete(At(place))'
  BY <1>1, <1>5, <1>10 DEF Complete, HasCase, At
<1> QED BY <1>8, <1>9, <1>11 DEF LoadInv

LEMMA LoadNext == LoadInv /\ [AggregateNext]_aggregateVars => LoadInv'
<1> SUFFICES ASSUME LoadInv, [AggregateNext]_aggregateVars PROVE LoadInv'
  OBVIOUS
<1>1. CASE ReadFile
  BY <1>1, ReadFileKeeps
<1>2. ASSUME UNCHANGED <<files, read, measurements, without_case>>
      PROVE  /\ files' \in Seq(File) /\ read' \in 0 .. Len(files')
             /\ Faithful(measurements, WithCase(read))'
             /\ Faithful(without_case, Places(read) \ WithCase(read))'
             /\ \A place \in Places(read)' : Complete(At(place))'
             /\ \A cell : FoundFor(cell)' = FoundFor(cell)
  <2>1. WithCase(read)' = WithCase(read) /\ Places(read)' = Places(read)
    BY <1>2 DEF WithCase, Places, At
  <2>2. Faithful(measurements, WithCase(read)) /\ Faithful(without_case, Places(read) \ WithCase(read))
    BY DEF LoadInv
  <2>3. Faithful(measurements, WithCase(read))' /\ Faithful(without_case, Places(read) \ WithCase(read))'
    BY <1>2, <2>1, <2>2 DEF Faithful, At
  <2>4. \A cell : FoundFor(cell)' = FoundFor(cell)
    BY <1>2 DEF FoundFor, Claiming
  <2>5. \A place \in Places(read)' : Complete(At(place))'
    BY <1>2, <2>1 DEF LoadInv, Complete, HasCase, At
  <2> QED BY <1>2, <2>3, <2>4, <2>5 DEF LoadInv
<1>3. CASE ReadUnloadable
  BY <1>2, <1>3 DEF ReadUnloadable, LoadInv
<1>4. CASE BuildCells
  BY <1>2, <1>4 DEF BuildCells, LoadInv
<1>5. CASE UNCHANGED aggregateVars
  <2>1. UNCHANGED <<files, read, measurements, without_case, cells, phase>>
    BY <1>5 DEF aggregateVars
  <2>2. phase = "reported" => read = Len(files) /\ cells = [cell \in Matrix |-> FoundFor(cell)]
    BY DEF LoadInv
  <2>3. phase' = "reported" => read' = Len(files') /\ cells' = [cell \in Matrix |-> FoundFor(cell)']
    BY <1>2, <2>1, <2>2
  <2> QED BY <1>2, <2>1, <2>3 DEF LoadInv
<1> QED BY <1>1, <1>3, <1>4, <1>5 DEF AggregateNext

Misplaced(n) == {place \in WithCase(n) : Unknown(At(place).case) # {}}
ClaimedBy(n, cell) == {place \in WithCase(n) : At(place).case = cell}

\* Once everything is read, the results reported without a cell are those of a case the
\* matrix does not know, and a cell holds those of its own case.
LEMMA ReportIsFaithful ==
  ASSUME LoadInv, phase = "reported"
  PROVE  /\ Faithful(Unplaced, Misplaced(Len(files)))
         /\ \A cell \in Matrix : Faithful(cells[cell], ClaimedBy(Len(files), cell))
         /\ Faithful(without_case, Places(Len(files)) \ WithCase(Len(files)))
         /\ \A place \in WithCase(Len(files)) : At(place) \in Payload /\ Complete(At(place))
<1> DEFINE n == Len(files)
<1>1. /\ Faithful(measurements, WithCase(n)) /\ Faithful(without_case, Places(n) \ WithCase(n))
      /\ cells = [cell \in Matrix |-> FoundFor(cell)]
  BY DEF LoadInv
<1>2. \A k \in DOMAIN measurements :
        /\ measurements[k].source \in WithCase(n) /\ measurements[k].payload \in Payload
        /\ measurements[k].payload = At(measurements[k].source)
  <2>1. measurements \in Seq(Entry)
    BY <1>1 DEF Faithful
  <2>2. \A k \in DOMAIN measurements : measurements[k] \in Entry
    BY <2>1
  <2>3. \A e \in Entry : e.payload \in Payload
    BY DEF Entry
  <2> QED BY <1>1, <2>2, <2>3 DEF Faithful
<1>3. Faithful(Unplaced, Misplaced(n))
  <2> DEFINE K == {k \in DOMAIN measurements : Unknown(measurements[k].payload.case) # {}}
  <2>1. K = {k \in DOMAIN measurements : measurements[k].source \in Misplaced(n)}
    BY <1>2 DEF Misplaced
  <2>2. Misplaced(n) \in SUBSET WithCase(n)
    BY DEF Misplaced
  <2> HIDE DEF K
  <2>3. Faithful(Sublist(measurements, K), Misplaced(n))
    BY <1>1, <2>1, <2>2, FilteredIsFaithful
  <2> QED BY <2>3 DEF K, Unplaced
<1>4. ASSUME NEW cell \in Matrix PROVE Faithful(cells[cell], ClaimedBy(n, cell))
  <2>1. Claiming(cell) = {k \in DOMAIN measurements : measurements[k].source \in ClaimedBy(n, cell)}
    BY <1>2 DEF ClaimedBy, Claiming
  <2>2. ClaimedBy(n, cell) \in SUBSET WithCase(n)
    BY DEF ClaimedBy
  <2>3. Faithful(Sublist(measurements, Claiming(cell)), ClaimedBy(n, cell))
    BY <1>1, <2>1, <2>2, FilteredIsFaithful
  <2> QED BY <1>1, <1>4, <2>3 DEF FoundFor
<1>5. ASSUME NEW place \in WithCase(n) PROVE At(place) \in Payload /\ Complete(At(place))
  <2>1. PICK k \in DOMAIN measurements : measurements[k].source = place
    BY <1>1 DEF Faithful
  <2>2. Complete(At(place))
    BY <1>5 DEF LoadInv, WithCase
  <2> QED BY <1>2, <2>1, <2>2
<1> QED BY <1>1, <1>3, <1>4, <1>5

\* A case whose names are all known has its cell.
LEMMA KnownHasCell ==
  ASSUME NEW p \in Payload, HasCase(p), Complete(p)
  PROVE  Unknown(p.case) = {} <=> p.case \in Matrix
<1>1. p.case = [n \in Names |-> p.case[n]]
  BY AggregateAssumption DEF AggregateAssumption, Complete
<1>2. p.case \in Matrix <=> /\ p.case["model"] \in REPAIRERS /\ p.case["domain"] \in DOMAINS
                            /\ p.case["corruption"] \in CORRUPTIONS
  BY <1>1 DEF Matrix, Names
<1>3. KNOWN["model"] = REPAIRERS /\ KNOWN["domain"] = DOMAINS /\ KNOWN["corruption"] = CORRUPTIONS
  BY DEF KNOWN
<1> QED BY <1>2, <1>3 DEF Unknown, Names

\* Whatever the files hold, every result in them is placed in one cell, or named as one
\* the matrix has no cell for, or as one without a case.
THEOREM EveryResultIsAccountedFor == AggregateSpec => []NothingIsDropped
<1>1. LoadInv => NothingIsDropped
  <2> DEFINE n == Len(files)
             holding(place) == {cell \in Matrix : From(cells[cell], place) # {}}
  <2> SUFFICES ASSUME LoadInv, phase = "reported", NEW place \in Places(n)
               PROVE  Cardinality(From(Unplaced, place)) + Cardinality(From(without_case, place))
                        + Cardinality(holding(place)) = 1
    BY DEF NothingIsDropped
  <2>1. /\ Faithful(Unplaced, Misplaced(n)) /\ Faithful(without_case, Places(n) \ WithCase(n))
        /\ \A cell \in Matrix : Faithful(cells[cell], ClaimedBy(n, cell))
        /\ \A p \in WithCase(n) : At(p) \in Payload /\ Complete(At(p))
    BY ReportIsFaithful
  <2>2. Cardinality(From(Unplaced, place)) = IF place \in Misplaced(n) THEN 1 ELSE 0
    BY <2>1, FoundOnce
  <2>3. Cardinality(From(without_case, place)) = IF place \in WithCase(n) THEN 0 ELSE 1
    BY <2>1, FoundOnce
  <2>4. \A cell \in Matrix : From(cells[cell], place) # {} <=> place \in ClaimedBy(n, cell)
    BY <2>1 DEF Faithful, From
  <2>5. CASE place \in WithCase(n) /\ Unknown(At(place).case) = {}
    <3>1. At(place).case \in Matrix
      BY <2>1, <2>5, KnownHasCell DEF WithCase
    <3>2. holding(place) = {At(place).case}
      BY <2>4, <2>5, <3>1 DEF ClaimedBy
    <3>3. Cardinality(holding(place)) = 1
      BY <3>2, FS_Singleton
    <3> QED BY <2>2, <2>3, <2>5, <3>3 DEF Misplaced
  <2>6. CASE ~(place \in WithCase(n) /\ Unknown(At(place).case) = {})
    <3>1. holding(place) = {}
      <4>1. ASSUME NEW cell \in Matrix PROVE place \notin ClaimedBy(n, cell)
        BY <2>1, <2>6, <4>1, KnownHasCell DEF ClaimedBy, WithCase
      <4> QED BY <2>4, <4>1
    <3>2. Cardinality(holding(place)) = 0
      BY <3>1, FS_EmptySet
    <3> QED BY <2>2, <2>3, <2>6, <3>2 DEF Misplaced
  <2> QED BY <2>5, <2>6
<1> QED BY <1>1, LoadInit, LoadNext, PTL DEF AggregateSpec

\* A cell that is reported as measured stands on the only result of its case there is.
THEOREM MeasuredIsTheOnlyOne == AggregateSpec => []MeasuredStandsAlone
<1>1. LoadInv => MeasuredStandsAlone
  <2> DEFINE n == Len(files)
  <2> SUFFICES ASSUME LoadInv, phase = "reported", NEW cell \in Matrix, OutcomeOf(cell) \in MEASURED
               PROVE  Cardinality({place \in Places(n) : At(place).case = cell}) = 1
    BY DEF MeasuredStandsAlone
  <2> DEFINE list == cells[cell]
             claim(i) == [source |-> list[i].source, kind |-> Kind[cell.model], record |-> list[i].payload.record]
             found == {claim(i) : i \in DOMAIN list}
  <2>1. Faithful(list, ClaimedBy(n, cell))
    BY ReportIsFaithful
  <2>2. {place \in Places(n) : At(place).case = cell} = ClaimedBy(n, cell)
    <3>1. cell # NoCase
      BY DEF Matrix, NoCase
    <3> QED BY <3>1 DEF ClaimedBy, WithCase, HasCase
  <2>3. IsFiniteSet(found)
    <3>1. IsFiniteSet(DOMAIN list)
      <4>1. DOMAIN list = 1 .. Len(list) /\ Len(list) \in Nat
        BY <2>1 DEF Faithful
      <4> QED BY <4>1, SpanOf
    <3> DEFINE f == [i \in DOMAIN list |-> claim(i)]
    <3>2. f \in Surjection(DOMAIN list, found)
      BY DEF Surjection
    <3> HIDE DEF list, found, f
    <3> QED BY <3>1, <3>2, FS_Surjection
  <2>4. found # {} /\ ~(Cardinality(found) > 1)
    BY DEF OutcomeOf, Outcome, MEASURED
  <2>5. PICK x : found = {x}
    <3> HIDE DEF found
    <3>1. PICK x \in found : TRUE
      BY <2>4
    <3>2. Cardinality({x}) = 1 /\ IsFiniteSet({x}) /\ {x} \subseteq found
      BY FS_Singleton
    <3>3. Cardinality(found) \in Nat
      BY <2>3, FS_CardinalityType
    <3>4. {x} = found
      BY <2>3, <2>4, <3>2, <3>3, FS_Subset
    <3> QED BY <3>4
  <2>6. \A i \in DOMAIN list : list[i].source = x.source
    <3>1. \A i \in DOMAIN list : claim(i) = x
      BY <2>5
    <3> QED BY <3>1
  <2>7. DOMAIN list # {}
    BY <2>4
  <2> HIDE DEF list, found
  <2>8. ClaimedBy(n, cell) = {x.source}
    BY <2>1, <2>6, <2>7 DEF Faithful
  <2> QED BY <2>2, <2>8, FS_Singleton
<1> QED BY <1>1, LoadInit, LoadNext, PTL DEF AggregateSpec

(***************************************************************************)
(* A repairer that asks an API, for every environment, budget and number   *)
(* of repairs: requests carry the budget that was asked for, and every     *)
(* repair that comes back does so as the contract of a repairer says.      *)
(***************************************************************************)
\* Past the constructor the budget is the one asked for, and it alone is sent.
SentInv ==
  /\ environment.budget \in Budgets
  /\ stage \in {"idle", "connect", "request", "read", "parse"} =>
       IF argument.set THEN budget = argument.value
       ELSE Acceptable(environment.budget) /\ budget = Asked(environment.budget)
  /\ stage \in {"new", "unbuildable"} => requests = {}
  /\ requests \subseteq {budget}
  /\ stage \in {"new", "unbuildable", "idle", "connect", "request", "read", "parse"}

\* No step changes the environment, and each is one of those below.
LEMMA SentStep == ASSUME SentInv, [AutoregressiveNext]_autoregressiveVars PROVE SentInv'
<1> SUFFICES ASSUME AutoregressiveNext PROVE SentInv'
  BY DEF SentInv, autoregressiveVars, Acceptable, Asked
<1> USE DEF SentInv, Acceptable, Asked
<1>1. CASE Construct BY <1>1 DEF Construct
<1>2. CASE Repair BY <1>2 DEF Repair
<1>3. CASE Connect BY <1>3 DEF Connect, GiveUp
<1>8. CASE ConnectRaises BY <1>8 DEF ConnectRaises
<1>4. CASE Request BY <1>4 DEF Request, GiveUp
<1>5. CASE ReadNoChoices BY <1>5 DEF ReadNoChoices
<1>6. CASE Read BY <1>6 DEF Read, GiveUp
<1>7. CASE Parse BY <1>7 DEF Parse, GiveUp
<1> QED BY <1>1, <1>2, <1>3, <1>4, <1>5, <1>6, <1>7, <1>8 DEF AutoregressiveNext

\* "A budget that was asked for and quietly not applied" never happens: requests carry
\* the budget that was passed, or the one the environment asked for within the ceiling.
THEOREM BudgetHolds == AutoregressiveSpec => []BudgetIsAsAsked
<1>1. AutoregressiveInit => SentInv BY DEF AutoregressiveInit, SentInv
<1>2. SentInv /\ [AutoregressiveNext]_autoregressiveVars => SentInv' BY SentStep
<1>3. ASSUME SentInv PROVE BudgetIsAsAsked
  <2> DEFINE b == environment.budget
  <2>1. CASE stage \in {"new", "unbuildable"} BY <1>3, <2>1 DEF SentInv, BudgetIsAsAsked
  <2>2. CASE stage \notin {"new", "unbuildable"} /\ argument.set
    BY <1>3, <2>2 DEF SentInv, BudgetIsAsAsked
  <2>3. CASE stage \notin {"new", "unbuildable"} /\ ~argument.set
    <3>1. Acceptable(b) /\ requests \subseteq {Asked(b)} /\ b \in Budgets
      BY <1>3, <2>3 DEF SentInv
    <3>2. Asked(b) \in 1 .. MAX_OUTPUT_TOKENS_CEILING
      BY <3>1, AutoregressiveAssumption DEF Acceptable, Asked, Unset, Words, Number
    <3>3. b.set => Asked(b) = b.value BY DEF Asked
    <3> QED BY <2>3, <3>1, <3>2, <3>3 DEF BudgetIsAsAsked
  <2> QED BY <2>1, <2>2, <2>3
<1> QED BY <1>1, <1>2, <1>3, PTL DEF AutoregressiveSpec

-----------------------------------------------------------------------------
\* Failures are a sequence, a call in progress has returned nothing yet, and every
\* answer that is read has one of the shapes the API is tried with.
CallInv ==
  /\ failures \in Seq([kind : {"api", "parse"}, repair : Int, record : Int])
  /\ repairs \in Int /\ last_call \in Int
  /\ Busy => returned = "nothing"
  /\ stage \in {"read", "parse"} => answer \in Shapes

LEMMA GiveUpKeepsCall ==
  ASSUME CallInv, NEW kind \in {"api", "parse"}, NEW record \in Int, GiveUp(kind, record),
         repairs' = repairs
  PROVE  /\ failures' \in Seq([kind : {"api", "parse"}, repair : Int, record : Int])
         /\ Len(failures') = Len(failures) + 1
         /\ stage' = "idle" /\ returned' = "given" /\ ~Busy'
BY DEF CallInv, GiveUp, Busy

LEMMA CallStep == ASSUME CallInv, [AutoregressiveNext]_autoregressiveVars PROVE CallInv'
<1>1. CASE UNCHANGED autoregressiveVars BY <1>1 DEF CallInv, Busy, autoregressiveVars
<1>2. CASE Construct BY <1>2 DEF CallInv, Busy, Construct
<1>3. CASE Repair BY <1>3 DEF CallInv, Busy, Repair
<1>4. CASE Connect
  <2>1. CASE GiveUp("api", 0) BY <1>4, <2>1, GiveUpKeepsCall DEF CallInv, Connect, Busy
  <2>2. CASE ~GiveUp("api", 0) BY <1>4, <2>2 DEF CallInv, Connect, Busy
  <2> QED BY <2>1, <2>2
<1>5. CASE Request
  <2>1. CASE GiveUp("api", 0) BY <1>5, <2>1, GiveUpKeepsCall DEF CallInv, Request, Busy
  <2>2. CASE ~GiveUp("api", 0) BY <1>5, <2>2 DEF CallInv, Request, Busy
  <2> QED BY <2>1, <2>2
<1>6. CASE ReadNoChoices BY <1>6 DEF CallInv, ReadNoChoices, Busy
<1>9. CASE ConnectRaises BY <1>9 DEF CallInv, ConnectRaises, Busy
<1>7. CASE Read
  <2>1. CASE GiveUp("api", last_call') BY <1>7, <2>1, GiveUpKeepsCall DEF CallInv, Read, Busy
  <2>2. CASE ~GiveUp("api", last_call') BY <1>7, <2>2 DEF CallInv, Read, Busy
  <2> QED BY <2>1, <2>2
<1>8. CASE Parse
  <2>1. CASE GiveUp("parse", 0) BY <1>8, <2>1, GiveUpKeepsCall DEF CallInv, Parse, Busy
  <2>2. CASE ~GiveUp("parse", 0) BY <1>8, <2>2 DEF CallInv, Parse, Busy
  <2> QED BY <2>1, <2>2
<1> QED BY <1>1, <1>2, <1>3, <1>4, <1>5, <1>6, <1>7, <1>8, <1>9 DEF AutoregressiveNext

\* A step of the client is a step of the contract or none: only what returns to the
\* caller shows.
LEMMA ContractStep ==
  ASSUME CallInv, [AutoregressiveNext]_autoregressiveVars
  PROVE  [Contract!Next]_(Contract!vars)
<1> USE DEF Contract!vars, Contract!Next
<1>1. CASE UNCHANGED autoregressiveVars BY <1>1 DEF Busy, autoregressiveVars
<1>2. CASE Construct BY <1>2 DEF Busy, Construct
<1>3. CASE Repair
  <2>1. CASE returned = "raised" BY <1>3, <2>1 DEF Busy, Repair
  <2>2. CASE returned # "raised" BY <1>3, <2>2 DEF Busy, Repair, Contract!Call
  <2> QED BY <2>1, <2>2
<1>4. CASE Connect
  <2>1. CASE GiveUp("api", 0)
    BY <1>4, <2>1, GiveUpKeepsCall DEF Connect, Busy, Contract!GiveUp
  <2>2. CASE ~GiveUp("api", 0) BY <1>4, <2>2 DEF Connect, Busy
  <2> QED BY <2>1, <2>2
<1>5. CASE Request
  <2>1. CASE GiveUp("api", 0)
    BY <1>5, <2>1, GiveUpKeepsCall DEF Request, Busy, Contract!GiveUp
  <2>2. CASE ~GiveUp("api", 0) BY <1>5, <2>2 DEF Request, Busy
  <2> QED BY <2>1, <2>2
<1>6. CASE ReadNoChoices BY <1>6 DEF CallInv, ReadNoChoices, Busy
<1>9. CASE ConnectRaises BY <1>9 DEF CallInv, ConnectRaises, Busy
<1>7. CASE Read
  <2>1. CASE GiveUp("api", last_call')
    BY <1>7, <2>1, GiveUpKeepsCall DEF CallInv, Read, Busy, Contract!GiveUp
  <2>2. CASE ~GiveUp("api", last_call') BY <1>7, <2>2 DEF Read, Busy
  <2> QED BY <2>1, <2>2
<1>8. CASE Parse
  <2>1. CASE GiveUp("parse", 0)
    BY <1>8, <2>1, GiveUpKeepsCall DEF Parse, Busy, Contract!GiveUp
  <2>2. CASE ~GiveUp("parse", 0) BY <1>8, <2>2 DEF Parse, Busy, Contract!Answer
  <2> QED BY <2>1, <2>2
<1> QED BY <1>1, <1>2, <1>3, <1>4, <1>5, <1>6, <1>7, <1>8, <1>9 DEF AutoregressiveNext

\* "Failure is an outcome, not a crash": however many repairs are asked of one object,
\* each that comes back does so as the contract says.
THEOREM KeepsContract == AutoregressiveSpec => ImplementsContract
<1>1. AutoregressiveInit => CallInv BY DEF AutoregressiveInit, CallInv, Busy
<1>2. CallInv /\ [AutoregressiveNext]_autoregressiveVars => CallInv' BY CallStep
<1>3. AutoregressiveInit => Contract!Init BY DEF AutoregressiveInit, Contract!Init, Busy
<1>4. CallInv /\ [AutoregressiveNext]_autoregressiveVars => [Contract!Next]_(Contract!vars) BY ContractStep
<1> QED BY <1>1, <1>2, <1>3, <1>4, PTL DEF AutoregressiveSpec, ImplementsContract, Contract!Spec

-----------------------------------------------------------------------------
\* What is recorded of a failure refers to no call, or to the call of its own repair.
LEMMA GiveUpExplains ==
  ASSUME CallInv, EmptyIsExplained,
         NEW kind \in {"api", "parse"}, NEW record \in {0, repairs}, GiveUp(kind, record)
  PROVE  EmptyIsExplained'
<1>1. failures \in Seq([kind : {"api", "parse"}, repair : Int, record : Int]) /\ repairs \in Int
  BY DEF CallInv
<1>2. failures' = Append(failures, [kind |-> kind, repair |-> repairs, record |-> record])
  BY DEF GiveUp
<1>3. ASSUME NEW i \in DOMAIN failures'
      PROVE  failures'[i].record # 0 => failures'[i].record = failures'[i].repair
  <2>1. CASE i \in DOMAIN failures
    BY <1>1, <1>2, <2>1 DEF EmptyIsExplained
  <2>2. CASE i = Len(failures) + 1
    BY <1>1, <1>2, <2>2
  <2> QED BY <1>1, <1>2, <1>3, <2>1, <2>2
<1> QED BY <1>3 DEF EmptyIsExplained

\* "The error raised for an empty answer carries that record": that of its own request,
\* however many requests the object has made before.
THEOREM EmptyAnswersAreExplained == AutoregressiveSpec => []EmptyIsExplained
<1>1. AutoregressiveInit => CallInv /\ EmptyIsExplained
  BY DEF AutoregressiveInit, CallInv, Busy, EmptyIsExplained
<1>2. CallInv /\ [AutoregressiveNext]_autoregressiveVars => CallInv'
  BY CallStep
<1>3. CallInv /\ EmptyIsExplained /\ [AutoregressiveNext]_autoregressiveVars => EmptyIsExplained'
  <2> SUFFICES ASSUME CallInv, EmptyIsExplained, [AutoregressiveNext]_autoregressiveVars PROVE EmptyIsExplained'
    OBVIOUS
  <2>1. ASSUME UNCHANGED failures PROVE EmptyIsExplained'
    BY <2>1 DEF EmptyIsExplained
  <2>2. UNCHANGED failures \/ GiveUp("api", 0) \/ GiveUp("parse", 0) \/ GiveUp("api", repairs)
    <3>1. CASE Read BY <3>1 DEF Read
    <3>2. CASE ~Read BY <3>2 DEF AutoregressiveNext, autoregressiveVars, Construct, Repair, Connect, ConnectRaises, Request, ReadNoChoices, Parse
    <3> QED BY <3>1, <3>2
  <2> QED BY <2>1, <2>2, GiveUpExplains
<1> QED BY <1>1, <1>2, <1>3, PTL DEF AutoregressiveSpec
=============================================================================
