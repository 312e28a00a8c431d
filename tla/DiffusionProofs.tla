-------------------------- MODULE DiffusionProofs --------------------------
(***************************************************************************)
(* Theorems about a repair by remasking, for every plan over every         *)
(* vocabulary and whatever a backend answers.                              *)
(***************************************************************************)
EXTENDS Diffusion, InjectionProofs

(***************************************************************************)
(* FlattenSeq is given by a recursive function.  That there is one, and    *)
(* what it returns, holds of longer and longer fronts of the list: there   *)
(* is no least one of which it does not.                                   *)
(***************************************************************************)
Folds(f, lines, m) ==
  f = [i \in 1 .. m |-> IF i = 1 THEN lines[i] ELSE f[i - 1] \o lines[i]]

LEMMA FoldExists ==
  ASSUME NEW n \in Nat, NEW lines, NEW m \in 1 .. n
  PROVE  \E f : Folds(f, lines, m)
<1> DEFINE K == {x \in 1 .. n : ~ \E f : Folds(f, lines, x)}
<1> SUFFICES ASSUME K # {} PROVE FALSE
  OBVIOUS
<1>1. K \in SUBSET Int /\ IsFiniteSet(K)
  BY IndicesAreFinite
<1>2. PICK x \in K : \A y \in K : x <= y
  <2> HIDE DEF K
  <2> QED BY <1>1, LeastOf
<1>3. x \in 1 .. n /\ ~ \E f : Folds(f, lines, x)
  OBVIOUS
<1>4. CASE x = 1
  <2>1. Folds([i \in 1 .. 1 |-> lines[1]], lines, 1)
    BY DEF Folds
  <2> QED BY <1>3, <1>4, <2>1
<1>5. CASE x # 1
  <2>1. x - 1 \in 1 .. n /\ ~(x <= x - 1) /\ x \in Int
    BY <1>3, <1>5
  <2>2. PICK f : Folds(f, lines, x - 1)
    BY <1>2, <2>1
  <2> DEFINE g == [i \in 1 .. x |-> IF i = x THEN f[x - 1] \o lines[x] ELSE f[i]]
  <2>3. ASSUME NEW i \in 1 .. x PROVE g[i] = IF i = 1 THEN lines[i] ELSE g[i - 1] \o lines[i]
    <3>1. CASE i = x
      <4>1. i # 1 /\ i - 1 \in 1 .. x /\ i - 1 # x
        BY <1>3, <1>5, <3>1
      <4> QED BY <3>1, <4>1
    <3>2. CASE i # x
      <4>1. i \in 1 .. x - 1 /\ (i # 1 => (i - 1 \in 1 .. x /\ i - 1 # x))
        BY <1>3, <3>2
      <4> QED BY <2>2, <3>2, <4>1 DEF Folds
    <3> QED BY <3>1, <3>2
  <2>4. Folds(g, lines, x)
    <3>1. g = [i \in 1 .. x |-> g[i]]
      OBVIOUS
    <3> HIDE DEF g
    <3> QED BY <2>3, <3>1 DEF Folds
  <2> QED BY <1>3, <2>4
<1> QED BY <1>4, <1>5

LEMMA FlattenFolds ==
  ASSUME NEW S, NEW n \in Nat \ {0}, NEW lines \in [1 .. n -> Seq(S)]
  PROVE  \E f : Folds(f, lines, n) /\ FlattenSeq(lines) = f[n]
<1>1. Len(lines) = n
  <2>1. lines \in Seq(Seq(S))
    OBVIOUS
  <2> QED BY <2>1
<1> DEFINE flatten == CHOOSE f : f = [i \in 1 .. Len(lines) |-> IF i = 1 THEN lines[i] ELSE f[i - 1] \o lines[i]]
<1>2. PICK f : Folds(f, lines, n)
  <2>1. n \in 1 .. n
    OBVIOUS
  <2> QED BY <2>1, FoldExists
<1>3. flatten = [i \in 1 .. Len(lines) |-> IF i = 1 THEN lines[i] ELSE flatten[i - 1] \o lines[i]]
  <2>1. f = [i \in 1 .. Len(lines) |-> IF i = 1 THEN lines[i] ELSE f[i - 1] \o lines[i]]
    BY <1>1, <1>2 DEF Folds
  <2> QED BY <2>1
<1>4. FlattenSeq(lines) = flatten[n]
  BY <1>1 DEF FlattenSeq
<1> HIDE DEF flatten
<1>5. Folds(flatten, lines, n)
  BY <1>1, <1>3 DEF Folds
<1> QED BY <1>4, <1>5

\* Each front of the list is a front of the next.
LEMMA FoldGrows ==
  ASSUME NEW S, NEW n \in Nat, NEW lines \in [1 .. n -> Seq(S)], NEW f, Folds(f, lines, n),
         NEW m \in 1 .. n
  PROVE  /\ f[m] \in Seq(S)
         /\ \A i \in 1 .. m : /\ f[i] \in Seq(S)
                              /\ Len(f[i]) <= Len(f[m])
                              /\ \A k \in 1 .. Len(f[i]) : f[m][k] = f[i][k]
<1> DEFINE Grown(x) == /\ f[x] \in Seq(S)
                       /\ \A i \in 1 .. x : /\ f[i] \in Seq(S)
                                            /\ Len(f[i]) <= Len(f[x])
                                            /\ \A k \in 1 .. Len(f[i]) : f[x][k] = f[i][k]
           K == {x \in 1 .. n : ~Grown(x)}
<1> SUFFICES ASSUME K # {} PROVE FALSE
  OBVIOUS
<1>1. K \in SUBSET Int /\ IsFiniteSet(K)
  BY IndicesAreFinite
<1>2. PICK x \in K : \A y \in K : x <= y
  <2> HIDE DEF K
  <2> QED BY <1>1, LeastOf
<1>3. x \in 1 .. n /\ ~Grown(x)
  OBVIOUS
<1>4. lines[x] \in Seq(S) /\ f[x] = IF x = 1 THEN lines[x] ELSE f[x - 1] \o lines[x]
  BY <1>3 DEF Folds
<1>5. CASE x = 1
  <2>1. \A i \in 1 .. x : i = x
    BY <1>5
  <2>2. f[x] \in Seq(S)
    BY <1>4, <1>5
  <2> QED BY <1>3, <2>1, <2>2
<1>6. CASE x # 1
  <2>1. x - 1 \in 1 .. n /\ ~(x <= x - 1) /\ x \in Int
    BY <1>3, <1>6
  <2>2. Grown(x - 1)
    BY <1>2, <2>1
  <2> DEFINE a == f[x - 1]
             b == lines[x]
  <2>3. f[x] = a \o b /\ a \in Seq(S) /\ b \in Seq(S)
    BY <1>4, <1>6, <2>2
  <2>4. f[x] \in Seq(S) /\ Len(f[x]) = Len(a) + Len(b) /\ \A k \in 1 .. Len(a) : f[x][k] = a[k]
    <3> HIDE DEF a, b
    <3> QED BY <2>3
  <2>5. ASSUME NEW i \in 1 .. x
        PROVE  /\ f[i] \in Seq(S) /\ Len(f[i]) <= Len(f[x])
               /\ \A k \in 1 .. Len(f[i]) : f[x][k] = f[i][k]
    <3>1. CASE i = x
      <4>1. Len(f[x]) \in Nat
        BY <2>4
      <4> QED BY <2>4, <3>1, <4>1
    <3>2. CASE i # x
      <4>1. i \in 1 .. x - 1
        BY <2>1, <3>2
      <4>2. f[i] \in Seq(S) /\ Len(f[i]) <= Len(a) /\ \A k \in 1 .. Len(f[i]) : a[k] = f[i][k]
        BY <2>2, <4>1
      <4>3. Len(f[i]) \in Nat /\ Len(a) \in Nat /\ Len(b) \in Nat
        BY <2>3, <4>2
      <4> HIDE DEF a, b
      <4>4. ASSUME NEW k \in 1 .. Len(f[i]) PROVE f[x][k] = f[i][k]
        <5>1. k \in 1 .. Len(a)
          BY <4>2, <4>3
        <5> QED BY <2>4, <4>2, <5>1
      <4>5. Len(f[i]) <= Len(f[x])
        BY <2>4, <4>2, <4>3
      <4> QED BY <4>2, <4>4, <4>5
    <3> QED BY <3>1, <3>2
  <2>6. Grown(x)
    BY <2>4, <2>5
  <2> QED BY <1>3, <2>6
<1> QED BY <1>5, <1>6

\* The lines stand one after another, each at its place, and nothing else is there.
Stand(flat, lines) ==
  \E start \in [DOMAIN lines -> Nat] :
    /\ \A i \in DOMAIN lines : \A k \in 1 .. Len(lines[i]) :
         start[i] + k \in 1 .. Len(flat) /\ flat[start[i] + k] = lines[i][k]
    /\ \A i, j \in DOMAIN lines : i < j => start[i] + Len(lines[i]) <= start[j]
    /\ \A m \in 1 .. Len(flat) : \E i \in DOMAIN lines : m - start[i] \in 1 .. Len(lines[i])

LEMMA FlattenedIs ==
  ASSUME NEW S, NEW n \in Nat, NEW lines \in [1 .. n -> Seq(S)]
  PROVE  FlattenSeq(lines) \in Seq(S) /\ Stand(FlattenSeq(lines), lines)
<1> DEFINE flat == FlattenSeq(lines)
<1>0. DOMAIN lines = 1 .. n
  OBVIOUS
<1>1. CASE n = 0
  <2>1. lines \in Seq(Seq(S)) /\ Len(lines) = 0 /\ lines = <<>>
    BY <1>1
  <2>2. flat = <<>> /\ 1 .. n = {}
    BY <1>1, <2>1 DEF FlattenSeq
  <2>3. [i \in 1 .. n |-> 0] \in [1 .. n -> Nat]
    OBVIOUS
  <2>4. flat \in Seq(S) /\ 1 .. Len(flat) = {}
    BY <2>2
  <2> HIDE DEF flat
  <2> QED BY <1>0, <2>2, <2>3, <2>4 DEF flat, Stand
<1>2. CASE n # 0
  <2>1. PICK f : Folds(f, lines, n) /\ flat = f[n]
    BY <1>2, FlattenFolds
  <2> DEFINE start == [i \in 1 .. n |-> IF i = 1 THEN 0 ELSE Len(f[i - 1])]
  <2>2. n \in 1 .. n
    BY <1>2
  <2>3. ASSUME NEW m \in 1 .. n
        PROVE  /\ f[m] \in Seq(S)
               /\ \A i \in 1 .. m : /\ f[i] \in Seq(S)
                                    /\ Len(f[i]) <= Len(f[m])
                                    /\ \A k \in 1 .. Len(f[i]) : f[m][k] = f[i][k]
    BY <2>1, FoldGrows
  <2>4. flat \in Seq(S) /\ Len(flat) \in Nat
    BY <2>1, <2>2, <2>3
  <2> HIDE DEF flat
  <2>5. ASSUME NEW i \in 1 .. n
        PROVE  /\ start[i] \in Nat /\ Len(f[i]) = start[i] + Len(lines[i])
               /\ \A k \in 1 .. Len(lines[i]) : f[i][start[i] + k] = lines[i][k]
    <3>1. lines[i] \in Seq(S) /\ f[i] = IF i = 1 THEN lines[i] ELSE f[i - 1] \o lines[i]
      BY <2>1 DEF Folds
    <3>2. CASE i = 1
      <4>1. start[i] = 0 /\ Len(lines[i]) \in Nat
        BY <3>1, <3>2
      <4> HIDE DEF start
      <4> QED BY <3>1, <3>2, <4>1
    <3>3. CASE i # 1
      <4>1. i - 1 \in 1 .. n
        BY <3>3
      <4> DEFINE a == f[i - 1]
      <4>2. a \in Seq(S) /\ start[i] = Len(a) /\ f[i] = a \o lines[i]
        BY <2>3, <3>1, <3>3, <4>1
      <4>3. Len(a) \in Nat /\ Len(lines[i]) \in Nat
        BY <3>1, <4>2
      <4>6. lines[i] \in Seq(S)
        BY <3>1
      <4> HIDE DEF a, start
      <4>4. Len(f[i]) = Len(a) + Len(lines[i])
        BY <4>2, <4>6
      <4>5. ASSUME NEW k \in 1 .. Len(lines[i]) PROVE f[i][Len(a) + k] = lines[i][k]
        <5>1. Len(a) + k \in 1 .. Len(a) + Len(lines[i]) /\ ~(Len(a) + k <= Len(a)) /\ Len(a) + k - Len(a) = k
          BY <4>3
        <5>2. (a \o lines[i])[Len(a) + k] = lines[i][Len(a) + k - Len(a)]
          BY <3>1, <4>2, <4>3, <5>1
        <5> QED BY <4>2, <5>1, <5>2
      <4> QED BY <4>2, <4>3, <4>4, <4>5
    <3> QED BY <3>2, <3>3
  <2>6. ASSUME NEW i \in 1 .. n, NEW k \in 1 .. Len(lines[i])
        PROVE  start[i] + k \in 1 .. Len(flat) /\ flat[start[i] + k] = lines[i][k]
    <3>1. /\ Len(lines[i]) \in Nat /\ start[i] \in Nat /\ Len(f[i]) = start[i] + Len(lines[i])
          /\ f[i][start[i] + k] = lines[i][k]
      BY <2>5
    <3>2. Len(f[i]) <= Len(flat) /\ \A m \in 1 .. Len(f[i]) : flat[m] = f[i][m]
      BY <2>1, <2>2, <2>3
    <3> HIDE DEF start
    <3>3. start[i] + k \in 1 .. Len(f[i])
      BY <3>1
    <3>4. start[i] + k \in 1 .. Len(flat)
      BY <2>4, <3>1, <3>2, <3>3
    <3> QED BY <3>1, <3>2, <3>3, <3>4
  <2>7. ASSUME NEW i \in 1 .. n, NEW j \in 1 .. n, i < j
        PROVE  start[i] + Len(lines[i]) <= start[j]
    <3>1. j - 1 \in 1 .. n /\ i \in 1 .. j - 1 /\ j # 1
      BY <2>7
    <3>2. start[j] = Len(f[j - 1])
      BY <3>1
    <3> HIDE DEF start
    <3> QED BY <2>3, <2>5, <3>1, <3>2
  <2>8. ASSUME NEW m \in 1 .. Len(flat) PROVE \E i \in 1 .. n : m - start[i] \in 1 .. Len(lines[i])
    <3> DEFINE K == {i \in 1 .. n : m <= Len(f[i])}
    <3>1. K \in SUBSET Int /\ IsFiniteSet(K) /\ n \in K
      <4>1. n \in K
        BY <2>1, <2>2, <2>8
      <4> QED BY <4>1, IndicesAreFinite
    <3>2. PICK i \in K : \A j \in K : i <= j
      <4> HIDE DEF K
      <4> QED BY <3>1, LeastOf
    <3>3. i \in 1 .. n /\ m <= Len(f[i]) /\ start[i] \in Nat /\ Len(f[i]) = start[i] + Len(lines[i]) /\ m \in Nat /\ m > 0
      BY <2>4, <2>5, <2>8
    <3>4. start[i] < m
      <4>1. CASE i = 1
        BY <3>3, <4>1
      <4>2. CASE i # 1
        <5>1. i - 1 \in 1 .. n /\ ~(i <= i - 1) /\ start[i] = Len(f[i - 1])
          BY <3>3, <4>2
        <5>2. ~(m <= Len(f[i - 1]))
          BY <3>2, <5>1
        <5> HIDE DEF start
        <5> QED BY <3>3, <5>1, <5>2
      <4> QED BY <4>1, <4>2
    <3>5. Len(lines[i]) \in Nat
      BY <3>3
    <3> HIDE DEF start, K
    <3>6. m - start[i] \in 1 .. Len(lines[i])
      BY <3>3, <3>4, <3>5
    <3> QED BY <3>3, <3>6
  <2>9. start \in [1 .. n -> Nat]
    BY <2>5
  <2> HIDE DEF start
  <2>10. Stand(flat, lines)
    BY <1>0, <2>6, <2>7, <2>8, <2>9 DEF Stand
  <2> QED BY <2>4, <2>10 DEF flat
<1> QED BY <1>1, <1>2

-----------------------------------------------------------------------------
(***************************************************************************)
(* What comes back.  A text is a list of steps, or reaches out for one, a  *)
(* value with or without further keys, none, or no plan.                   *)
(***************************************************************************)
IsWritten(t) ==
  \/ t \in {Dropped, Junk}
  \/ \E ss : IsList(ss) /\ (t = Steps(ss) \/ t = Reaching(ss))
  \/ \E v : t = Value(v)
  \/ \E v, also : t = Naming(v, also)

Written(f) == \A key \in DOMAIN f : IsWritten(f[key])

Fitted(placed) == \A place \in DOMAIN placed : Fits(place, placed[place])

Spans(ss) == KnownIds(ss) \X {Whole, TOOL_FIELD, DEPENDENCY_FIELD}

LEMMA Kinds ==
  /\ \A x : Steps(x).kind = "steps" /\ Steps(x).value = x
  /\ \A x : Reaching(x).kind = "reaching" /\ Reaching(x).value = x
  /\ \A x : Value(x).kind = "value" /\ Value(x).value = x
  /\ \A x, y : Naming(x, y).kind = "naming" /\ Naming(x, y).value = x /\ Naming(x, y).also = y
  /\ Dropped.kind = "none" /\ Junk.kind = "junk"
  BY DEF Steps, Reaching, Value, Naming, Dropped, Junk

LEMMA KindTells ==
  ASSUME NEW t, IsWritten(t)
  PROVE  /\ t.kind = "steps" => IsList(t.value)
         /\ t.kind = "none" <=> t = Dropped
         /\ t.kind = "value" => t = Value(t.value)
<1>1. CASE t \in {Dropped, Junk}
  BY <1>1, Kinds
<1>2. ASSUME NEW x, IsList(x), t = Steps(x) \/ t = Reaching(x) PROVE t.kind \in {"steps", "reaching"} /\ t.value = x
  BY <1>2, Kinds
<1>3. CASE \E x : IsList(x) /\ (t = Steps(x) \/ t = Reaching(x))
  <2>1. PICK x : IsList(x) /\ (t = Steps(x) \/ t = Reaching(x))
    BY <1>3
  <2>2. t.kind \in {"steps", "reaching"} /\ t.value = x
    BY <1>2, <2>1
  <2> QED BY <2>1, <2>2, Kinds
<1>4. CASE \E v : t = Value(v)
  <2>1. PICK v : t = Value(v)
    BY <1>4
  <2> QED BY <2>1, Kinds
<1>5. CASE \E v, also : t = Naming(v, also)
  <2>1. PICK v, also : t = Naming(v, also)
    BY <1>5
  <2> QED BY <2>1, Kinds
<1> QED BY <1>1, <1>3, <1>4, <1>5 DEF IsWritten

\* A completion puts a value in place of a value.
LEMMA SnapKeepsKinds ==
  ASSUME NEW f, NEW ss, NEW spans, NEW tools, NEW dependencies
  PROVE  LET g == Snapped(f, ss, spans, tools, dependencies)
         IN  /\ DOMAIN g = DOMAIN f
             /\ \A key \in DOMAIN f : g[key] = f[key] \/ (f[key].kind = "value" /\ \E v : g[key] = Value(v))
<1> DEFINE g == Snapped(f, ss, spans, tools, dependencies)
<1>1. DOMAIN g = DOMAIN f
  BY DEF Snapped
<1>2. ASSUME NEW text, NEW span
      PROVE  LET t == SnappedText(text, span, ss, tools, dependencies)
             IN  t = text \/ (text.kind = "value" /\ \E v : t = Value(v))
  BY DEF SnappedText
<1>3. ASSUME NEW key \in DOMAIN f
      PROVE  g[key] = f[key] \/ (f[key].kind = "value" /\ \E v : g[key] = Value(v))
  <2> DEFINE span == CHOOSE x \in FieldSpans(spans, key) : TRUE
             t == SnappedText(f[key], span, ss, tools, dependencies)
  <2>1. g[key] = IF FieldSpans(spans, key) = {} THEN f[key] ELSE t
    BY DEF Snapped
  <2>2. t = f[key] \/ (f[key].kind = "value" /\ \E v : t = Value(v))
    BY <1>2
  <2> HIDE DEF t, g
  <2> QED BY <2>1, <2>2
<1> QED BY <1>1, <1>3

LEMMA PlacedIs ==
  ASSUME NEW ss, NEW f, NEW spans
  PROVE  LET p == Placed(ss, f, spans)
         IN  /\ \A place \in DOMAIN p : p[place] = f[Key(place)] /\ Key(place) \in DOMAIN f
             /\ \A place \in DOMAIN p :
                  \/ place[2] = Whole /\ \E id \in KnownIds(ss) \cap DOMAIN f : place = <<id, Whole>>
                  \/ place[2] # Whole /\ place \in spans
             /\ \A id : <<id, Whole>> \in DOMAIN p <=> id \in KnownIds(ss) \cap DOMAIN f
             /\ \A place : place[2] # Whole =>
                  (place \in DOMAIN p <=> /\ place \in spans /\ place[1] \notin DOMAIN f
                                          /\ Key(place) \in DOMAIN f /\ f[Key(place)] # Dropped)
<1> DEFINE p == Placed(ss, f, spans)
           lines == {<<id, Whole>> : id \in KnownIds(ss) \cap DOMAIN f}
           fields == {span \in spans : /\ span[2] # Whole /\ span[1] \notin DOMAIN f
                                       /\ Key(span) \in DOMAIN f /\ f[Key(span)] # Dropped}
<1>1. p = [place \in lines \cup fields |-> f[Key(place)]]
  BY DEF Placed
<1>2. \A id : Key(<<id, Whole>>) = id
  BY DEF Key
<1>3. \A place \in lines : place[2] = Whole /\ \E id \in KnownIds(ss) \cap DOMAIN f : place = <<id, Whole>>
  OBVIOUS
<1>4. \A id : <<id, Whole>> \in lines <=> id \in KnownIds(ss) \cap DOMAIN f
  OBVIOUS
<1>5. \A place \in fields : place[2] # Whole /\ place \in spans /\ Key(place) \in DOMAIN f
  OBVIOUS
<1>6. \A place : place \in fields <=> /\ place \in spans /\ place[2] # Whole /\ place[1] \notin DOMAIN f
                                      /\ Key(place) \in DOMAIN f /\ f[Key(place)] # Dropped
  OBVIOUS
<1>7. \A id : <<id, Whole>> \notin fields
  BY <1>5
<1> HIDE DEF lines, fields, p
<1>8. DOMAIN p = lines \cup fields /\ \A place \in DOMAIN p : p[place] = f[Key(place)]
  BY <1>1
<1>9. ASSUME NEW place \in lines PROVE Key(place) \in DOMAIN f
  BY <1>2, <1>3
<1>10. /\ \A place \in DOMAIN p : p[place] = f[Key(place)] /\ Key(place) \in DOMAIN f
       /\ \A place \in DOMAIN p :
            \/ place[2] = Whole /\ \E id \in KnownIds(ss) \cap DOMAIN f : place = <<id, Whole>>
            \/ place[2] # Whole /\ place \in spans
       /\ \A id : <<id, Whole>> \in DOMAIN p <=> id \in KnownIds(ss) \cap DOMAIN f
  BY <1>3, <1>4, <1>5, <1>7, <1>8, <1>9
<1>11. \A place : place[2] # Whole =>
         (place \in DOMAIN p <=> /\ place \in spans /\ place[1] \notin DOMAIN f
                                 /\ Key(place) \in DOMAIN f /\ f[Key(place)] # Dropped)
  BY <1>3, <1>6, <1>8
<1> QED BY <1>10, <1>11 DEF p

\* What is completed stands where what was written stood.
LEMMA SnapKeepsPlaces ==
  ASSUME NEW f, Written(f), NEW ss, NEW spans, NEW tools, NEW dependencies
  PROVE  LET p == Placed(ss, f, spans)
             g == Placed(ss, Snapped(f, ss, spans, tools, dependencies), spans)
         IN  /\ Written(p) /\ Written(g)
             /\ DOMAIN g = DOMAIN p
             /\ \A place \in DOMAIN p : g[place] = p[place] \/ (p[place].kind = "value" /\ g[place].kind = "value")
<1> DEFINE h == Snapped(f, ss, spans, tools, dependencies)
           p == Placed(ss, f, spans)
           g == Placed(ss, h, spans)
<1>1. /\ DOMAIN h = DOMAIN f
      /\ \A key \in DOMAIN f : h[key] = f[key] \/ (f[key].kind = "value" /\ \E v : h[key] = Value(v))
  BY SnapKeepsKinds
<1> HIDE DEF h
<1>2. ASSUME NEW key \in DOMAIN f
      PROVE  /\ h[key] = f[key] \/ (f[key].kind = "value" /\ h[key].kind = "value")
             /\ IsWritten(f[key]) /\ IsWritten(h[key])
             /\ h[key] = Dropped <=> f[key] = Dropped
  <2>1. IsWritten(f[key])
    BY DEF Written
  <2>2. CASE h[key] = f[key]
    BY <2>1, <2>2
  <2>3. CASE f[key].kind = "value" /\ \E v : h[key] = Value(v)
    <3>1. PICK v : h[key] = Value(v)
      BY <2>3
    <3>2. IsWritten(h[key]) /\ h[key].kind = "value"
      BY <3>1, Kinds DEF IsWritten
    <3> QED BY <2>1, <2>3, <3>2, Kinds
  <2> QED BY <1>1, <2>2, <2>3
<1>3. DOMAIN g = DOMAIN p
  BY <1>1, <1>2 DEF Placed
<1>4. /\ \A place \in DOMAIN p : p[place] = f[Key(place)] /\ Key(place) \in DOMAIN f
      /\ \A place \in DOMAIN g : g[place] = h[Key(place)] /\ Key(place) \in DOMAIN h
  BY PlacedIs
<1> HIDE DEF p, g
<1>5. Written(p) /\ Written(g)
  BY <1>1, <1>2, <1>3, <1>4 DEF Written
<1>6. \A place \in DOMAIN p : g[place] = p[place] \/ (p[place].kind = "value" /\ g[place].kind = "value")
  BY <1>2, <1>3, <1>4
<1> QED BY <1>3, <1>5, <1>6 DEF p, g, h

\* Where the completed texts fit, so did those written, and whole lines are untouched.
LEMMA SnapFits ==
  ASSUME NEW f, Written(f), NEW ss, NEW spans, NEW tools, NEW dependencies,
         Fitted(Placed(ss, Snapped(f, ss, spans, tools, dependencies), spans))
  PROVE  LET p == Placed(ss, f, spans)
             g == Placed(ss, Snapped(f, ss, spans, tools, dependencies), spans)
         IN  Fitted(p) /\ \A place \in DOMAIN p : place[2] = Whole => g[place] = p[place]
<1> DEFINE p == Placed(ss, f, spans)
           g == Placed(ss, Snapped(f, ss, spans, tools, dependencies), spans)
<1>1. /\ DOMAIN g = DOMAIN p
      /\ \A place \in DOMAIN p : g[place] = p[place] \/ (p[place].kind = "value" /\ g[place].kind = "value")
  BY SnapKeepsPlaces
<1>2. Fitted(g)
  OBVIOUS
<1> HIDE DEF p, g
<1>3. ASSUME NEW place \in DOMAIN p
      PROVE  Fits(place, p[place]) /\ (place[2] = Whole => g[place] = p[place])
  <2>1. Fits(place, g[place])
    BY <1>1, <1>2 DEF Fitted
  <2> QED BY <1>1, <2>1 DEF Fits
<1> QED BY <1>3 DEF Fitted, p, g

\* Texts of which none reaches out, if they parse at all, fit their places.
LEMMA ContainedFits ==
  ASSUME NEW f, NEW ss, NEW spans, NEW tools, NEW dependencies,
         \A key \in DOMAIN f : f[key].kind # "reaching"
  PROVE  LET g == Placed(ss, Snapped(f, ss, spans, tools, dependencies), spans)
         IN  /\ Reaches(g) = {}
             /\ Parses(ss, g) => Fitted(g)
             /\ Readings(ss, g) = {Rebuilt(ss, g)}
<1> DEFINE h == Snapped(f, ss, spans, tools, dependencies)
           g == Placed(ss, h, spans)
<1>1. /\ DOMAIN h = DOMAIN f
      /\ \A key \in DOMAIN f : h[key] = f[key] \/ (f[key].kind = "value" /\ \E v : h[key] = Value(v))
  BY SnapKeepsKinds
<1> HIDE DEF h
<1>2. ASSUME NEW key \in DOMAIN h PROVE h[key].kind # "reaching"
  BY <1>1, <1>2, Kinds
<1>3. \A place \in DOMAIN g : g[place] = h[Key(place)] /\ Key(place) \in DOMAIN h
  BY PlacedIs
<1> HIDE DEF g
<1>4. Reaches(g) = {}
  BY <1>2, <1>3 DEF Reaches
<1> QED BY <1>4 DEF Parses, Readings, Fitted, g, h

LEMMA ListOver ==
  ASSUME NEW s, IsList(s), NEW S, \A k \in DOMAIN s : s[k] \in S
  PROVE  s \in Seq(S)
<1> DEFINE T == {s[k] : k \in DOMAIN s}
<1>1. s \in Seq(T)
  BY DEF IsList
<1> HIDE DEF T
<1>2. Len(s) \in Nat /\ s \in [1 .. Len(s) -> T] /\ DOMAIN s = 1 .. Len(s)
  BY <1>1
<1>3. s \in [1 .. Len(s) -> S]
  BY <1>2
<1> QED BY <1>2, <1>3

LEMMA SingleIsList == ASSUME NEW x PROVE IsList(<<x>>)
<1> DEFINE T == {<<x>>[k] : k \in DOMAIN <<x>>}
<1>1. x \in T
  BY DOMAIN <<x>> = {1}, <<x>>[1] = x
<1> HIDE DEF T
<1>2. <<x>> \in Seq(T)
  BY <1>1
<1> QED BY <1>2 DEF IsList, T

LEMMA LineIsList ==
  ASSUME NEW step, NEW placed, Written(placed), Fitted(placed)
  PROVE  IsList(Line(step, placed))
<1> DEFINE place == <<step.id, Whole>>
<1>1. CASE place \notin DOMAIN placed
  <2>1. Line(step, placed) = <<Rewritten(step, placed)>>
    BY <1>1 DEF Line
  <2> QED BY <2>1, SingleIsList
<1>2. CASE place \in DOMAIN placed /\ placed[place] = Dropped
  <2>1. Line(step, placed) = <<>>
    BY <1>2 DEF Line
  <2> QED BY <2>1 DEF IsList
<1>3. CASE place \in DOMAIN placed /\ placed[place] # Dropped
  <2>1. place[2] = Whole /\ IsWritten(placed[place]) /\ Fits(place, placed[place])
    BY <1>3 DEF Written, Fitted
  <2>2. placed[place].kind \in {"steps", "none"}
    BY <2>1 DEF Fits
  <2>3. IsList(placed[place].value)
    BY <1>3, <2>1, <2>2, KindTells
  <2>4. Line(step, placed) = placed[place].value
    BY <1>3 DEF Line
  <2> QED BY <2>3, <2>4
<1> QED BY <1>1, <1>2, <1>3

\* The line of a step whose name no filling takes as a whole is that step, but for the
\* fields that are filled; and lines stand in the order of their steps.
LEMMA LinesStand ==
  ASSUME NEW S, NEW ss \in Seq(S), NEW f, Written(f), Fitted(f)
  PROVE  LET line == [i \in DOMAIN ss |-> Line(ss[i], f)]
             flat == Rebuilt(ss, f)
         IN  /\ IsList(flat) /\ Stand(flat, line)
             /\ \A i \in DOMAIN ss : IsList(line[i])
<1> DEFINE n == Len(ss)
           line == [i \in DOMAIN ss |-> Line(ss[i], f)]
           flat == Rebuilt(ss, f)
           L == UNION {{line[i][k] : k \in DOMAIN line[i]} : i \in DOMAIN ss}
<1>1. n \in Nat /\ DOMAIN ss = 1 .. n
  OBVIOUS
<1>2. ASSUME NEW i \in DOMAIN ss PROVE IsList(line[i])
  BY LineIsList
<1>3. ASSUME NEW i \in DOMAIN ss PROVE line[i] \in Seq(L) /\ DOMAIN line[i] = 1 .. Len(line[i])
  <2>1. \A k \in DOMAIN line[i] : line[i][k] \in L
    OBVIOUS
  <2>2. IsList(line[i])
    BY <1>2
  <2> HIDE DEF line, L
  <2>3. line[i] \in Seq(L)
    BY <2>1, <2>2, ListOver
  <2> QED BY <2>3
<1>4. line \in [1 .. n -> Seq(L)]
  <2>1. line = [i \in 1 .. n |-> line[i]]
    BY <1>1
  <2> HIDE DEF line, L
  <2> QED BY <1>1, <1>3, <2>1
<1>5. flat = FlattenSeq(line)
  BY DEF Rebuilt
<1> HIDE DEF n, line, flat, L
<1>6. flat \in Seq(L) /\ Stand(flat, line)
  BY <1>1, <1>4, <1>5, FlattenedIs
<1>7. DOMAIN flat = 1 .. Len(flat) /\ Len(flat) \in Nat
  BY <1>6
<1>8. IsList(flat)
  <2> DEFINE T == {flat[k] : k \in DOMAIN flat}
  <2>1. \A k \in 1 .. Len(flat) : flat[k] \in T
    BY <1>7
  <2>2. flat \in [1 .. Len(flat) -> L]
    BY <1>6
  <2> HIDE DEF T
  <2>3. flat \in [1 .. Len(flat) -> T]
    BY <2>1, <2>2
  <2>4. flat \in Seq(T)
    BY <1>7, <2>3
  <2> QED BY <2>4 DEF IsList, T
<1> QED BY <1>2, <1>6, <1>8 DEF line, flat

LEMMA SeqIsList == ASSUME NEW S, NEW s \in Seq(S) PROVE IsList(s)
<1> DEFINE T == {s[k] : k \in DOMAIN s}
<1>1. Len(s) \in Nat /\ DOMAIN s = 1 .. Len(s) /\ s \in [1 .. Len(s) -> S]
  OBVIOUS
<1>2. \A k \in 1 .. Len(s) : s[k] \in T
  BY <1>1
<1> HIDE DEF T
<1>3. s \in [1 .. Len(s) -> T]
  BY <1>1, <1>2
<1>4. s \in Seq(T)
  BY <1>1, <1>3
<1> QED BY <1>4 DEF IsList, T

LEMMA AnswerIsWritten == ASSUME NEW step, NEW part PROVE IsWritten(Answer(step, part))
<1>1. CASE part = Whole
  BY <1>1, SingleIsList DEF Answer, IsWritten
<1>2. CASE part # Whole
  BY <1>2 DEF Answer, IsWritten
<1> QED BY <1>1, <1>2

LEMMA TextIsWritten == ASSUME NEW part, NEW text, IsText(part, text) PROVE IsWritten(text)
<1>1. CASE text \in {Dropped, Junk}
  BY <1>1 DEF IsWritten
<1>2. CASE text.value \in Seq(Step) /\ (text = Reaching(text.value) \/ text = Steps(text.value))
  <2>1. IsList(text.value)
    BY <1>2, SeqIsList
  <2> QED BY <1>2, <2>1 DEF IsWritten
<1>3. CASE text = Value(text.value) \/ text = Naming(text.value, text.also)
  BY <1>3 DEF IsWritten
<1> QED BY <1>1, <1>2, <1>3 DEF IsText

LEMMA FillIsWritten == ASSUME Fill PROVE Written(filling')
<1>1. CASE OracleFills
  <2> SUFFICES ASSUME NEW key \in DOMAIN filling' PROVE IsWritten(filling'[key])
    BY DEF Written
  <2>1. PICK span : filling'[key] = IF span[1] \in Known(reference)
                                    THEN Answer(LastStep(reference, span[1]), span[2]) ELSE Dropped
    BY <1>1 DEF OracleFills
  <2> QED BY <2>1, AnswerIsWritten DEF IsWritten
<1>2. CASE EchoFills
  <2> SUFFICES ASSUME NEW key \in DOMAIN filling' PROVE IsWritten(filling'[key])
    BY DEF Written
  <2>1. PICK span : filling'[key] = Answer(LastStep(broken, span[1]), span[2])
    BY <1>2 DEF EchoFills
  <2> QED BY <2>1, AnswerIsWritten
<1>3. CASE ModelFills
  <2>1. CASE \E id \in spec.preserved_step_ids : filling' = [key \in {id} |-> Dropped]
    <3>1. \A key \in DOMAIN filling' : filling'[key] = Dropped
      BY <2>1
    <3> QED BY <3>1 DEF Written, IsWritten
  <2>2. CASE \E spans \in UNION {kSubset(n, spec.spans) : n \in 0 .. MaxModelSpans} :
               /\ filling' \in [Keys(spans) -> UNION {Texts(span) : span \in spans}]
               /\ \A key \in Keys(spans) : \E span \in spans : Key(span) = key /\ filling'[key] \in Texts(span)
    <3>1. PICK spans : /\ filling' \in [Keys(spans) -> UNION {Texts(span) : span \in spans}]
                       /\ \A key \in Keys(spans) : \E span \in spans : Key(span) = key /\ filling'[key] \in Texts(span)
      BY <2>2
    <3>2. ASSUME NEW key \in DOMAIN filling' PROVE IsWritten(filling'[key])
      <4>1. PICK span : filling'[key] \in Texts(span)
        BY <3>1
      <4>2. IsText(span[2], filling'[key])
        BY <4>1 DEF Texts
      <4> QED BY <4>2, TextIsWritten
    <3> QED BY <3>2 DEF Written
  <2> QED BY <1>3, <2>1, <2>2 DEF ModelFills
<1> QED BY <1>1, <1>2, <1>3 DEF Fill

\* A filled field is taken from what was masked, or named by a text written there; the
\* rest of the step stays.
LEMMA RestIsKept ==
  ASSUME NEW step \in Step, NEW placed, NEW open,
         \A part \in {TOOL_FIELD, DEPENDENCY_FIELD} : <<step.id, part>> \in DOMAIN placed =>
           /\ part \in open
           /\ placed[<<step.id, part>>].kind = "naming" => DOMAIN placed[<<step.id, part>>].also \subseteq open
  PROVE  LET r == Rewritten(step, placed)
         IN  /\ r.produces = step.produces
             /\ \A field \in {"id", TOOL_FIELD, "arguments", DEPENDENCY_FIELD} \ open : r[field] = step[field]
<1> DEFINE r == Rewritten(step, placed)
           tool == TextOf(placed, step, TOOL_FIELD)
           deps == TextOf(placed, step, DEPENDENCY_FIELD)
<1>1. ASSUME NEW part \in {TOOL_FIELD, DEPENDENCY_FIELD}, NEW field, field \notin open, NEW old
      PROVE  Named(TextOf(placed, step, part), field, old) = old
  <2>1. CASE <<step.id, part>> \in DOMAIN placed
    BY <1>1, <2>1 DEF Named, TextOf
  <2>2. CASE <<step.id, part>> \notin DOMAIN placed
    <3>1. TextOf(placed, step, part).kind = "value"
      BY <2>2, Kinds DEF TextOf
    <3> QED BY <3>1 DEF Named
  <2> QED BY <2>1, <2>2
<1>2. ASSUME NEW part \in {TOOL_FIELD, DEPENDENCY_FIELD}, part \notin open
      PROVE  TextOf(placed, step, part).value = step[part]
  BY <1>2, Kinds DEF TextOf
<1>3. DOMAIN step = {"id", "tool", "arguments", "input_from", "produces"}
  BY DEF Step
<1>4. /\ r.produces = step.produces
      /\ r.id = Named(deps, "id", Named(tool, "id", step.id))
      /\ r.tool = Named(deps, TOOL_FIELD, tool.value)
      /\ r.arguments = Named(deps, "arguments", step.arguments)
      /\ r.input_from = deps.value
  <2> HIDE DEF tool, deps
  <2>1. r = [step EXCEPT !.id = Named(deps, "id", Named(tool, "id", @)),
                         !.tool = Named(deps, TOOL_FIELD, tool.value),
                         !.arguments = Named(deps, "arguments", @),
                         !.input_from = deps.value]
    BY DEF Rewritten, tool, deps
  <2> HIDE DEF r
  <2> QED BY <1>3, <2>1
<1>5. ASSUME "id" \notin open PROVE r.id = step.id
  BY <1>1, <1>4, <1>5
<1>6. ASSUME TOOL_FIELD \notin open PROVE r.tool = step.tool
  <2>1. tool.value = step.tool /\ Named(deps, TOOL_FIELD, tool.value) = tool.value
    BY <1>1, <1>2, <1>6 DEF TOOL_FIELD
  <2> QED BY <1>4, <2>1
<1>7. ASSUME "arguments" \notin open PROVE r.arguments = step.arguments
  BY <1>1, <1>4, <1>7
<1>8. ASSUME DEPENDENCY_FIELD \notin open PROVE r.input_from = step.input_from
  <2>1. deps.value = step.input_from
    BY <1>2, <1>8 DEF DEPENDENCY_FIELD
  <2> QED BY <1>4, <2>1
<1> HIDE DEF r, tool, deps
<1>9. ASSUME NEW field \in {"id", TOOL_FIELD, "arguments", DEPENDENCY_FIELD} \ open PROVE r[field] = step[field]
  BY <1>5, <1>6, <1>7, <1>8 DEF TOOL_FIELD, DEPENDENCY_FIELD
<1> QED BY <1>4, <1>9 DEF r

AnswerInv ==
  /\ broken \in AgentPlan
  /\ Written(filling)
  /\ stage \in {"inject", "align", "fill", "put_back", "returned", "scored"}
  /\ stage # "inject" => spec.spans \subseteq Spans(broken.steps)

\* The plan a parsed text is, no text of it reaching out of its line.
Repaired == [broken EXCEPT !.steps = Rebuilt(@, PutBackFilling)]

LEMMA ReturnIsRepaired ==
  ASSUME Contained, Return, broken \in AgentPlan
  PROVE  plan' = Repaired /\ plan'.steps = Rebuilt(broken.steps, PutBackFilling)
<1>1. Readings(broken.steps, PutBackFilling) = {Rebuilt(broken.steps, PutBackFilling)}
  BY ContainedFits DEF Contained, PutBackFilling
<1>2. plan' = [broken EXCEPT !.steps = Rebuilt(broken.steps, PutBackFilling)]
  BY <1>1 DEF Return
<1> QED BY <1>2 DEF Repaired, AgentPlan

\* Where no masked field goes by a step's name, only masked places get a text.
LEMMA PlacesAreMasked ==
  ASSUME NEW ss, NEW spans \in SUBSET Spans(ss), NEW f, DOMAIN f \subseteq Keys(spans),
         \A span \in spans : span[2] # Whole => Key(span) \notin KnownIds(ss)
  PROVE  DOMAIN Placed(ss, f, spans) \subseteq spans
<1> DEFINE p == Placed(ss, f, spans)
<1> SUFFICES ASSUME NEW place \in DOMAIN p PROVE place \in spans
  OBVIOUS
<1>1. \/ place[2] = Whole /\ \E id \in KnownIds(ss) \cap DOMAIN f : place = <<id, Whole>>
      \/ place[2] # Whole /\ place \in spans
  BY PlacedIs
<1>2. ASSUME NEW id \in KnownIds(ss) \cap DOMAIN f, place = <<id, Whole>> PROVE place \in spans
  <2>1. PICK span \in spans : id = Key(span)
    BY <1>2 DEF Keys
  <2>2. span[2] = Whole
    BY <2>1
  <2>3. span[1] = id
    BY <2>1, <2>2 DEF Key
  <2>4. span = <<span[1], span[2]>>
    BY DEF Spans
  <2> QED BY <1>2, <2>2, <2>3, <2>4
<1> QED BY <1>1, <1>2

LEMMA KeptInOrder ==
  ASSUME AnswerInv, PutBack, Return, Parses(broken.steps, PutBackFilling), DOMAIN filling \subseteq Keys(spec.spans),
         KeysApart, Contained
  PROVE  OnlyTheMaskChanges'
<1> DEFINE ss == broken.steps
           f == PutBackFilling
           line == [i \in DOMAIN ss |-> Line(ss[i], f)]
           flat == Rebuilt(ss, f)
           kept == {i \in DOMAIN ss : Whole \notin Fields(i)}
           h == Snapped(filling, ss, spec.spans, snaps.tools, snaps.dependencies)
<1>1. ss \in Seq(Step)
  BY DEF AnswerInv, AgentPlan
<1>2. Written(f) /\ Fitted(f)
  BY SnapKeepsPlaces, ContainedFits DEF AnswerInv, PutBackFilling, Contained
<1>3. spec.spans \in SUBSET Spans(ss)
  BY DEF AnswerInv, PutBack
<1>4. DOMAIN h = DOMAIN filling
      /\ \A key \in DOMAIN filling : h[key] = filling[key] \/ (filling[key].kind = "value" /\ \E v : h[key] = Value(v))
  BY SnapKeepsKinds
<1>5. DOMAIN f \subseteq spec.spans
  <2>1. \A span \in spec.spans : span[2] # Whole => Key(span) \notin KnownIds(ss)
    BY DEF KeysApart, Known
  <2>2. f = Placed(ss, h, spec.spans)
    BY DEF PutBackFilling
  <2> HIDE DEF h, f, ss
  <2> QED BY <1>3, <1>4, <2>1, <2>2, PlacesAreMasked
<1>6. \A place \in DOMAIN f : f[place] = h[Key(place)] /\ Key(place) \in DOMAIN h
  BY PlacedIs DEF PutBackFilling
<1>7. plan'.steps = flat /\ broken' = broken /\ spec' = spec /\ filling' = filling
  BY ReturnIsRepaired DEF PutBack, injectionVars, AnswerInv
<1> HIDE DEF f, flat, line, ss, h
<1>8. IsList(flat) /\ Stand(flat, line) /\ DOMAIN line = DOMAIN ss
  BY <1>1, <1>2, LinesStand DEF line, flat
<1>9. PICK start \in [DOMAIN line -> Nat] :
        /\ \A i \in DOMAIN line : \A k \in 1 .. Len(line[i]) :
             start[i] + k \in 1 .. Len(flat) /\ flat[start[i] + k] = line[i][k]
        /\ \A i, j \in DOMAIN line : i < j => start[i] + Len(line[i]) <= start[j]
  BY <1>8 DEF Stand
<1>10. DOMAIN flat = 1 .. Len(flat)
  BY <1>8 DEF IsList
<1>11. ASSUME NEW i \in kept
       PROVE  /\ i \in DOMAIN ss /\ line[i] = <<Rewritten(ss[i], f)>>
              /\ start[i] \in Nat /\ start[i] + 1 \in DOMAIN flat /\ flat[start[i] + 1] = Rewritten(ss[i], f)
  <2>1. <<ss[i].id, Whole>> \notin DOMAIN f /\ i \in DOMAIN ss
    BY <1>5 DEF Fields, ss
  <2>2. line[i] = <<Rewritten(ss[i], f)>>
    BY <2>1 DEF Line, line
  <2>3. 1 \in 1 .. Len(line[i]) /\ line[i][1] = Rewritten(ss[i], f)
    BY <2>2
  <2> QED BY <1>8, <1>9, <1>10, <2>1, <2>2, <2>3
<1> DEFINE at == [i \in kept |-> start[i] + 1]
<1>12. at \in [kept -> DOMAIN flat]
  BY <1>11
<1>13. ASSUME NEW i \in kept, NEW j \in kept, i < j PROVE at[i] < at[j]
  <2>1. Len(line[i]) = 1
    <3>1. PICK x : x = Rewritten(ss[i], f)
      OBVIOUS
    <3>2. line[i] = <<x>>
      BY <1>11, <3>1
    <3> QED BY <3>2
  <2>2. start[i] + 1 <= start[j]
    BY <1>8, <1>9, <1>11, <1>13, <2>1
  <2> QED BY <1>11, <2>2
<1>14. ASSUME NEW i \in kept, NEW k, k = at[i] PROVE IsKept(i, k)'
  <2>1. plan'.steps[k] = Rewritten(ss[i], f) /\ ss[i] \in Step
    BY <1>1, <1>7, <1>11, <1>14
  <2> DEFINE open == Open(i)
  <2>2. ASSUME NEW part \in {TOOL_FIELD, DEPENDENCY_FIELD}, <<ss[i].id, part>> \in DOMAIN f
        PROVE  /\ part \in open
               /\ f[<<ss[i].id, part>>].kind = "naming" => DOMAIN f[<<ss[i].id, part>>].also \subseteq open
    <3> DEFINE place == <<ss[i].id, part>>
               key == Key(place)
    <3>1. part \in Fields(i) \ {Whole} /\ key \in DOMAIN filling /\ f[place] = h[key]
      BY <1>4, <1>5, <1>6, <2>2 DEF Fields, ss, TOOL_FIELD, DEPENDENCY_FIELD, Whole
    <3>2. ASSUME f[place].kind = "naming" PROVE filling[key].kind = "naming" /\ f[place].also = filling[key].also
      <4> HIDE DEF place, key
      <4> QED BY <1>4, <3>1, <3>2, Kinds
    <3>3. filling[key].kind = "naming" => DOMAIN filling[key].also \subseteq open
      BY <3>1 DEF Open, ss
    <3>4. part \in open
      BY <3>1 DEF Open
    <3> HIDE DEF open, key, place
    <3> QED BY <3>2, <3>3, <3>4 DEF place
  <2>3. Open(i)' = open /\ broken'.steps[i] = ss[i]
    BY <1>7 DEF Open, Fields, ss
  <2> HIDE DEF open
  <2>4. /\ Rewritten(ss[i], f).produces = ss[i].produces
        /\ \A field \in {"id", TOOL_FIELD, "arguments", DEPENDENCY_FIELD} \ open :
             Rewritten(ss[i], f)[field] = ss[i][field]
    BY <2>1, <2>2, RestIsKept
  <2> QED BY <2>1, <2>3, <2>4 DEF IsKept
<1>15. {i \in DOMAIN broken'.steps : Whole \notin Fields(i)'} = kept
  BY <1>7 DEF Fields, ss
<1> HIDE DEF kept, at
<1>16. PICK g, ks : g = at /\ ks = kept
  OBVIOUS
<1>17. g \in [ks -> DOMAIN plan'.steps]
  BY <1>7, <1>12, <1>16
<1>18. ASSUME NEW i \in ks PROVE IsKept(i, g[i])' /\ \A j \in ks : i < j => g[i] < g[j]
  BY <1>13, <1>14, <1>16
<1> QED BY <1>15, <1>16, <1>17, <1>18 DEF OnlyTheMaskChanges

LEMMA GivenUpIsKept ==
  ASSUME broken' \in AgentPlan, plan' = broken'
  PROVE  OnlyTheMaskChanges'
<1> DEFINE kept == {i \in DOMAIN broken'.steps : Whole \notin Fields(i)'}
<1>1. DOMAIN broken'.steps \subseteq Int
  BY StepDomain
<1>2. \A i \in kept : IsKept(i, i)'
  BY DEF IsKept
<1>3. PICK ks : ks = kept
  OBVIOUS
<1>4. \A i \in ks : i \in DOMAIN plan'.steps /\ IsKept(i, i)'
  BY <1>2, <1>3
<1> HIDE DEF kept
<1> DEFINE at == [i \in ks |-> i]
<1>5. at \in [ks -> DOMAIN plan'.steps]
  BY <1>4
<1>6. ASSUME NEW i \in ks PROVE IsKept(i, at[i])' /\ \A j \in ks : i < j => at[i] < at[j]
  <2>1. PICK k : k = at[i]
    OBVIOUS
  <2>2. IsKept(i, k)'
    BY <1>4, <2>1
  <2> QED BY <2>1, <2>2
<1> HIDE DEF at
<1> QED BY <1>3, <1>5, <1>6 DEF OnlyTheMaskChanges, kept

LEMMA ReturnedStands ==
  ASSUME OnlyTheMaskChanges, UNCHANGED <<broken, spec, plan, filling>>, Returned' => Returned
  PROVE  OnlyTheMaskChanges'
<1>1. \A i : Fields(i)' = Fields(i) /\ Open(i)' = Open(i)
  BY DEF Fields, Open
<1>2. \A i, k : IsKept(i, k)' <=> IsKept(i, k)
  BY <1>1 DEF IsKept
<1>3. KeysApart' = KeysApart /\ Contained' = Contained
  BY DEF KeysApart, Contained
<1> QED BY <1>1, <1>2, <1>3 DEF OnlyTheMaskChanges

(***************************************************************************)
(* The invariant behind the theorem: what the plan is repaired from stays  *)
(* a plan, and a filling stays what a backend may write.                   *)
(***************************************************************************)
AnswerHolds == GroundInv /\ AnswerInv /\ OnlyTheMaskChanges

LEMMA BrokenIsPlan ==
  ASSUME GroundInv, Corrupt
  PROVE  GroundInv'
<1>1. PICK c \in Corruptions(broken) \cup AimedCorruptions(broken) : Apply(c)
  BY DEF Corrupt, Inject, InjectAlone
<1>2. ByOneCall(broken, c)
  BY CorruptionCases
<1> QED BY <1>1, <1>2, CorruptionKeepsGround

LEMMA GroundStays ==
  ASSUME GroundInv, UNCHANGED injectionVars
  PROVE  GroundInv'
  BY DEF GroundInv, injectionVars, Damaged

LEMMA AnswerInit ==
  ASSUME NEW p \in AgentPlan, Valid(p), Measure(p)
  PROVE  AnswerHolds
<1>1. Sound(p.steps)
  BY ValidIsSound
<1>2. GroundInv
  <2>1. IsList(injected) /\ Damaged = {}
    BY DEF Measure, Intact, IsList, Damaged
  <2>2. ASSUME NEW k \in DOMAIN p.steps
        PROVE  At(p.steps, p.steps[k].id) = {k} /\ p.steps[k].input_from \subseteq Known(p)
    BY <1>1 DEF Sound, UniqueIds, At, Known
  <2> QED BY <1>1, <2>1, <2>2 DEF GroundInv, Measure, Intact
<1>3. AnswerInv
  BY <1>2 DEF AnswerInv, GroundInv, Measure, Written
<1>4. OnlyTheMaskChanges
  BY DEF OnlyTheMaskChanges, Returned, Measure
<1> QED BY <1>2, <1>3, <1>4 DEF AnswerHolds

LEMMA MaskTakesSteps ==
  ASSUME NEW ss, NEW paths
  PROVE  MaskSpec(ss, paths).spans \subseteq Spans(ss)
<1> DEFINE m == MaskSpec(ss, paths)
<1> SUFFICES ASSUME NEW span \in m.spans PROVE span \in Spans(ss)
  OBVIOUS
<1>1. \/ \E id \in KnownIds(ss) : span = <<id, Whole>>
      \/ \E path \in StepPaths(paths) : path[2] \in KnownIds(ss) /\ path[1] # "step" /\ span = <<path[2], path[1]>>
  BY DEF MaskSpec
<1>2. \A path \in StepPaths(paths) : path[1] \in {"step", TOOL_FIELD, DEPENDENCY_FIELD}
  BY DEF StepPaths
<1> HIDE DEF m
<1> QED BY <1>1, <1>2 DEF Spans

LEMMA AnswerInductive == AnswerHolds /\ [DiffusionNext]_diffusionVars => AnswerHolds'
<1> SUFFICES ASSUME AnswerHolds, [DiffusionNext]_diffusionVars PROVE AnswerHolds'
  OBVIOUS
<1>1. GroundInv /\ AnswerInv /\ OnlyTheMaskChanges /\ broken \in AgentPlan
  BY DEF AnswerHolds, AnswerInv
<1>2. ASSUME UNCHANGED diffusionVars PROVE AnswerHolds'
  <2>1. GroundInv'
    BY <1>1, <1>2, GroundStays DEF diffusionVars
  <2>2. AnswerInv'
    BY <1>1, <1>2 DEF AnswerInv, Written, diffusionVars, injectionVars
  <2>3. OnlyTheMaskChanges'
    BY <1>1, <1>2, ReturnedStands DEF Returned, diffusionVars, injectionVars
  <2> QED BY <2>1, <2>2, <2>3 DEF AnswerHolds
<1>3. CASE Corrupt
  <2>1. GroundInv'
    BY <1>1, <1>3, BrokenIsPlan
  <2>2. AnswerInv'
    BY <1>1, <1>3, <2>1 DEF AnswerInv, GroundInv, Corrupt, Written
  <2>3. OnlyTheMaskChanges'
    BY <1>3 DEF OnlyTheMaskChanges, Returned, Corrupt
  <2> QED BY <2>1, <2>2, <2>3 DEF AnswerHolds
<1>4. ASSUME UNCHANGED injectionVars, Mask \/ Align \/ BackendFails \/ Fill \/ PutBack \/ TakeScore
      PROVE  GroundInv' /\ broken' \in AgentPlan
  BY <1>1, <1>4, GroundStays DEF injectionVars
<1>5. CASE Mask
  <2>1. GroundInv' /\ broken' \in AgentPlan
    BY <1>4, <1>5 DEF Mask
  <2>2. spec'.spans \subseteq Spans(broken'.steps)
    BY <1>5, MaskTakesSteps DEF Mask, injectionVars
  <2>3. AnswerInv' /\ OnlyTheMaskChanges'
    BY <1>1, <1>5, <2>1, <2>2 DEF AnswerInv, Written, OnlyTheMaskChanges, Returned, Mask
  <2> QED BY <2>1, <2>3 DEF AnswerHolds
<1>6. ASSUME UNCHANGED <<injectionVars, spec, filling>>, stage # "inject", NEW kind, GiveUp(kind)
      PROVE  AnswerHolds'
  <2>1. GroundInv'
    BY <1>1, <1>6, GroundStays
  <2>2. broken' \in AgentPlan /\ plan' = broken'
    BY <1>1, <1>6 DEF GiveUp, injectionVars
  <2>3. AnswerInv'
    BY <1>1, <1>6, <2>2 DEF AnswerInv, Written, GiveUp, injectionVars
  <2>4. OnlyTheMaskChanges'
    BY <2>2, GivenUpIsKept
  <2> QED BY <2>1, <2>3, <2>4 DEF AnswerHolds
<1>7. CASE Align
  <2>1. CASE GiveUp("alignment")
    BY <1>6, <1>7, <2>1 DEF Align
  <2>2. CASE stage' = "fill"
    <3>1. GroundInv' /\ broken' \in AgentPlan
      BY <1>4, <1>7 DEF Align
    <3>2. AnswerInv' /\ OnlyTheMaskChanges'
      BY <1>1, <1>7, <2>2, <3>1 DEF AnswerInv, Written, OnlyTheMaskChanges, Returned, Align, injectionVars
    <3> QED BY <3>1, <3>2 DEF AnswerHolds
  <2> QED BY <1>7, <2>1, <2>2 DEF Align
<1>8. CASE BackendFails
  BY <1>6, <1>8 DEF BackendFails
<1>9. CASE Fill
  <2>1. GroundInv' /\ broken' \in AgentPlan
    BY <1>4, <1>9 DEF Fill
  <2>2. Written(filling')
    BY <1>9, FillIsWritten
  <2>3. Written(filling)' /\ stage' = "put_back" /\ spec'.spans \subseteq Spans(broken'.steps)
    BY <1>1, <1>9, <2>2 DEF AnswerInv, Written, Fill, injectionVars
  <2>4. AnswerInv' /\ OnlyTheMaskChanges'
    BY <2>1, <2>3 DEF AnswerInv, OnlyTheMaskChanges, Returned
  <2> QED BY <2>1, <2>4 DEF AnswerHolds
<1>10. CASE PutBack
  <2> DEFINE fits == DOMAIN filling \subseteq Keys(spec.spans)
             parses == Parses(broken.steps, PutBackFilling)
  <2>1. CASE ~fits
    BY <1>6, <1>10, <2>1 DEF PutBack
  <2>2. CASE fits /\ ~parses
    BY <1>6, <1>10, <2>2 DEF PutBack
  <2>3. CASE fits /\ parses
    <3>1. GroundInv' /\ broken' \in AgentPlan
      BY <1>4, <1>10 DEF PutBack
    <3>2. Return
      BY <1>10, <2>3 DEF PutBack
    <3>3. OnlyTheMaskChanges'
      <4>1. CASE KeysApart /\ Contained
        BY <1>1, <1>10, <2>3, <3>2, <4>1, KeptInOrder
      <4>2. CASE ~(KeysApart /\ Contained)
        BY <1>10, <4>2 DEF OnlyTheMaskChanges, KeysApart, Contained, PutBack, injectionVars
      <4> QED BY <4>1, <4>2
    <3>4. AnswerInv'
      BY <1>1, <1>10, <2>3, <3>1, <3>2 DEF AnswerInv, Written, PutBack, Return, injectionVars
    <3> QED BY <3>1, <3>3, <3>4 DEF AnswerHolds
  <2> QED BY <2>1, <2>2, <2>3
<1>11. CASE TakeScore
  <2>1. GroundInv' /\ broken' \in AgentPlan
    BY <1>4, <1>11 DEF TakeScore
  <2>2. AnswerInv'
    BY <1>1, <1>11, <2>1 DEF AnswerInv, Written, TakeScore, injectionVars
  <2>3. OnlyTheMaskChanges'
    BY <1>1, <1>11, ReturnedStands DEF Returned, TakeScore, injectionVars
  <2> QED BY <2>1, <2>2, <2>3 DEF AnswerHolds
<1> QED BY <1>2, <1>3, <1>5, <1>7, <1>8, <1>9, <1>10, <1>11 DEF DiffusionNext

LEMMA AnswersHold == DiffusionSpec => []AnswerHolds
<1> DEFINE Start == \E p \in AgentPlan : Valid(p) /\ Runs(p) /\ Measure(p)
<1>1. Start => AnswerHolds
  BY AnswerInit
<1> HIDE DEF Start
<1> QED BY <1>1, AnswerInductive, PTL DEF DiffusionSpec, Start

\* "Steps outside the mask are copied over verbatim" (remask.py): refused, unparseable,
\* off the mask or with further keys in a field, of every answer of texts that keep to
\* their lines, the steps that were not masked as a whole come back in their order, each
\* as it was outside its masked fields and the fields such keys name, where no masked
\* field is answered under the name of a step.
THEOREM OutsideTheMaskStands == DiffusionSpec => []OnlyTheMaskChanges
<1>1. AnswerHolds => OnlyTheMaskChanges
  BY DEF AnswerHolds
<1> QED BY <1>1, AnswersHold, PTL

-----------------------------------------------------------------------------
(***************************************************************************)
(* The result on record.  Without a filling nothing is rebuilt.            *)
(***************************************************************************)
LEMMA SinglesFlatten ==
  ASSUME NEW S, NEW s \in Seq(S)
  PROVE  FlattenSeq([i \in DOMAIN s |-> <<s[i]>>]) = s
<1> DEFINE n == Len(s)
           lines == [i \in DOMAIN s |-> <<s[i]>>]
           flat == FlattenSeq(lines)
<1>1. n \in Nat /\ DOMAIN s = 1 .. n /\ s = [i \in 1 .. n |-> s[i]]
  OBVIOUS
<1>2. lines \in [1 .. n -> Seq(S)]
  BY <1>1
<1>3. CASE n = 0
  <2>1. flat \in Seq(S) /\ Stand(flat, lines) /\ DOMAIN lines = {}
    <3>1. DOMAIN lines = {}
      BY <1>1, <1>3
    <3> HIDE DEF lines, n
    <3> QED BY <1>1, <1>2, <3>1, FlattenedIs
  <2> HIDE DEF flat, lines
  <2>2. 1 .. Len(flat) = {} /\ Len(flat) \in Nat
    BY <2>1 DEF Stand
  <2>3. flat = <<>> /\ s = <<>>
    BY <1>3, <2>1, <2>2
  <2> QED BY <2>3 DEF flat, lines
<1>4. CASE n # 0
  <2>1. PICK f : Folds(f, lines, n) /\ flat = f[n]
    BY <1>1, <1>2, <1>4, FlattenFolds
  <2> DEFINE Copied(x) == f[x] \in Seq(S) /\ Len(f[x]) = x /\ \A k \in 1 .. x : f[x][k] = s[k]
             K == {x \in 1 .. n : ~Copied(x)}
  <2>2. ASSUME K # {} PROVE FALSE
    <3>1. K \in SUBSET Int /\ IsFiniteSet(K)
      BY <1>1, IndicesAreFinite
    <3>2. PICK x \in K : \A y \in K : x <= y
      <4> HIDE DEF K
      <4> QED BY <2>2, <3>1, LeastOf
    <3>3. x \in 1 .. n /\ ~Copied(x)
      OBVIOUS
    <3>4. f[x] = IF x = 1 THEN lines[x] ELSE f[x - 1] \o lines[x]
      BY <2>1, <3>3 DEF Folds
    <3>5. lines[x] = <<s[x]>> /\ s[x] \in S
      BY <1>1, <3>3
    <3>6. CASE x = 1
      <4>1. f[x] = <<s[1]>> /\ s[1] \in S
        BY <3>4, <3>5, <3>6
      <4>2. f[x] \in Seq(S) /\ Len(f[x]) = 1 /\ f[x][1] = s[1]
        BY <4>1
      <4> QED BY <3>3, <3>6, <4>2
    <3>7. CASE x # 1
      <4>1. x - 1 \in 1 .. n /\ ~(x <= x - 1) /\ x \in Int
        BY <3>3, <3>7
      <4>2. Copied(x - 1)
        BY <3>2, <4>1
      <4> DEFINE a == f[x - 1]
      <4>3. a \in Seq(S) /\ Len(a) = x - 1 /\ \A k \in 1 .. x - 1 : a[k] = s[k]
        BY <4>2
      <4>4. f[x] = a \o <<s[x]>>
        BY <3>4, <3>5, <3>7
      <4> HIDE DEF a
      <4>5. f[x] = Append(a, s[x])
        BY <3>5, <4>3, <4>4
      <4>6. f[x] \in Seq(S) /\ Len(f[x]) = x /\ f[x][x] = s[x] /\ \A k \in 1 .. x - 1 : f[x][k] = a[k]
        BY <3>5, <4>1, <4>3, <4>5
      <4>7. ASSUME NEW k \in 1 .. x PROVE f[x][k] = s[k]
        <5>1. k = x \/ k \in 1 .. x - 1
          BY <4>1
        <5> QED BY <4>3, <4>6, <5>1
      <4>8. Copied(x)
        BY <4>6, <4>7
      <4> QED BY <3>3, <4>8
    <3> QED BY <3>6, <3>7
  <2>3. Copied(n)
    <3>1. n \in 1 .. n
      BY <1>1, <1>4
    <3> QED BY <2>2, <3>1
  <2>4. flat \in Seq(S) /\ Len(flat) = n /\ \A k \in 1 .. n : flat[k] = s[k]
    BY <2>1, <2>3
  <2> HIDE DEF flat, K, Copied
  <2>5. flat = [k \in 1 .. n |-> flat[k]]
    BY <2>4
  <2>6. flat = s
    BY <1>1, <2>4, <2>5
  <2> QED BY <2>6 DEF flat
<1> QED BY <1>3, <1>4

LEMMA NothingRebuilt ==
  ASSUME NEW ss \in Seq(Step), NEW placed, DOMAIN placed = {}
  PROVE  Rebuilt(ss, placed) = ss
<1>1. ASSUME NEW i \in DOMAIN ss PROVE Line(ss[i], placed) = <<ss[i]>>
  <2> DEFINE step == ss[i]
             r == Rewritten(step, placed)
             D == {"id", "tool", "arguments", "input_from", "produces"}
  <2>1. step \in Step
    OBVIOUS
  <2>2. Line(step, placed) = <<r>>
    BY DEF Line
  <2> HIDE DEF step
  <2>3. DOMAIN step = D /\ step = [x \in D |-> step[x]]
    BY <2>1 DEF Step
  <2>4. DOMAIN r = D /\ r = [x \in D |-> r[x]]
    BY <2>3 DEF Rewritten
  <2>5. /\ r.produces = step.produces
        /\ \A field \in {"id", TOOL_FIELD, "arguments", DEPENDENCY_FIELD} \ {} : r[field] = step[field]
    BY <2>1, RestIsKept
  <2> HIDE DEF r
  <2>6. \A x \in D : r[x] = step[x]
    BY <2>5 DEF TOOL_FIELD, DEPENDENCY_FIELD
  <2>7. r = step
    BY <2>3, <2>4, <2>6
  <2> QED BY <2>2, <2>7 DEF step
<1>2. [i \in DOMAIN ss |-> Line(ss[i], placed)] = [i \in DOMAIN ss |-> <<ss[i]>>]
  BY <1>1
<1> QED BY <1>2, SinglesFlatten DEF Rebuilt

\* Nothing filled, nothing placed.
LEMMA NothingPlaced ==
  ASSUME NEW ss, NEW f, DOMAIN f = {}, NEW spans, NEW tools, NEW dependencies
  PROVE  LET g == Placed(ss, Snapped(f, ss, spans, tools, dependencies), spans)
         IN  DOMAIN g = {} /\ Parses(ss, g)
<1> DEFINE h == Snapped(f, ss, spans, tools, dependencies)
           g == Placed(ss, h, spans)
<1>1. DOMAIN h = {}
  BY DEF Snapped
<1> HIDE DEF h
<1>2. DOMAIN g = {}
  BY <1>1, PlacedIs
<1> HIDE DEF g
<1>3. Parses(ss, g)
  BY <1>2 DEF Parses, LinesOf
<1> QED BY <1>2, <1>3 DEF g, h

(***************************************************************************)
(* The invariant behind the record: how a repair ended, and what it left.  *)
(***************************************************************************)
Unanswered == filling = <<>> /\ failures = {} /\ parsed = "none"
SpansNameSteps == spec.spans # {} => spec.masked_step_ids # {}

Ended ==
  \/ failures \in {{"alignment"}, {"backend"}} /\ plan = broken /\ parsed = "none"
     /\ (failures = {"alignment"} => filling = <<>>)
  \/ failures = {"parse"} /\ plan = broken /\ parsed = "no" /\ filling # <<>> /\ spec.masked_step_ids # {}
  \/ failures = {} /\ parsed = "yes" /\ (spec.masked_step_ids = {} => plan = broken)

ResultInv ==
  /\ stage \in {"inject", "align", "fill"} => Unanswered
  /\ stage \in {"align", "fill", "put_back"} => SpansNameSteps
  /\ stage = "put_back" => failures = {} /\ parsed = "none"
  /\ Returned => Ended
  /\ stage = "scored" => Solved(score) = (Valid(plan) /\ Runs(plan))

ResultHolds == AnswerHolds /\ ResultInv

LEMMA MaskNamesSteps ==
  ASSUME NEW ss, NEW paths, MaskSpec(ss, paths).spans # {}
  PROVE  MaskSpec(ss, paths).masked_step_ids # {}
  BY DEF MaskSpec

LEMMA EndedByPutBack ==
  ASSUME ResultHolds, PutBack
  PROVE  Ended'
<1>1. /\ broken \in AgentPlan /\ SpansNameSteps /\ failures = {} /\ parsed = "none"
      /\ broken' = broken /\ spec' = spec /\ filling' = filling
  BY DEF ResultHolds, AnswerHolds, AnswerInv, ResultInv, PutBack, injectionVars
<1> DEFINE fits == DOMAIN filling \subseteq Keys(spec.spans)
           parses == Parses(broken.steps, PutBackFilling)
<1>2. DOMAIN filling = {} => DOMAIN PutBackFilling = {} /\ parses
  BY NothingPlaced DEF PutBackFilling
<1>3. CASE ~fits
  BY <1>1, <1>3 DEF PutBack, GiveUp, Ended
<1>4. CASE fits /\ ~parses
  <2>1. DOMAIN filling # {}
    BY <1>2, <1>4
  <2>2. filling # <<>> /\ spec.masked_step_ids # {}
    BY <1>1, <1>4, <2>1 DEF SpansNameSteps, Keys
  <2> HIDE DEF fits, parses
  <2> QED BY <1>1, <1>4, <2>2 DEF PutBack, GiveUp, Ended, fits, parses
<1>5. CASE fits /\ parses
  <2>1. Return /\ parsed' = "yes" /\ failures' = {}
    BY <1>1, <1>5 DEF PutBack, Return
  <2>2. ASSUME spec.masked_step_ids = {} PROVE plan' = broken
    <3>1. DOMAIN filling = {}
      BY <1>1, <1>5, <2>2 DEF SpansNameSteps, Keys
    <3>2. DOMAIN PutBackFilling = {} /\ Contained
      BY <1>2, <3>1 DEF Contained
    <3>3. plan' = Repaired
      BY <1>1, <2>1, <3>2, ReturnIsRepaired
    <3>4. Rebuilt(broken.steps, PutBackFilling) = broken.steps
      BY <1>1, <3>2, NothingRebuilt DEF AgentPlan
    <3> QED BY <1>1, <3>3, <3>4 DEF Repaired, AgentPlan
  <2> QED BY <1>1, <2>1, <2>2 DEF Ended
<1> QED BY <1>3, <1>4, <1>5

LEMMA ResultInductive == ResultHolds /\ [DiffusionNext]_diffusionVars => ResultHolds'
<1> SUFFICES ASSUME ResultHolds, [DiffusionNext]_diffusionVars PROVE ResultInv'
  BY AnswerInductive DEF ResultHolds
<1>1. ResultInv
  BY DEF ResultHolds
<1>2. CASE UNCHANGED diffusionVars
  BY <1>1, <1>2 DEF ResultInv, Unanswered, SpansNameSteps, Returned, Ended, diffusionVars, injectionVars
<1>3. CASE Corrupt
  BY <1>1, <1>3 DEF ResultInv, Unanswered, Returned, Corrupt
<1>4. CASE Mask
  <2>1. SpansNameSteps'
    BY <1>4, MaskNamesSteps DEF Mask, SpansNameSteps
  <2> QED BY <1>1, <1>4, <2>1 DEF ResultInv, Unanswered, Returned, Mask
<1>5. CASE Align
  <2>1. CASE GiveUp("alignment")
    BY <1>1, <1>5, <2>1 DEF ResultInv, Unanswered, Returned, Ended, Align, GiveUp, injectionVars
  <2>2. CASE stage' = "fill" /\ UNCHANGED <<failures, plan>>
    BY <1>1, <1>5, <2>2 DEF ResultInv, Unanswered, SpansNameSteps, Returned, Align
  <2> QED BY <1>5, <2>1, <2>2 DEF Align
<1>6. CASE BackendFails
  BY <1>1, <1>6 DEF ResultInv, Unanswered, Returned, Ended, BackendFails, GiveUp, injectionVars
<1>7. CASE Fill
  BY <1>1, <1>7 DEF ResultInv, Unanswered, SpansNameSteps, Returned, Fill
<1>8. CASE PutBack
  <2>1. Ended'
    BY <1>8, EndedByPutBack
  <2>2. stage' = "returned"
    BY <1>8 DEF PutBack, GiveUp, Return
  <2> QED BY <2>1, <2>2 DEF ResultInv
<1>9. CASE TakeScore
  <2>1. Ended'
    BY <1>1, <1>9 DEF ResultInv, Returned, Ended, TakeScore, injectionVars
  <2>2. Solved(score)' = (Valid(plan) /\ Runs(plan))'
    BY <1>9 DEF TakeScore, Score, Solved
  <2>3. stage' = "scored"
    BY <1>9 DEF TakeScore
  <2> QED BY <2>1, <2>2, <2>3 DEF ResultInv
<1> QED BY <1>2, <1>3, <1>4, <1>5, <1>6, <1>7, <1>8, <1>9 DEF DiffusionNext

LEMMA ResultInit ==
  ASSUME NEW p \in AgentPlan, Valid(p), Measure(p)
  PROVE  ResultHolds
<1>1. AnswerHolds
  BY AnswerInit
<1>2. ResultInv
  BY DEF ResultInv, Unanswered, Returned, Measure
<1> QED BY <1>1, <1>2 DEF ResultHolds

LEMMA ResultsHold == DiffusionSpec => []ResultHolds
<1> DEFINE Start == \E p \in AgentPlan : Valid(p) /\ Runs(p) /\ Measure(p)
<1>1. Start => ResultHolds
  BY ResultInit
<1> HIDE DEF Start
<1> QED BY <1>1, ResultInductive, PTL DEF DiffusionSpec, Start

\* "A file is not always a measurement" (aggregate_results.py): of a plan that was
\* broken, what run_case writes down is one of the records the aggregator tells apart,
\* whichever way the tokenizer, the backend or the text failed.
THEOREM EveryResultIsTold == DiffusionSpec => []ResultIsExpected
<1>1. ResultHolds => ResultIsExpected
  <2> SUFFICES ASSUME ResultHolds, stage = "scored", ~(Valid(broken) /\ Runs(broken))
               PROVE  \E r \in Recorded("diffusion") :
                        /\ r.record = RunRecord
                        /\ r.answer = "text" <=> (filling # <<>> /\ plan = broken /\ failures # {})
    BY DEF ResultIsExpected
  <2> DEFINE masked == spec.masked_step_ids # {}
             told == filling # <<>> /\ plan = broken /\ failures # {}
             R == Recorded("diffusion")
  <2>1. Ended /\ Solved(score) = (Valid(plan) /\ Runs(plan))
    BY DEF ResultHolds, ResultInv, Returned
  <2>2. RunRecord = Record(failures, Solved(score), parsed, masked)
    BY DEF RunRecord
  <2>3. R = [answer : {"plan"}, record : {Record({}, s, "yes", TRUE) : s \in BOOLEAN}]
            \cup [answer : {"text"}, record : {Record({"parse"}, FALSE, "no", TRUE)} \cup GivenUp("backend")]
            \cup [answer : {"nothing"},
                  record : GivenUp("backend") \cup GivenUp("alignment") \cup {Record({}, FALSE, "yes", FALSE)}]
    BY DEF Recorded
  <2> SUFFICES \E r \in R : r.record = RunRecord /\ (r.answer = "text" <=> told)
    OBVIOUS
  <2> HIDE DEF R, masked
  <2>4. \A f : Record({f}, FALSE, "none", masked) \in GivenUp(f)
    BY DEF GivenUp, masked
  <2>5. ASSUME NEW a, NEW x, x = RunRecord, [answer |-> a, record |-> x] \in R, a = "text" <=> told
        PROVE  \E r \in R : r.record = RunRecord /\ (r.answer = "text" <=> told)
    BY <2>5
  <2>6. CASE plan = broken /\ failures \in {{"alignment"}, {"backend"}} /\ parsed = "none"
             /\ (failures = {"alignment"} => filling = <<>>)
    <3>1. Solved(score) = FALSE /\ failures # {}
      BY <2>1, <2>6
    <3>2. CASE failures = {"alignment"}
      <4>1. RunRecord \in GivenUp("alignment")
        BY <2>2, <2>4, <2>6, <3>1, <3>2
      <4>2. [answer |-> "nothing", record |-> RunRecord] \in R
        BY <2>3, <4>1
      <4> QED BY <2>5, <2>6, <3>2, <4>2
    <3>3. CASE failures = {"backend"}
      <4>1. RunRecord \in GivenUp("backend")
        BY <2>2, <2>4, <2>6, <3>1, <3>3
      <4>2. [answer |-> "nothing", record |-> RunRecord] \in R /\ [answer |-> "text", record |-> RunRecord] \in R
        BY <2>3, <4>1
      <4> QED BY <2>5, <4>2
    <3> QED BY <2>6, <3>2, <3>3
  <2>7. CASE failures = {"parse"} /\ plan = broken /\ parsed = "no" /\ filling # <<>> /\ masked
    <3>1. Solved(score) = FALSE /\ told /\ masked = TRUE
      BY <2>1, <2>7 DEF masked
    <3>2. RunRecord = Record({"parse"}, FALSE, "no", TRUE)
      BY <2>2, <2>7, <3>1
    <3>3. [answer |-> "text", record |-> RunRecord] \in R
      BY <2>3, <3>2
    <3> QED BY <2>5, <3>1, <3>3
  <2>8. CASE failures = {} /\ parsed = "yes" /\ (masked \/ plan = broken)
    <3>1. ~told
      BY <2>8
    <3>2. CASE masked
      <4>1. Solved(score) \in BOOLEAN /\ masked = TRUE
        BY <2>1, <3>2 DEF masked
      <4>2. RunRecord \in {Record({}, s, "yes", TRUE) : s \in BOOLEAN}
        BY <2>2, <2>8, <4>1
      <4>3. [answer |-> "plan", record |-> RunRecord] \in R
        BY <2>3, <4>2
      <4> QED BY <2>5, <3>1, <4>3
    <3>3. CASE ~masked
      <4>1. Solved(score) = FALSE /\ masked = FALSE
        BY <2>1, <2>8, <3>3 DEF masked
      <4>2. RunRecord = Record({}, FALSE, "yes", FALSE)
        BY <2>2, <2>8, <4>1
      <4>3. [answer |-> "nothing", record |-> RunRecord] \in R
        BY <2>3, <4>2
      <4> QED BY <2>5, <3>1, <4>3
    <3> QED BY <3>2, <3>3
  <2> QED BY <2>1, <2>6, <2>7, <2>8 DEF Ended, masked
<1> QED BY <1>1, ResultsHold, PTL

-----------------------------------------------------------------------------
(***************************************************************************)
(* Two lists of lines of the same lengths: their members stand at the same *)
(* places, and are related as the members of the lines are.                *)
(***************************************************************************)
AlikeOver(Q, S, a, b) ==
  /\ a \in Seq(S) /\ b \in Seq(S) /\ Len(a) = Len(b)
  /\ \A k \in 1 .. Len(a) : <<a[k], b[k]>> \in Q

LEMMA FlattenAlike ==
  ASSUME NEW S, NEW n \in Nat, NEW A \in [1 .. n -> Seq(S)], NEW B \in [1 .. n -> Seq(S)], NEW Q,
         \A i \in 1 .. n : AlikeOver(Q, S, A[i], B[i])
  PROVE  AlikeOver(Q, S, FlattenSeq(A), FlattenSeq(B))
<1>0. \A i \in 1 .. n : Len(A[i]) = Len(B[i]) /\ \A k \in 1 .. Len(A[i]) : <<A[i][k], B[i][k]>> \in Q
  BY DEF AlikeOver
<1> SUFFICES /\ FlattenSeq(A) \in Seq(S) /\ FlattenSeq(B) \in Seq(S)
             /\ Len(FlattenSeq(A)) = Len(FlattenSeq(B))
             /\ \A k \in 1 .. Len(FlattenSeq(A)) : <<FlattenSeq(A)[k], FlattenSeq(B)[k]>> \in Q
  BY DEF AlikeOver
<1> DEFINE a == FlattenSeq(A)
           b == FlattenSeq(B)
<1>1. a \in Seq(S) /\ b \in Seq(S)
  BY FlattenedIs
<1>2. CASE n = 0
  <2>1. Stand(a, A) /\ Stand(b, B) /\ DOMAIN A = {} /\ DOMAIN B = {}
    <3>1. DOMAIN A = {} /\ DOMAIN B = {}
      BY <1>2
    <3>2. Stand(a, A)
      BY FlattenedIs
    <3>3. Stand(b, B)
      BY FlattenedIs
    <3> HIDE DEF a, b
    <3> QED BY <3>1, <3>2, <3>3
  <2> HIDE DEF a, b
  <2>2. 1 .. Len(a) = {} /\ 1 .. Len(b) = {} /\ Len(a) \in Nat /\ Len(b) \in Nat
    BY <1>1, <2>1 DEF Stand
  <2>3. Len(a) = Len(b) /\ 1 .. Len(a) = {}
    <3>1. ASSUME NEW x \in Nat, 1 .. x = {} PROVE x = 0
      <4>1. 1 \notin 1 .. x
        BY <3>1
      <4> QED BY <4>1
    <3>2. Len(a) = 0
      BY <2>2, <3>1
    <3>3. Len(b) = 0
      BY <2>2, <3>1
    <3> QED BY <2>2, <3>2, <3>3
  <2>4. \A k \in 1 .. Len(a) : <<a[k], b[k]>> \in Q
    BY <2>3
  <2> QED BY <1>1, <2>3, <2>4 DEF a, b
<1>3. CASE n # 0
  <2>1. PICK f : Folds(f, A, n) /\ a = f[n]
    BY <1>3, FlattenFolds
  <2>2. PICK g : Folds(g, B, n) /\ b = g[n]
    BY <1>3, FlattenFolds
  <2> DEFINE Alike(x) == /\ f[x] \in Seq(S) /\ g[x] \in Seq(S) /\ Len(f[x]) = Len(g[x])
                         /\ \A k \in 1 .. Len(f[x]) : <<f[x][k], g[x][k]>> \in Q
             K == {x \in 1 .. n : ~Alike(x)}
  <2>3. ASSUME K # {} PROVE FALSE
    <3>1. K \in SUBSET Int /\ IsFiniteSet(K)
      BY IndicesAreFinite
    <3>2. PICK x \in K : \A y \in K : x <= y
      <4> HIDE DEF K
      <4> QED BY <2>3, <3>1, LeastOf
    <3>3. x \in 1 .. n /\ ~Alike(x)
      OBVIOUS
    <3>4. /\ f[x] = IF x = 1 THEN A[x] ELSE f[x - 1] \o A[x]
          /\ g[x] = IF x = 1 THEN B[x] ELSE g[x - 1] \o B[x]
      BY <2>1, <2>2, <3>3 DEF Folds
    <3> DEFINE c == A[x]
               d == B[x]
    <3>5. /\ c \in Seq(S) /\ d \in Seq(S) /\ Len(c) = Len(d)
          /\ \A k \in 1 .. Len(c) : <<c[k], d[k]>> \in Q
      BY <1>0, <3>3
    <3>6. CASE x = 1
      <4>1. f[x] = c /\ g[x] = d
        BY <3>4, <3>6
      <4> QED BY <3>3, <3>5, <4>1
    <3>7. CASE x # 1
      <4>1. x - 1 \in 1 .. n /\ ~(x <= x - 1)
        BY <3>3, <3>7
      <4>2. Alike(x - 1)
        BY <3>2, <4>1
      <4> DEFINE u == f[x - 1]
                 v == g[x - 1]
      <4>3. f[x] = u \o c /\ g[x] = v \o d
        BY <3>4, <3>7
      <4>4. /\ u \in Seq(S) /\ v \in Seq(S) /\ Len(u) = Len(v)
            /\ \A k \in 1 .. Len(u) : <<u[k], v[k]>> \in Q
        BY <4>2
      <4> HIDE DEF u, v, c, d
      <4>5. /\ f[x] \in Seq(S) /\ g[x] \in Seq(S)
            /\ Len(f[x]) = Len(u) + Len(c) /\ Len(g[x]) = Len(u) + Len(c)
            /\ Len(u) \in Nat /\ Len(c) \in Nat
        <5>1. Len(v) = Len(u) /\ Len(d) = Len(c) /\ Len(u) \in Nat /\ Len(c) \in Nat
          BY <3>5, <4>4
        <5>2. u \in Seq(S) /\ c \in Seq(S) /\ v \in Seq(S) /\ d \in Seq(S)
          BY <3>5, <4>4
        <5>3. f[x] \in Seq(S) /\ Len(f[x]) = Len(u) + Len(c)
          BY <4>3, <5>2
        <5>4. g[x] \in Seq(S) /\ Len(g[x]) = Len(v) + Len(d)
          BY <4>3, <5>2
        <5> QED BY <5>1, <5>3, <5>4
      <4>6. ASSUME NEW k \in 1 .. Len(u) + Len(c) PROVE <<f[x][k], g[x][k]>> \in Q
        <5>1. CASE k <= Len(u)
          <6>1. k \in 1 .. Len(u) /\ k \in 1 .. Len(v)
            BY <4>4, <4>5, <5>1
          <6>2. f[x][k] = u[k] /\ g[x][k] = v[k]
            BY <3>5, <4>3, <4>4, <4>5, <5>1, <6>1
          <6> QED BY <4>4, <6>1, <6>2
        <5>2. CASE ~(k <= Len(u))
          <6>1. k - Len(u) \in 1 .. Len(c)
            BY <4>5, <5>2
          <6>2. u \in Seq(S) /\ c \in Seq(S) /\ v \in Seq(S) /\ d \in Seq(S) /\ Len(v) = Len(u) /\ Len(d) = Len(c)
            BY <3>5, <4>4
          <6>3. k \in 1 .. Len(u) + Len(c) /\ k \in 1 .. Len(v) + Len(d)
            BY <6>2
          <6>4. f[x][k] = c[k - Len(u)]
            BY <4>3, <5>2, <6>2, <6>3
          <6>5. g[x][k] = d[k - Len(u)]
            <7>1. ~(k <= Len(v)) /\ k \in 1 .. Len(v) + Len(d) /\ v \in Seq(S) /\ d \in Seq(S)
              BY <5>2, <6>2, <6>3
            <7>2. (v \o d)[k] = d[k - Len(v)]
              BY <7>1
            <7> QED BY <4>3, <6>2, <7>2
          <6> QED BY <3>5, <6>1, <6>4, <6>5
        <5> QED BY <5>1, <5>2
      <4>7. Alike(x)
        BY <4>5, <4>6
      <4> QED BY <3>3, <4>7
    <3> QED BY <3>6, <3>7
  <2>4. Alike(n)
    <3>1. n \in 1 .. n
      BY <1>3
    <3> QED BY <2>3, <3>1
  <2> HIDE DEF a, b
  <2> QED BY <2>1, <2>2, <2>4 DEF a, b
<1> QED BY <1>2, <1>3

\* An ordered list of steps under names of their own, none of which consumes itself,
\* has no cycle.
LEMMA OrderedHasNoCycle ==
  ASSUME NEW ss, DOMAIN ss \subseteq Int, UniqueIds(ss), Ordered(ss),
         \A k \in DOMAIN ss : ss[k].id \notin ss[k].input_from
  PROVE  CycleErrors(ss) = {}
<1> DEFINE X == KnownIds(ss)
           E == Edges(ss)
<1>1. ASSUME NEW k \in DOMAIN ss PROVE LastAt(ss, ss[k].id) = k
  <2>1. At(ss, ss[k].id) = {k} /\ k <= k
    BY DEF At, UniqueIds
  <2> QED BY <2>1 DEF LastAt
<1>2. E \in [X -> SUBSET X]
  BY DEF Edges
<1>3. \A k \in DOMAIN ss : ss[k].id \in X /\ E[ss[k].id] = ss[k].input_from \cap X
  BY <1>1 DEF Edges, KnownIds
<1>4. \A x \in X : \E k \in DOMAIN ss : x = ss[k].id
  BY DEF KnownIds
<1> HIDE DEF X, E
<1>5. ASSUME NEW k \in DOMAIN ss PROVE ss[k].id \notin Upstream(E, ss[k].id)
  <2> DEFINE before == {x \in X : \E m \in DOMAIN ss : m < k /\ ss[m].id = x}
  <2>1. ss[k].id \notin before
    BY DEF UniqueIds
  <2>2. ASSUME NEW i \in DOMAIN ss, i <= k, NEW y \in E[ss[i].id] PROVE y \in before
    <3>1. y \in X /\ y \in ss[i].input_from
      BY <1>2, <1>3, <2>2
    <3>2. PICK m \in DOMAIN ss : y = ss[m].id
      BY <1>4, <3>1
    <3>3. ~(m > i) /\ m # i
      BY <3>1, <3>2 DEF Ordered
    <3>4. m < k
      BY <2>2, <3>3
    <3> QED BY <3>1, <3>2, <3>4
  <2>3. E[ss[k].id] \subseteq before /\ ss[k].id \in X
    <3>1. k <= k
      OBVIOUS
    <3> QED BY <1>3, <2>2, <3>1
  <2>4. ASSUME NEW x \in before PROVE E[x] \subseteq before
    <3>1. PICK m \in DOMAIN ss : m < k /\ ss[m].id = x
      OBVIOUS
    <3>2. m <= k
      BY <3>1
    <3> QED BY <2>2, <3>1, <3>2
  <2>5. before \in SUBSET X
    OBVIOUS
  <2> HIDE DEF before
  <2>6. Upstream(E, ss[k].id) \subseteq before
    BY <1>2, <2>3, <2>4, <2>5, UpstreamIsLeast
  <2> QED BY <2>1, <2>6
<1>6. \A x \in X : x \notin Upstream(E, x)
  BY <1>4, <1>5
<1> QED BY <1>6, NoCycleIsReported DEF X, E

LEMMA AcyclicSelf ==
  ASSUME NEW ss, DOMAIN ss \subseteq Int, UniqueIds(ss), CycleErrors(ss) = {}, NEW k \in DOMAIN ss
  PROVE  ss[k].id \notin ss[k].input_from
<1>1. At(ss, ss[k].id) = {k} /\ k <= k
  BY DEF At, UniqueIds
<1>2. LastAt(ss, ss[k].id) = k
  BY <1>1 DEF LastAt
<1>3. ss[k].id \in KnownIds(ss) /\ Edges(ss) \in [KnownIds(ss) -> SUBSET KnownIds(ss)]
  BY DEF Edges, KnownIds
<1>4. Edges(ss)[ss[k].id] = ss[k].input_from \cap KnownIds(ss)
  BY <1>2, <1>3 DEF Edges
<1> QED BY <1>3, <1>4, UpstreamIsClosed, AcyclicNames

(***************************************************************************)
(* What a completion may do to a reference: leave it, or make it one to a  *)
(* step listed before the one that carries it.                             *)
(***************************************************************************)
Completes(ss, x, y) ==
  /\ y.id = x.id
  /\ \A d \in y.input_from :
       \/ d \in x.input_from
       \/ x.id \in KnownIds(ss) /\ \E j \in DOMAIN ss : d = ss[j].id /\ j < FirstAt(ss, x.id)

LEMMA DependencyCompleted ==
  ASSUME NEW value, NEW ss, NEW id, NEW d \in SnapDependencyValue(value, ss, id)
  PROVE  d \in value \/ \E j \in DOMAIN ss : d = ss[j].id /\ j < FirstAt(ss, id)
<1>1. PICK e \in value :
        d = IF e \in KnownIds(ss) \/ Cardinality(ProducersBefore(ss, id, e)) # 1 THEN e
            ELSE ss[CHOOSE i \in ProducersBefore(ss, id, e) : TRUE].id
  BY DEF SnapDependencyValue
<1> DEFINE P == ProducersBefore(ss, id, e)
<1>2. CASE d = e
  BY <1>2
<1>3. CASE Cardinality(P) = 1 /\ d = ss[CHOOSE i \in P : TRUE].id
  <2>1. P # {}
    BY <1>3, FS_EmptySet
  <2>2. PICK j \in P : d = ss[j].id
    BY <1>3, <2>1
  <2> QED BY <2>2 DEF ProducersBefore
<1> QED BY <1>1, <1>2, <1>3

\* No text names the step anew.
Unnamed(f) == \A key \in DOMAIN f : ~(f[key].kind = "naming" /\ "id" \in DOMAIN f[key].also)

\* A text is completed for the field it was written into.
LEMMA PlaceCompleted ==
  ASSUME NEW f, NEW ss, KnownIds(ss) \subseteq StepId, NEW spans \in SUBSET Spans(ss), NEW tools, NEW dependencies,
         NEW place \in DOMAIN Placed(ss, f, spans), place[2] # Whole
  PROVE  Placed(ss, Snapped(f, ss, spans, tools, dependencies), spans)[place]
           = SnappedText(Placed(ss, f, spans)[place], place, ss, tools, dependencies)
<1> DEFINE h == Snapped(f, ss, spans, tools, dependencies)
           p == Placed(ss, f, spans)
           g == Placed(ss, h, spans)
           key == Key(place)
<1>1. place \in spans /\ p[place] = f[key] /\ key \in DOMAIN f
  BY PlacedIs
<1>2. \A span \in spans : span[2] # Whole => Key(span) = FieldKey[span] /\ span \in StepId \X {TOOL_FIELD, DEPENDENCY_FIELD}
  BY DEF Key, Spans
<1>3. ASSUME NEW span \in FieldSpans(spans, key) PROVE span = place
  BY <1>1, <1>2, FieldKeyAssumption DEF FieldSpans
<1>4. place \in FieldSpans(spans, key)
  BY <1>1 DEF FieldSpans
<1>5. h[key] = SnappedText(f[key], place, ss, tools, dependencies)
  <2>1. (CHOOSE span \in FieldSpans(spans, key) : TRUE) = place
    BY <1>3, <1>4
  <2> QED BY <1>1, <1>4, <2>1 DEF Snapped
<1>6. place \in DOMAIN g
  <2>1. /\ DOMAIN h = DOMAIN f
        /\ \A k \in DOMAIN f : h[k] = f[k] \/ (f[k].kind = "value" /\ \E v : h[k] = Value(v))
    BY SnapKeepsKinds
  <2>2. place[1] \notin DOMAIN f /\ f[key] # Dropped
    BY PlacedIs
  <2> HIDE DEF h
  <2>3. h[key] # Dropped
    <3>1. CASE h[key] = f[key]
      BY <2>2, <3>1
    <3>2. CASE \E v : h[key] = Value(v)
      <4>1. PICK v : h[key] = Value(v)
        BY <3>2
      <4> QED BY <4>1, Kinds
    <3> QED BY <1>1, <2>1, <3>1, <3>2
  <2> HIDE DEF key, p
  <2> QED BY <1>1, <2>1, <2>2, <2>3, PlacedIs DEF key
<1>7. g[place] = h[key]
  <2> HIDE DEF h
  <2> QED BY <1>6, PlacedIs
<1> HIDE DEF h, p, g, key
<1> QED BY <1>1, <1>5, <1>7 DEF p, g, h, key

LEMMA FieldCompleted ==
  ASSUME NEW f, Written(f), Unnamed(f), NEW ss, KnownIds(ss) \subseteq StepId, NEW spans \in SUBSET Spans(ss),
         NEW tools, NEW dependencies,
         Fitted(Placed(ss, Snapped(f, ss, spans, tools, dependencies), spans)),
         NEW step \in Step, step.id \in KnownIds(ss)
  PROVE  Completes(ss, Rewritten(step, Placed(ss, f, spans)),
                   Rewritten(step, Placed(ss, Snapped(f, ss, spans, tools, dependencies), spans)))
<1> DEFINE p == Placed(ss, f, spans)
           g == Placed(ss, Snapped(f, ss, spans, tools, dependencies), spans)
           place == <<step.id, DEPENDENCY_FIELD>>
           old == TextOf(p, step, DEPENDENCY_FIELD)
           new == TextOf(g, step, DEPENDENCY_FIELD)
           x == Rewritten(step, p)
           y == Rewritten(step, g)
<1>1. /\ DOMAIN g = DOMAIN p
      /\ \A k \in DOMAIN p : g[k] = p[k] \/ (p[k].kind = "value" /\ g[k].kind = "value")
  BY SnapKeepsPlaces
<1>2. ASSUME place \in DOMAIN p PROVE g[place] = SnappedText(p[place], place, ss, tools, dependencies)
  <2>1. place[2] # Whole
    BY DEF DEPENDENCY_FIELD, Whole
  <2> QED BY <1>2, <2>1, PlaceCompleted
<1>3. \A k \in DOMAIN p : p[k] = f[Key(k)] /\ Key(k) \in DOMAIN f
  BY PlacedIs
<1> HIDE DEF p, g
<1>4. ASSUME NEW q, q \in {p, g}, NEW part \in {TOOL_FIELD, DEPENDENCY_FIELD}, NEW before
      PROVE  Named(TextOf(q, step, part), "id", before) = before
  <2>1. CASE <<step.id, part>> \in DOMAIN q
    <3> DEFINE k == <<step.id, part>>
    <3>1. ~(f[Key(k)].kind = "naming" /\ "id" \in DOMAIN f[Key(k)].also)
      BY <1>1, <1>3, <1>4, <2>1 DEF Unnamed
    <3>2. ~(q[k].kind = "naming" /\ "id" \in DOMAIN q[k].also)
      BY <1>1, <1>3, <1>4, <2>1, <3>1
    <3> QED BY <2>1, <3>2 DEF TextOf, Named
  <2>2. CASE <<step.id, part>> \notin DOMAIN q
    <3>1. TextOf(q, step, part).kind = "value"
      BY <2>2, Kinds DEF TextOf
    <3> QED BY <3>1 DEF Named
  <2> QED BY <2>1, <2>2
<1>5. ASSUME NEW q, q \in {p, g}
      PROVE  Rewritten(step, q).id = step.id /\ Rewritten(step, q).input_from = TextOf(q, step, DEPENDENCY_FIELD).value
  <2> DEFINE deps == TextOf(q, step, DEPENDENCY_FIELD)
             tool == TextOf(q, step, TOOL_FIELD)
             r == Rewritten(step, q)
  <2>1. Named(tool, "id", step.id) = step.id /\ Named(deps, "id", step.id) = step.id
    BY <1>4, <1>5
  <2> HIDE DEF tool, deps
  <2>2. r = [step EXCEPT !.id = Named(deps, "id", Named(tool, "id", @)),
                         !.tool = Named(deps, TOOL_FIELD, tool.value),
                         !.arguments = Named(deps, "arguments", @),
                         !.input_from = deps.value]
    BY DEF Rewritten, tool, deps
  <2>3. DOMAIN step = {"id", "tool", "arguments", "input_from", "produces"}
    BY DEF Step
  <2> HIDE DEF r
  <2>4. r.id = step.id /\ r.input_from = deps.value
    BY <2>1, <2>2, <2>3
  <2> QED BY <2>4 DEF r, deps
<1>6. ASSUME NEW d \in new.value
      PROVE  d \in old.value \/ \E j \in DOMAIN ss : d = ss[j].id /\ j < FirstAt(ss, step.id)
  <2>1. CASE place \notin DOMAIN p
    BY <1>1, <1>6, <2>1 DEF TextOf
  <2>2. CASE place \in DOMAIN p /\ g[place] = p[place]
    BY <1>1, <1>6, <2>2 DEF TextOf
  <2>3. CASE place \in DOMAIN p /\ g[place] # p[place]
    <3>1. g[place] = Value(SnapDependencyValue(p[place].value, ss, step.id))
      BY <1>2, <2>3 DEF SnappedText, TOOL_FIELD, DEPENDENCY_FIELD
    <3>2. old = p[place] /\ new = g[place]
      BY <1>1, <2>3 DEF TextOf
    <3>3. new.value = SnapDependencyValue(old.value, ss, step.id)
      BY <3>1, <3>2, Kinds
    <3> HIDE DEF new, old
    <3> QED BY <1>6, <3>3, DependencyCompleted
  <2> QED BY <2>1, <2>2, <2>3
<1>7. x.id = step.id /\ x.input_from = old.value /\ y.id = step.id /\ y.input_from = new.value
  BY <1>5
<1> HIDE DEF x, y, old, new
<1>8. Completes(ss, x, y)
  BY <1>6, <1>7 DEF Completes
<1> QED BY <1>8 DEF x, y, p, g

LEMMA LinesCompleted ==
  ASSUME NEW ss \in Seq(Step), NEW f, Written(f), Unnamed(f), KnownIds(ss) \subseteq StepId,
         NEW spans \in SUBSET Spans(ss), NEW tools, NEW dependencies,
         Fitted(Placed(ss, Snapped(f, ss, spans, tools, dependencies), spans)),
         NEW i \in DOMAIN ss
  PROVE  LET a == Line(ss[i], Placed(ss, f, spans))
             b == Line(ss[i], Placed(ss, Snapped(f, ss, spans, tools, dependencies), spans))
         IN  Len(a) = Len(b) /\ \A k \in 1 .. Len(a) : Completes(ss, a[k], b[k])
<1> DEFINE p == Placed(ss, f, spans)
           g == Placed(ss, Snapped(f, ss, spans, tools, dependencies), spans)
           place == <<ss[i].id, Whole>>
           a == Line(ss[i], p)
           b == Line(ss[i], g)
<1>1. ss[i] \in Step /\ ss[i].id \in KnownIds(ss)
  BY DEF KnownIds
<1>2. Completes(ss, Rewritten(ss[i], p), Rewritten(ss[i], g))
  BY <1>1, FieldCompleted
<1>3. DOMAIN g = DOMAIN p /\ \A x \in DOMAIN p : x[2] = Whole => g[x] = p[x]
  BY SnapKeepsPlaces, SnapFits
<1> HIDE DEF p, g
<1>4. CASE place \notin DOMAIN p
  <2>1. a = <<Rewritten(ss[i], p)>> /\ b = <<Rewritten(ss[i], g)>>
    BY <1>3, <1>4 DEF Line
  <2>2. PICK x, y : x = Rewritten(ss[i], p) /\ y = Rewritten(ss[i], g)
    OBVIOUS
  <2>3. a = <<x>> /\ b = <<y>> /\ Completes(ss, x, y)
    BY <1>2, <2>1, <2>2
  <2> HIDE DEF a, b
  <2>4. Len(a) = Len(b) /\ \A k \in 1 .. Len(a) : Completes(ss, a[k], b[k])
    BY <2>3
  <2> QED BY <2>4 DEF a, b, p, g
<1>5. CASE place \in DOMAIN p
  <2>1. g[place] = p[place] /\ place \in DOMAIN g
    BY <1>3, <1>5
  <2>2. a = b
    BY <1>5, <2>1 DEF Line
  <2>3. \A x : Completes(ss, x, x)
    BY DEF Completes
  <2> HIDE DEF a, b
  <2>4. Len(a) = Len(b) /\ \A k \in 1 .. Len(a) : Completes(ss, a[k], b[k])
    BY <2>2, <2>3
  <2> QED BY <2>4 DEF a, b, p, g
<1> QED BY <1>4, <1>5

LEMMA RebuiltCompleted ==
  ASSUME NEW ss \in Seq(Step), NEW f, Written(f), Unnamed(f), KnownIds(ss) \subseteq StepId,
         NEW spans \in SUBSET Spans(ss), NEW tools, NEW dependencies,
         Fitted(Placed(ss, Snapped(f, ss, spans, tools, dependencies), spans))
  PROVE  LET a == Rebuilt(ss, Placed(ss, f, spans))
             b == Rebuilt(ss, Placed(ss, Snapped(f, ss, spans, tools, dependencies), spans))
         IN  DOMAIN a \subseteq Int /\ DOMAIN b = DOMAIN a /\ \A k \in DOMAIN a : Completes(ss, a[k], b[k])
<1> DEFINE n == Len(ss)
           p == Placed(ss, f, spans)
           g == Placed(ss, Snapped(f, ss, spans, tools, dependencies), spans)
           A == [i \in DOMAIN ss |-> Line(ss[i], p)]
           B == [i \in DOMAIN ss |-> Line(ss[i], g)]
           L(lines) == UNION {{lines[i][k] : k \in DOMAIN lines[i]} : i \in DOMAIN ss}
           S == L(A) \cup L(B)
           Q == {q \in S \X S : Completes(ss, q[1], q[2])}
<1>1. n \in Nat /\ DOMAIN ss = 1 .. n
  OBVIOUS
<1>2. Written(p) /\ Fitted(p) /\ Written(g) /\ Fitted(g)
  BY SnapKeepsPlaces, SnapFits
<1>3. ASSUME NEW i \in DOMAIN ss PROVE IsList(A[i]) /\ IsList(B[i])
  <2> HIDE DEF p, g
  <2> QED BY <1>2, LineIsList
<1>4. ASSUME NEW i \in DOMAIN ss PROVE Len(A[i]) = Len(B[i]) /\ \A k \in 1 .. Len(A[i]) : Completes(ss, A[i][k], B[i][k])
  <2>1. A[i] = Line(ss[i], p) /\ B[i] = Line(ss[i], g)
    OBVIOUS
  <2> HIDE DEF A, B
  <2> QED BY <2>1, LinesCompleted
<1>5. A = [i \in 1 .. n |-> A[i]] /\ B = [i \in 1 .. n |-> B[i]]
  BY <1>1
<1>6. ASSUME NEW i \in DOMAIN ss
      PROVE  /\ \A k \in DOMAIN A[i] : A[i][k] \in S
             /\ \A k \in DOMAIN B[i] : B[i][k] \in S
  <2> HIDE DEF A, B
  <2>1. {A[i][k] : k \in DOMAIN A[i]} \subseteq S /\ {B[i][k] : k \in DOMAIN B[i]} \subseteq S
    OBVIOUS
  <2> HIDE DEF S, L
  <2> QED BY <2>1
<1>7. Rebuilt(ss, p) = FlattenSeq(A) /\ Rebuilt(ss, g) = FlattenSeq(B)
  BY DEF Rebuilt
<1>8. ASSUME NEW x \in S, NEW y \in S PROVE <<x, y>> \in Q <=> Completes(ss, x, y)
  <2> HIDE DEF S
  <2>1. <<x, y>> \in S \X S /\ <<x, y>>[1] = x /\ <<x, y>>[2] = y
    OBVIOUS
  <2> QED BY <2>1
<1> HIDE DEF n, p, g, A, B, S, Q
<1>9. ASSUME NEW i \in 1 .. n
      PROVE  /\ A[i] \in Seq(S) /\ B[i] \in Seq(S) /\ Len(A[i]) = Len(B[i])
             /\ \A k \in 1 .. Len(A[i]) : <<A[i][k], B[i][k]>> \in Q
  <2>1. A[i] \in Seq(S) /\ B[i] \in Seq(S)
    BY <1>1, <1>3, <1>6, ListOver
  <2>2. Len(A[i]) = Len(B[i])
    BY <1>1, <1>4
  <2>3. ASSUME NEW k \in 1 .. Len(A[i]) PROVE <<A[i][k], B[i][k]>> \in Q
    <3>1. k \in DOMAIN A[i] /\ k \in DOMAIN B[i]
      BY <2>1, <2>2
    <3>2. A[i][k] \in S /\ B[i][k] \in S
      BY <2>1, <3>1
    <3>3. Completes(ss, A[i][k], B[i][k])
      BY <1>1, <1>4
    <3> QED BY <1>8, <3>2, <3>3
  <2> QED BY <2>1, <2>2, <2>3
<1>10. A \in [1 .. n -> Seq(S)] /\ B \in [1 .. n -> Seq(S)]
  BY <1>5, <1>9
<1> DEFINE a == FlattenSeq(A)
           b == FlattenSeq(B)
<1>11. /\ a \in Seq(S) /\ b \in Seq(S) /\ Len(a) = Len(b)
       /\ \A k \in 1 .. Len(a) : <<a[k], b[k]>> \in Q
  <2>1. \A i \in 1 .. n : AlikeOver(Q, S, A[i], B[i])
    BY <1>9 DEF AlikeOver
  <2>2. AlikeOver(Q, S, FlattenSeq(A), FlattenSeq(B))
    BY <1>1, <1>10, <2>1, FlattenAlike
  <2> QED BY <2>2 DEF AlikeOver
<1> HIDE DEF a, b
<1>12. DOMAIN a = 1 .. Len(a) /\ DOMAIN b = 1 .. Len(a) /\ Len(a) \in Nat
  BY <1>11
<1>13. ASSUME NEW k \in DOMAIN a PROVE Completes(ss, a[k], b[k])
  <2>1. a[k] \in S /\ b[k] \in S /\ <<a[k], b[k]>> \in Q
    BY <1>11, <1>12
  <2> QED BY <1>8, <2>1
<1>14. DOMAIN a \subseteq Int /\ DOMAIN b = DOMAIN a
  BY <1>12
<1> QED BY <1>7, <1>13, <1>14 DEF a, b, p, g

\* The step of completing, on its own: of an undisordered list, one.
LEMMA CompletionKeepsOrder ==
  ASSUME NEW a, NEW b, DOMAIN a \subseteq Int, DOMAIN b = DOMAIN a,
         \A k \in DOMAIN a : Completes(broken.steps, a[k], b[k]),
         broken \in AgentPlan,
         UniqueIds(a), Unmoved(a), OrderingErrors(a) = {}, CycleErrors(a) = {}
  PROVE  OrderingErrors(b) = {} /\ CycleErrors(b) = {}
<1>1. Ordered(a)
  BY OrderedIsUnreported
<1>2. \A k \in DOMAIN a : b[k].id = a[k].id
  BY DEF Completes
<1>3. ASSUME NEW k \in DOMAIN a, NEW m \in DOMAIN a, m >= k PROVE b[m].id \notin b[k].input_from
  <2> SUFFICES ASSUME a[m].id \in b[k].input_from PROVE FALSE
    BY <1>2
  <2>1. a[m].id \notin a[k].input_from
    <3>1. CASE m = k
      BY <3>1, AcyclicSelf
    <3>2. CASE m > k
      BY <1>1, <3>2 DEF Ordered
    <3> QED BY <1>3, <3>1, <3>2
  <2>2. PICK j \in DOMAIN broken.steps :
          a[k].id \in Known(broken) /\ a[m].id = broken.steps[j].id /\ j < FirstAt(broken.steps, a[k].id)
    BY <2>1 DEF Completes, Known
  <2>3. a[m].id \in Known(broken) /\ j \in At(broken.steps, a[m].id)
    BY <2>2 DEF Known, KnownIds, At
  <2> DEFINE x == FirstAt(broken.steps, a[k].id)
             y == FirstAt(broken.steps, a[m].id)
  <2>4. y <= j /\ x \in Int /\ y \in Int /\ j \in Int
    <3>1. DOMAIN broken.steps = 1 .. Len(broken.steps) /\ Len(broken.steps) \in Nat
      BY StepDomain
    <3>2. x \in DOMAIN broken.steps /\ y \in DOMAIN broken.steps /\ y <= j
      BY <2>2, <2>3, KnownAt
    <3> QED BY <3>1, <3>2
  <2>5. m # k => x <= y
    BY <1>3, <2>2, <2>3 DEF Unmoved
  <2>6. m = k => x = y
    OBVIOUS
  <2> HIDE DEF x, y
  <2> QED BY <2>2, <2>4, <2>5, <2>6 DEF x
<1>4. Ordered(b) /\ \A k \in DOMAIN b : b[k].id \notin b[k].input_from
  BY <1>3 DEF Ordered
<1>5. UniqueIds(b)
  BY <1>2 DEF UniqueIds
<1> QED BY <1>4, <1>5, OrderedIsUnreported, OrderedHasNoCycle

(***************************************************************************)
(* The invariant: a repair that did not fail returns what was put back.    *)
(***************************************************************************)
SnapInv ==
  (Returned /\ failures = {} /\ Contained) => plan = Repaired /\ Fitted(PutBackFilling)

SnapHolds == ResultHolds /\ SnapInv

LEMMA SnapInductive == SnapHolds /\ [DiffusionNext]_diffusionVars => SnapHolds'
<1> SUFFICES ASSUME SnapHolds, [DiffusionNext]_diffusionVars PROVE SnapInv'
  BY ResultInductive DEF SnapHolds
<1>1. SnapInv /\ broken \in AgentPlan
  BY DEF SnapHolds, ResultHolds, AnswerHolds, AnswerInv
<1>2. ASSUME UNCHANGED <<injectionVars, spec, snaps, filling, failures, plan>>, Returned' => Returned
      PROVE  SnapInv'
  <2>1. PutBackFilling' = PutBackFilling /\ Contained' = Contained
    BY <1>2 DEF PutBackFilling, Contained, injectionVars
  <2>2. Repaired' = Repaired /\ Fitted(PutBackFilling)' = Fitted(PutBackFilling)
    BY <1>2, <2>1 DEF Repaired, Fitted, injectionVars
  <2> QED BY <1>1, <1>2, <2>1, <2>2 DEF SnapInv
<1>3. CASE UNCHANGED diffusionVars
  BY <1>2, <1>3 DEF diffusionVars, Returned
<1>4. CASE TakeScore
  BY <1>2, <1>4 DEF TakeScore, Returned
<1>5. ASSUME NEW kind, GiveUp(kind) PROVE SnapInv'
  BY <1>5 DEF GiveUp, SnapInv
<1>6. CASE Corrupt \/ Mask \/ Fill
  BY <1>6 DEF Corrupt, Mask, Fill, SnapInv, Returned
<1>7. CASE Align \/ BackendFails
  BY <1>5, <1>7 DEF Align, BackendFails, SnapInv, Returned
<1>8. CASE PutBack
  <2> DEFINE fits == DOMAIN filling \subseteq Keys(spec.spans) /\ Parses(broken.steps, PutBackFilling)
  <2>1. CASE fits /\ Contained
    <3>1. Return
      BY <1>8, <2>1 DEF PutBack
    <3>2. plan' = Repaired
      BY <1>1, <2>1, <3>1, ReturnIsRepaired
    <3>3. Fitted(PutBackFilling)
      BY <2>1, ContainedFits DEF Contained, PutBackFilling
    <3>4. PutBackFilling' = PutBackFilling
      BY <1>8 DEF PutBack, PutBackFilling, injectionVars
    <3>5. Repaired' = Repaired /\ Fitted(PutBackFilling)' = Fitted(PutBackFilling)
      BY <1>8, <3>4 DEF PutBack, Repaired, Fitted, injectionVars
    <3> QED BY <3>2, <3>3, <3>5 DEF SnapInv
  <2>2. CASE ~Contained
    BY <1>8, <2>2 DEF PutBack, Contained, SnapInv
  <2>3. CASE ~fits
    BY <1>5, <1>8, <2>3 DEF PutBack
  <2> QED BY <2>1, <2>2, <2>3
<1> QED BY <1>3, <1>4, <1>6, <1>7, <1>8 DEF DiffusionNext

LEMMA SnapsHold == DiffusionSpec => []SnapHolds
<1> DEFINE Start == \E p \in AgentPlan : Valid(p) /\ Runs(p) /\ Measure(p)
<1>1. Start => SnapHolds
  <2> SUFFICES ASSUME NEW p \in AgentPlan, Valid(p), Measure(p) PROVE SnapHolds
    OBVIOUS
  <2>1. ResultHolds
    BY ResultInit
  <2>2. SnapInv
    BY DEF SnapInv, Returned, Measure
  <2> QED BY <2>1, <2>2 DEF SnapHolds
<1> HIDE DEF Start
<1> QED BY <1>1, SnapInductive, PTL DEF DiffusionSpec, Start

\* "What stops the cleaning from trading one error for another" (snap.py): where texts
\* that keep to their lines and rename no step leave none before or waiting for itself,
\* completing the references in them does not either, in a plan of any size.
THEOREM CompletionDisordersNothing == DiffusionSpec => []SnapNeverDisorders
<1> DEFINE plain == Rebuilt(broken.steps, Placed(broken.steps, filling, spec.spans))
<1>1. SnapHolds => SnapNeverDisorders
  <2> SUFFICES ASSUME SnapHolds, Returned, failures = {}, Contained, ~Renames,
                      UniqueIds(plain), Unmoved(plain), OrderingErrors(plain) = {}, CycleErrors(plain) = {}
               PROVE  OrderingErrors(plan.steps) = {} /\ CycleErrors(plan.steps) = {}
    BY DEF SnapNeverDisorders
  <2> DEFINE b == Rebuilt(broken.steps, PutBackFilling)
  <2>1. /\ broken \in AgentPlan /\ broken.steps \in Seq(Step) /\ Written(filling)
        /\ plan = Repaired /\ Fitted(PutBackFilling) /\ spec.spans \subseteq Spans(broken.steps)
    BY DEF SnapHolds, ResultHolds, AnswerHolds, AnswerInv, SnapInv, AgentPlan, Returned
  <2>2. plan.steps = b
    BY <2>1 DEF Repaired, AgentPlan
  <2>3. Unnamed(filling) /\ KnownIds(broken.steps) \subseteq StepId
    <3>1. \A step \in Step : step.id \in StepId
      BY DEF Step
    <3>2. \A k \in DOMAIN broken.steps : broken.steps[k] \in Step
      BY <2>1
    <3>3. KnownIds(broken.steps) \subseteq StepId
      BY <3>1, <3>2 DEF KnownIds
    <3> QED BY <3>3 DEF Renames, Unnamed
  <2>4. DOMAIN plain \subseteq Int /\ DOMAIN b = DOMAIN plain /\ \A k \in DOMAIN plain : Completes(broken.steps, plain[k], b[k])
    BY <2>1, <2>3, RebuiltCompleted DEF PutBackFilling
  <2> HIDE DEF plain, b
  <2> QED BY <2>1, <2>2, <2>4, CompletionKeepsOrder
<1> QED BY <1>1, SnapsHold, PTL

-----------------------------------------------------------------------------
(***************************************************************************)
(* The oracle.  After faults that leave every step in its place, the       *)
(* reference stands in the broken plan: its steps in their order, each but *)
(* for what a fault changed, and between them only copies.                 *)
(***************************************************************************)
Reachable == {BROKEN_DEPENDENCY, WRONG_TOOL, DUPLICATE_STEP}

Faulted(r, s, damaged) ==
  /\ s.id = r.id /\ s.arguments = r.arguments /\ s.produces = r.produces
  /\ s.tool = r.tool \/ s.tool \notin Available
  /\ s.input_from = r.input_from \/ (s.tool = r.tool /\ r.id \in damaged)

Embeds(e, rr, ss, damaged, taken) ==
  /\ e \in [DOMAIN rr -> DOMAIN ss]
  /\ \A i, j \in DOMAIN rr : i < j => e[i] < e[j]
  /\ \A i \in DOMAIN rr : Faulted(rr[i], ss[e[i]], damaged) /\ (rr[i].id \notin taken => ss[e[i]] = rr[i])
  /\ \A k \in DOMAIN ss : (\A i \in DOMAIN rr : e[i] # k) =>
       /\ ss[k].id \notin KnownIds(rr)
       /\ \E i \in DOMAIN rr : rr[i].id \in taken /\ ss[e[i]] = rr[i] /\ Body(ss[k]) = Body(rr[i])

LEMMA PlaceOfName ==
  ASSUME NEW rr, NEW ss, NEW e, NEW damaged, NEW taken, Embeds(e, rr, ss, damaged, taken),
         NEW k \in DOMAIN ss, ss[k].id \in KnownIds(rr)
  PROVE  \E i \in DOMAIN rr : e[i] = k /\ rr[i].id = ss[k].id
  BY DEF Embeds, Faulted

LEMMA RewriteEmbeds ==
  ASSUME NEW rr, UniqueIds(rr), NEW ss, NEW e, NEW damaged, NEW taken, Embeds(e, rr, ss, damaged, taken),
         NEW id \in KnownIds(rr), id \notin taken, NEW tt, NEW s, Rewrites(ss, tt, id, s),
         Faulted(ss[FirstAt(ss, id)], s, damaged \cup {id})
  PROVE  Embeds(e, rr, tt, damaged \cup {id}, taken \cup {id})
<1> DEFINE k0 == FirstAt(ss, id)
<1>1. /\ DOMAIN tt = DOMAIN ss /\ k0 \in DOMAIN ss /\ ss[k0].id = id /\ tt[k0] = s
      /\ \A k \in DOMAIN ss : k # k0 => tt[k] = ss[k]
  BY DEF Rewrites
<1> HIDE DEF k0
<1>2. PICK i0 \in DOMAIN rr : e[i0] = k0 /\ rr[i0].id = id
  BY <1>1, PlaceOfName
<1>3. ss[k0] = rr[i0]
  BY <1>2 DEF Embeds
<1>4. e \in [DOMAIN rr -> DOMAIN tt] /\ \A i, j \in DOMAIN rr : i < j => e[i] < e[j]
  BY <1>1 DEF Embeds
<1>5. ASSUME NEW i \in DOMAIN rr, i # i0 PROVE e[i] # k0 /\ tt[e[i]] = ss[e[i]]
  <2>1. ss[e[i]].id = rr[i].id /\ rr[i].id # id /\ e[i] \in DOMAIN ss
    BY <1>2, <1>5 DEF Embeds, Faulted, UniqueIds
  <2> QED BY <1>1, <2>1
<1>6. ASSUME NEW i \in DOMAIN rr
      PROVE  /\ Faulted(rr[i], tt[e[i]], damaged \cup {id})
             /\ rr[i].id \notin taken \cup {id} => tt[e[i]] = rr[i]
  <2>1. CASE i = i0
    BY <1>1, <1>2, <1>3, <2>1 DEF k0
  <2>2. CASE i # i0
    BY <1>5, <2>2 DEF Embeds, Faulted
  <2> QED BY <2>1, <2>2
<1>7. ASSUME NEW k \in DOMAIN tt, \A i \in DOMAIN rr : e[i] # k
      PROVE  /\ tt[k].id \notin KnownIds(rr)
             /\ \E i \in DOMAIN rr : /\ rr[i].id \in taken \cup {id} /\ tt[e[i]] = rr[i]
                                     /\ Body(tt[k]) = Body(rr[i])
  <2>1. k # k0 /\ tt[k] = ss[k] /\ k \in DOMAIN ss
    BY <1>1, <1>2, <1>7
  <2>2. /\ ss[k].id \notin KnownIds(rr)
        /\ \E i \in DOMAIN rr : rr[i].id \in taken /\ ss[e[i]] = rr[i] /\ Body(ss[k]) = Body(rr[i])
    BY <1>7, <2>1 DEF Embeds
  <2>3. PICK i \in DOMAIN rr : rr[i].id \in taken /\ ss[e[i]] = rr[i] /\ Body(ss[k]) = Body(rr[i])
    BY <2>2
  <2>4. i # i0
    BY <1>2, <2>3
  <2>5. tt[e[i]] = rr[i]
    BY <1>5, <2>3, <2>4
  <2> QED BY <2>1, <2>2, <2>3, <2>5
<1> QED BY <1>4, <1>6, <1>7 DEF Embeds

LEMMA CopyEmbeds ==
  ASSUME NEW rr, UniqueIds(rr), NEW p \in AgentPlan, NEW e, NEW damaged, NEW taken,
         Embeds(e, rr, p.steps, damaged, taken), KnownIds(rr) \subseteq Known(p),
         NEW id \in KnownIds(rr), id \notin taken, NEW new_id \in StepId, new_id \notin Known(p)
  PROVE  \E g : Embeds(g, rr, Duplicate(p, id, new_id).broken.steps, damaged \cup {new_id}, taken \cup {id})
<1> DEFINE ss == p.steps
           k0 == FirstAt(ss, id)
           tt == Duplicate(p, id, new_id).broken.steps
           g == [i \in DOMAIN rr |-> IF e[i] <= k0 THEN e[i] ELSE e[i] + 1]
<1>1. /\ k0 \in DOMAIN ss /\ DOMAIN tt = 1 .. Len(ss) + 1
      /\ \A k \in DOMAIN tt : tt[k] = IF k <= k0 THEN ss[k]
                                      ELSE IF k = k0 + 1 THEN [ss[k0] EXCEPT !.id = new_id] ELSE ss[k - 1]
  BY CopySpares
<1>2. DOMAIN ss = 1 .. Len(ss) /\ Len(ss) \in Nat /\ ss[k0] \in Step /\ ss[k0].id = id
  BY <1>1, StepDomain, KnownAt
<1> HIDE DEF k0, tt, ss
<1>3. PICK i0 \in DOMAIN rr : e[i0] = k0 /\ rr[i0].id = id
  BY <1>1, <1>2, PlaceOfName DEF ss
<1>4. ss[k0] = rr[i0]
  BY <1>3 DEF Embeds, ss
<1>5. ASSUME NEW i \in DOMAIN rr PROVE e[i] \in 1 .. Len(ss) /\ g[i] \in DOMAIN tt /\ tt[g[i]] = ss[e[i]] /\ g[i] # k0 + 1
  <2>1. e[i] \in 1 .. Len(ss)
    BY <1>2 DEF Embeds, ss
  <2>2. CASE e[i] <= k0
    <3>1. g[i] = e[i]
      BY <2>2
    <3> HIDE DEF g
    <3> QED BY <1>1, <1>2, <2>1, <2>2, <3>1
  <2>3. CASE ~(e[i] <= k0)
    <3>1. g[i] = e[i] + 1
      BY <2>3
    <3> HIDE DEF g
    <3>2. g[i] \in DOMAIN tt /\ ~(g[i] <= k0) /\ g[i] # k0 + 1 /\ g[i] - 1 = e[i]
      BY <1>1, <1>2, <2>1, <2>3, <3>1
    <3> QED BY <1>1, <2>1, <3>2
  <2> QED BY <2>1, <2>2, <2>3
<1>6. ASSUME NEW i \in DOMAIN rr, NEW j \in DOMAIN rr, i < j PROVE g[i] < g[j]
  <2>1. e[i] \in 1 .. Len(ss) /\ e[j] \in 1 .. Len(ss) /\ e[i] < e[j]
    BY <1>5, <1>6 DEF Embeds
  <2>2. k0 \in Int /\ Len(ss) \in Nat
    BY <1>1, <1>2
  <2> QED BY <2>1, <2>2
<1>7. ASSUME NEW i \in DOMAIN rr
      PROVE  /\ Faulted(rr[i], tt[g[i]], damaged \cup {new_id})
             /\ rr[i].id \notin taken \cup {id} => tt[g[i]] = rr[i]
  <2>1. tt[g[i]] = ss[e[i]]
    BY <1>5
  <2> HIDE DEF g
  <2> QED BY <2>1 DEF Embeds, Faulted, ss
<1>8. ASSUME NEW k \in DOMAIN tt, \A i \in DOMAIN rr : g[i] # k
      PROVE  /\ tt[k].id \notin KnownIds(rr)
             /\ \E i \in DOMAIN rr : /\ rr[i].id \in taken \cup {id} /\ tt[g[i]] = rr[i]
                                     /\ Body(tt[k]) = Body(rr[i])
  <2>1. CASE k = k0 + 1
    <3>1. tt[k] = [ss[k0] EXCEPT !.id = new_id]
      <4>1. ~(k <= k0)
        BY <1>1, <1>2, <2>1
      <4> QED BY <1>1, <2>1, <4>1
    <3>2. tt[k].id = new_id /\ Body(tt[k]) = Body(ss[k0])
      BY <1>2, <3>1 DEF Step, Body
    <3>3. tt[g[i0]] = rr[i0]
      BY <1>3, <1>4, <1>5
    <3> HIDE DEF g
    <3> QED BY <1>3, <1>4, <3>2, <3>3
  <2>2. ASSUME NEW m \in DOMAIN ss, tt[k] = ss[m], \A i \in DOMAIN rr : e[i] # m
        PROVE  /\ tt[k].id \notin KnownIds(rr)
               /\ \E i \in DOMAIN rr : /\ rr[i].id \in taken \cup {id} /\ tt[g[i]] = rr[i]
                                       /\ Body(tt[k]) = Body(rr[i])
    <3>1. /\ ss[m].id \notin KnownIds(rr)
          /\ \E i \in DOMAIN rr : rr[i].id \in taken /\ ss[e[i]] = rr[i] /\ Body(ss[m]) = Body(rr[i])
      BY <2>2 DEF Embeds, ss
    <3>2. \A i \in DOMAIN rr : tt[g[i]] = ss[e[i]]
      BY <1>5
    <3> HIDE DEF g
    <3> QED BY <2>2, <3>1, <3>2
  <2>3. CASE k <= k0
    <3>1. k \in DOMAIN ss /\ tt[k] = ss[k] /\ k \in Int
      BY <1>1, <1>2, <2>3
    <3>2. ASSUME NEW i \in DOMAIN rr PROVE e[i] # k
      BY <1>8, <2>3
    <3> QED BY <2>2, <3>1, <3>2
  <2>4. CASE ~(k <= k0) /\ k # k0 + 1
    <3>1. k - 1 \in DOMAIN ss /\ tt[k] = ss[k - 1] /\ k \in Int /\ k0 \in Int /\ k - 1 > k0
      BY <1>1, <1>2, <2>4
    <3>2. ASSUME NEW i \in DOMAIN rr PROVE e[i] # k - 1
      <4>1. e[i] = k - 1 => g[i] = k
        BY <3>1
      <4> QED BY <1>8, <4>1
    <3> QED BY <2>2, <3>1, <3>2
  <2> QED BY <1>1, <1>2, <2>1, <2>3, <2>4
<1>9. g \in [DOMAIN rr -> DOMAIN tt]
  BY <1>5
<1> HIDE DEF g
<1>10. Embeds(g, rr, tt, damaged \cup {new_id}, taken \cup {id})
  BY <1>6, <1>7, <1>8, <1>9 DEF Embeds
<1> QED BY <1>10 DEF tt

LEMMA EmbedsMore ==
  ASSUME NEW rr, NEW ss, NEW e, NEW damaged, NEW taken, Embeds(e, rr, ss, damaged, taken),
         NEW D, damaged \subseteq D, NEW T, taken \subseteq T
  PROVE  Embeds(e, rr, ss, D, T)
  BY DEF Embeds, Faulted

LEMMA ReachableCases ==
  ASSUME NEW p \in AgentPlan, NEW c, ByOneCall(p, c), c.result.injected.corruption_type \in Reachable
  PROVE  \/ \E id \in c.touched \cap Known(p) : \E deps \in SUBSET StepId :
              c.result = Result([p EXCEPT !.steps[FirstAt(p.steps, id)].input_from = deps],
                                Injected(BROKEN_DEPENDENCY, {id}, {InputFromPath(id)}))
         \/ \E id \in c.touched \cap Known(p) : \E t \in Tool \ Available : c.result = SetTool(p, id, t)
         \/ \E id \in c.touched \cap Known(p) : \E new_id \in {id} \cup FreeIds(p, CopyNames[id]) :
              c.result = Duplicate(p, id, new_id)
<1> DEFINE Goal ==
             \/ \E id \in c.touched \cap Known(p) : \E deps \in SUBSET StepId :
                  c.result = Result([p EXCEPT !.steps[FirstAt(p.steps, id)].input_from = deps],
                                    Injected(BROKEN_DEPENDENCY, {id}, {InputFromPath(id)}))
             \/ \E id \in c.touched \cap Known(p) : \E t \in Tool \ Available : c.result = SetTool(p, id, t)
             \/ \E id \in c.touched \cap Known(p) : \E new_id \in {id} \cup FreeIds(p, CopyNames[id]) :
                  c.result = Duplicate(p, id, new_id)
<1>0. Known(p) \subseteq StepId
  BY NamesAreNames
<1>1. ASSUME NEW id \in c.touched, NEW dep \in StepId, NEW x \in FreeIds(p, UnknownNames[dep]),
             CanBreakDependency(p, id, dep), c.result = BreakDependency(p, id, dep, x)
      PROVE  Goal
  <2> DEFINE i == FirstAt(p.steps, id)
             deps == (p.steps[i].input_from \ {dep}) \cup {x}
  <2>1. id \in Known(p) /\ x \in StepId
    BY <1>1, FreeNames, InjectorAssumption DEF CanBreakDependency
  <2>2. p.steps[i] \in Step
    BY <2>1, KnownAt, StepDomain
  <2>3. deps \in SUBSET StepId
    BY <2>1, <2>2 DEF Step
  <2>4. c.result = Result([p EXCEPT !.steps[i].input_from = deps], Injected(BROKEN_DEPENDENCY, {id}, {InputFromPath(id)}))
    BY <1>1 DEF BreakDependency
  <2> HIDE DEF deps
  <2> QED BY <2>1, <2>3, <2>4
<1>2. ASSUME NEW id \in Known(p), NEW with \in Known(p), c = Touching({id, with}, CloseCycle(p, id, with))
      PROVE  Goal
  <2> DEFINE i == FirstAt(p.steps, id)
             deps == p.steps[i].input_from \cup {with}
  <2>1. p.steps[i] \in Step
    BY KnownAt, StepDomain
  <2>2. deps \in SUBSET StepId
    BY <1>0, <2>1 DEF Step
  <2>3. c.result = Result([p EXCEPT !.steps[i].input_from = deps], Injected(BROKEN_DEPENDENCY, {id}, {InputFromPath(id)}))
    BY <1>2 DEF CloseCycle, Touching
  <2>4. id \in c.touched
    BY <1>2 DEF Touching
  <2> HIDE DEF deps
  <2> QED BY <2>2, <2>3, <2>4
<1>3. ASSUME NEW id \in Known(p), NEW t \in Tool \ Available, c = Touching({id}, SetTool(p, id, t))
      PROVE  Goal
  BY <1>3 DEF Touching
<1>4. ASSUME NEW id \in Known(p), NEW new_id \in {id} \cup FreeIds(p, CopyNames[id]),
             c = Touching({id}, Duplicate(p, id, new_id))
      PROVE  Goal
  BY <1>4 DEF Touching
<1>5. /\ "step_deletion" \notin Reachable /\ "wrong_ordering" \notin Reachable
      /\ "drop_required_step" \notin Reachable /\ "missing_stop_condition" \notin Reachable
  BY DEF Reachable, BROKEN_DEPENDENCY, WRONG_TOOL, DUPLICATE_STEP
<1>6. \A id : c # Touching({id}, DeleteStep(p, id))
  BY <1>5 DEF DeleteStep, Result, Injected, Touching, STEP_DELETION
<1>7. \A id, to : c # Touching({id}, MoveEarlier(p, id, to))
  BY <1>5 DEF MoveEarlier, Result, Injected, Touching, WRONG_ORDERING
<1>8. \A r : c # Touching({}, DropRequired(p, r))
  BY <1>5 DEF DropRequired, Result, Injected, Touching, DROP_REQUIRED_STEP
<1>9. c # Touching({}, DropStop(p))
  BY <1>5 DEF DropStop, Result, Injected, Touching, MISSING_STOP_CONDITION
<1> HIDE DEF Goal
<1>10. Goal
  BY <1>1, <1>2, <1>3, <1>4, <1>6, <1>7, <1>8, <1>9 DEF ByOneCall
<1> QED BY <1>10 DEF Goal

LEMMA EmbedsNames ==
  ASSUME NEW rr, NEW ss, NEW e, NEW damaged, NEW taken, Embeds(e, rr, ss, damaged, taken)
  PROVE  KnownIds(rr) \subseteq KnownIds(ss)
<1> SUFFICES ASSUME NEW i \in DOMAIN rr PROVE rr[i].id \in KnownIds(ss)
  BY DEF KnownIds
<1>1. e[i] \in DOMAIN ss /\ ss[e[i]].id = rr[i].id
  BY DEF Embeds, Faulted
<1> QED BY <1>1 DEF KnownIds

\* The names of the broken plan are its own before a corruption if they are after it.
LEMMA RewriteUnique ==
  ASSUME NEW ss, NEW tt, NEW id, NEW s, Rewrites(ss, tt, id, s), UniqueIds(tt)
  PROVE  UniqueIds(ss)
<1>1. DOMAIN tt = DOMAIN ss /\ \A k \in DOMAIN ss : tt[k].id = ss[k].id
  BY DEF Rewrites
<1> QED BY <1>1 DEF UniqueIds

LEMMA CopyUnique ==
  ASSUME NEW p \in AgentPlan, NEW id \in Known(p), NEW new_id \in StepId,
         UniqueIds(Duplicate(p, id, new_id).broken.steps)
  PROVE  UniqueIds(p.steps) /\ new_id # id
<1> DEFINE ss == p.steps
           k0 == FirstAt(ss, id)
           tt == Duplicate(p, id, new_id).broken.steps
           new(k) == IF k <= k0 THEN k ELSE k + 1
<1>1. /\ k0 \in DOMAIN ss /\ DOMAIN tt = 1 .. Len(ss) + 1
      /\ \A k \in DOMAIN tt : tt[k] = IF k <= k0 THEN ss[k]
                                      ELSE IF k = k0 + 1 THEN [ss[k0] EXCEPT !.id = new_id] ELSE ss[k - 1]
  BY CopySpares
<1>2. DOMAIN ss = 1 .. Len(ss) /\ Len(ss) \in Nat /\ ss[k0] \in Step /\ ss[k0].id = id
  BY <1>1, StepDomain, KnownAt
<1> HIDE DEF k0, tt, ss
<1>3. ASSUME NEW k \in DOMAIN ss PROVE new(k) \in DOMAIN tt /\ tt[new(k)] = ss[k] /\ k \in Int
  <2>1. CASE k <= k0
    BY <1>1, <1>2, <2>1
  <2>2. CASE ~(k <= k0)
    <3>1. k + 1 \in DOMAIN tt /\ ~(k + 1 <= k0) /\ k + 1 # k0 + 1 /\ k + 1 - 1 = k /\ k \in Int
      BY <1>1, <1>2, <2>2
    <3> QED BY <1>1, <2>2, <3>1
  <2> QED BY <2>1, <2>2
<1>4. ASSUME NEW k \in DOMAIN ss, NEW m \in DOMAIN ss, ss[k].id = ss[m].id PROVE k = m
  <2>1. new(k) = new(m)
    <3>1. new(k) \in DOMAIN tt /\ new(m) \in DOMAIN tt /\ tt[new(k)].id = tt[new(m)].id
      BY <1>3, <1>4
    <3> HIDE DEF new
    <3> QED BY <3>1 DEF UniqueIds, tt
  <2>2. k \in Int /\ m \in Int /\ k0 \in Int
    BY <1>1, <1>2
  <2> QED BY <2>1, <2>2
<1>5. ASSUME new_id = id PROVE FALSE
  <2>1. k0 \in DOMAIN tt /\ k0 + 1 \in DOMAIN tt /\ k0 <= k0 /\ ~(k0 + 1 <= k0) /\ k0 # k0 + 1
    BY <1>1, <1>2
  <2>2. tt[k0] = ss[k0] /\ tt[k0 + 1] = [ss[k0] EXCEPT !.id = new_id]
    BY <1>1, <2>1
  <2>3. tt[k0 + 1].id = tt[k0].id
    BY <1>2, <1>5, <2>2 DEF Step
  <2> QED BY <2>1, <2>3 DEF UniqueIds, tt
<1> QED BY <1>4, <1>5 DEF UniqueIds, ss

(***************************************************************************)
(* What is put back.  Places in order that leave none out are all places.  *)
(***************************************************************************)
OrderedOnto(f, n, N) ==
  /\ f \in [1 .. n -> 1 .. N]
  /\ \A i, j \in 1 .. n : i < j => f[i] < f[j]
  /\ \A m \in 1 .. N : \E i \in 1 .. n : f[i] = m

LEMMA IncreasingOnto ==
  ASSUME NEW n \in Nat, NEW N \in Nat, NEW f, OrderedOnto(f, n, N)
  PROVE  N = n /\ \A i \in 1 .. n : f[i] = i
<1> USE DEF OrderedOnto
<1> DEFINE K == {i \in 1 .. n : f[i] # i}
<1>0. \A i \in 1 .. n : f[i] \in Int /\ 1 <= f[i] /\ f[i] <= N
  OBVIOUS
<1>1. ASSUME K # {} PROVE FALSE
  <2>1. K \in SUBSET Int /\ IsFiniteSet(K)
    BY IndicesAreFinite
  <2>2. PICK i \in K : \A j \in K : i <= j
    <3> HIDE DEF K
    <3> QED BY <1>1, <2>1, LeastOf
  <2>3. i \in 1 .. n /\ f[i] # i
    OBVIOUS
  <2>4. \A j \in 1 .. n : j < i => f[j] = j
    BY <2>2, <2>3
  <2>5. i <= f[i]
    <3>1. CASE i = 1
      BY <1>0, <2>3, <3>1
    <3>2. CASE i # 1
      <4>1. i - 1 \in 1 .. n /\ i - 1 < i
        BY <2>3, <3>2
      <4>2. f[i - 1] = i - 1 /\ f[i - 1] < f[i]
        BY <2>3, <2>4, <4>1
      <4> QED BY <1>0, <2>3, <4>1, <4>2
    <3> QED BY <3>1, <3>2
  <2>6. i \in 1 .. N /\ i < f[i]
    BY <1>0, <2>3, <2>5
  <2>7. PICK m \in 1 .. n : f[m] = i
    BY <2>6
  <2>8. m > i
    <3>1. m # i
      BY <2>3, <2>7
    <3>2. ~(m < i)
      BY <2>4, <2>7, <3>1
    <3> QED BY <2>3, <3>1, <3>2
  <2>9. f[i] < f[m]
    BY <2>3, <2>8
  <2> QED BY <2>6, <2>7, <2>9
<1>2. \A i \in 1 .. n : f[i] = i
  BY <1>1
<1>3. n <= N
  <2>1. CASE n = 0
    BY <2>1
  <2>2. CASE n # 0
    <3>1. n \in 1 .. n
      BY <2>2
    <3> QED BY <1>0, <1>2, <3>1
  <2> QED BY <2>1, <2>2
<1>4. N <= n
  <2>1. CASE N = 0
    BY <2>1
  <2>2. CASE N # 0
    <3>1. PICK m \in 1 .. n : f[m] = N
      BY <2>2
    <3> QED BY <1>2, <3>1
  <2> QED BY <2>1, <2>2
<1> QED BY <1>2, <1>3, <1>4

\* Of the errors only some of the dangling steps are left out of the mask.
LEMMA OthersAreMasked ==
  ASSUME NEW errors, NEW ss, NEW e \in errors, e.type # DANGLING_STEP, NEW path \in e.paths
  PROVE  path \in PathsToMask(errors, ss)
  BY DEF PathsToMask, DetectedPaths

LEMMA CopyIsMasked ==
  ASSUME NEW p, NEW k \in DOMAIN p.steps, NEW m \in DOMAIN p.steps, k # m,
         Body(p.steps[k]) = Body(p.steps[m])
  PROVE  StepPath(p.steps[k].id) \in PathsToMask(Errors(p), p.steps)
<1> DEFINE ids == SameWork(p.steps, k)
           paths == {StepPath(id) : id \in SameWork(p.steps, k)}
           e == Error(DUPLICATE_STEP, ids, paths, "identical_content")
<1>1. \E j \in DOMAIN p.steps \ {k} : Body(p.steps[j]) = Body(p.steps[k])
  OBVIOUS
<1>2. e \in DuplicateErrors(p.steps)
  BY <1>1, Zenon DEF DuplicateErrors
<1>3. p.steps[k].id \in ids
  BY DEF SameWork
<1>4. StepPath(p.steps[k].id) \in paths
  BY <1>3
<1>5. e.type # DANGLING_STEP /\ e.paths = paths
  BY DEF Error, DUPLICATE_STEP, DANGLING_STEP
<1> HIDE DEF ids, paths, e
<1>6. e \in Errors(p)
  BY <1>2, ChecksAreReported
<1> QED BY <1>4, <1>5, <1>6, OthersAreMasked

LEMMA PathFronts ==
  /\ \A id : StepPath(id)[1] = "step" /\ ToolPath(id)[1] = "tool" /\ InputFromPath(id)[1] = "input_from"
  /\ \A t : EvidencePath(t)[1] = "evidence" /\ OperationPath(t)[1] = "operation"
  /\ StopPath[1] = "stop_condition"
  BY DEF StepPath, ToolPath, InputFromPath, EvidencePath, OperationPath, StopPath

LEMMA ErrorPaths ==
  ASSUME NEW t, NEW ids, NEW paths, NEW kind
  PROVE  Error(t, ids, paths, kind).paths = paths
  BY DEF Error

LEMMA DanglingPaths ==
  ASSUME NEW p, NEW e \in Errors(p), e.type = DANGLING_STEP
  PROVE  \A path \in e.paths : path[1] = "step"
<1> DEFINE ss == p.steps
<1>1. /\ \A x \in UnknownTools(ss) : x.type # DANGLING_STEP
      /\ \A x \in UnknownDependencies(ss) : x.type # DANGLING_STEP
      /\ \A x \in CycleErrors(ss) : x.type # DANGLING_STEP
      /\ \A x \in OrderingErrors(ss) : x.type # DANGLING_STEP
      /\ \A x \in DuplicateErrors(ss) : x.type # DANGLING_STEP
      /\ \A x \in MissingStop(p) : x.type # DANGLING_STEP
      /\ \A x \in MissingTags(ss) : x.type # DANGLING_STEP
      /\ \A x \in MissingWork(ss) : x.type # DANGLING_STEP
  BY ChecksReportTheirType
     DEF UNKNOWN_TOOL, UNKNOWN_DEPENDENCY, DEP_CYCLE, ORDERING, DUPLICATE_STEP, DANGLING_STEP,
         MISSING_STOP_CONDITION, MISSING_EVIDENCE, MISSING_OPERATION
<1>2. CoverageErrors(ss) = MissingTags(ss) \cup MissingWork(ss)
  BY DEF CoverageErrors, MissingTags, MissingWork
<1>3. e \in DanglingErrors(ss)
  BY <1>1, <1>2 DEF Errors
<1>4. \A id : Error(DANGLING_STEP, {id}, {StepPath(id)}, "").paths = {StepPath(id)}
  BY DEF Error
<1>5. PICK id \in KnownIds(ss) : e = Error(DANGLING_STEP, {id}, {StepPath(id)}, "")
  BY <1>3 DEF DanglingErrors
<1>6. e.paths = {StepPath(id)}
  BY <1>4, <1>5, Zenon
<1> QED BY <1>6, PathFronts

\* A path to a field, reported at all, is a path to mask.
LEMMA FieldIsMasked ==
  ASSUME NEW p, NEW path \in DetectedPaths(Errors(p)), path[1] # "step"
  PROVE  path \in PathsToMask(Errors(p), p.steps)
<1>1. PICK e \in Errors(p) : path \in e.paths
  BY DEF DetectedPaths
<1>2. e.type # DANGLING_STEP
  BY <1>1, DanglingPaths
<1> QED BY <1>1, <1>2, OthersAreMasked

\* Only a step with a tool the task does not offer is asked for its tool.
LEMMA ToolPathsAre ==
  ASSUME NEW p, NEW e \in Errors(p), NEW path \in e.paths, path[1] = "tool"
  PROVE  \E j \in DOMAIN p.steps : path = ToolPath(p.steps[j].id) /\ p.steps[j].tool \notin Available
<1> DEFINE ss == p.steps
<1>1. "input_from" # "tool" /\ "step" # "tool" /\ "stop_condition" # "tool" /\ "evidence" # "tool" /\ "operation" # "tool"
  OBVIOUS
<1>2. ASSUME NEW t, NEW ids, NEW id, NEW kind
      PROVE  e # Error(t, ids, {StepPath(id)}, kind) /\ e # Error(t, ids, {InputFromPath(id)}, kind)
  BY <1>1, PathFronts, ErrorPaths
<1>3. ASSUME NEW t, NEW ids, NEW X, NEW kind
      PROVE  /\ e # Error(t, ids, {StepPath(id) : id \in X}, kind)
             /\ e # Error(t, ids, {InputFromPath(id) : id \in X}, kind)
  BY <1>1, PathFronts, ErrorPaths
<1>4. ASSUME NEW t, NEW ids, NEW x, NEW kind
      PROVE  /\ e # Error(t, ids, {EvidencePath(x)}, kind) /\ e # Error(t, ids, {OperationPath(x)}, kind)
             /\ e # Error(t, ids, {StopPath}, kind)
  BY <1>1, PathFronts, ErrorPaths
<1>5. e \notin UnknownDependencies(ss) /\ e \notin OrderingErrors(ss) /\ e \notin DanglingErrors(ss)
  BY <1>2 DEF UnknownDependencies, OrderingErrors, DanglingErrors
<1>6. e \notin CycleErrors(ss) /\ e \notin DuplicateErrors(ss)
  BY <1>2, <1>3 DEF CycleErrors, DuplicateErrors
<1>7. e \notin MissingStop(p) /\ e \notin CoverageErrors(ss)
  BY <1>4 DEF MissingStop, CoverageErrors
<1>8. e \in UnknownTools(ss)
  <2> HIDE DEF ss
  <2> QED BY <1>5, <1>6, <1>7 DEF Errors, ss
<1>9. PICK j \in DOMAIN ss : /\ ss[j].tool \notin Available
                             /\ e = Error(UNKNOWN_TOOL, {ss[j].id}, {ToolPath(ss[j].id)}, "")
  BY <1>8 DEF UnknownTools
<1>10. e.paths = {ToolPath(ss[j].id)}
  BY <1>9, ErrorPaths
<1> QED BY <1>9, <1>10

LEMMA MaskTakes ==
  ASSUME NEW ss, NEW paths, NEW path \in paths, path[1] \in {"step", "tool", "input_from"},
         path[2] \in KnownIds(ss)
  PROVE  \/ <<path[2], Whole>> \in MaskSpec(ss, paths).spans
         \/ path[1] # "step" /\ <<path[2], path[1]>> \in MaskSpec(ss, paths).spans
  BY DEF MaskSpec, StepPaths, TOOL_FIELD, DEPENDENCY_FIELD

LEMMA MaskedBy ==
  ASSUME NEW ss, NEW paths, NEW id \in MaskSpec(ss, paths).masked_step_ids
  PROVE  \E path \in paths : path[1] \in {"step", "tool", "input_from"} /\ path[2] = id /\ id \in KnownIds(ss)
  BY DEF MaskSpec, StepPaths, TOOL_FIELD, DEPENDENCY_FIELD

\* Spans of a list of steps under keys of their own.
Distinct(ss, spans) ==
  /\ spans \subseteq Spans(ss) /\ KnownIds(ss) \subseteq StepId
  /\ \A span \in spans : span[2] # Whole => Key(span) \notin KnownIds(ss)

LEMMA KeysTell ==
  ASSUME NEW ss, NEW spans, Distinct(ss, spans), NEW s \in spans, NEW t \in spans, Key(s) = Key(t)
  PROVE  s = t
<1>1. \A x \in spans : /\ x = <<x[1], x[2]>> /\ x[1] \in KnownIds(ss) /\ x[1] \in StepId
                       /\ x[2] \in {Whole, TOOL_FIELD, DEPENDENCY_FIELD}
                       /\ x[2] # Whole => Key(x) \notin KnownIds(ss)
  BY DEF Distinct, Spans
<1>2. CASE s[2] = Whole /\ t[2] = Whole
  BY <1>1, <1>2 DEF Key
<1>3. CASE s[2] # Whole /\ t[2] # Whole
  <2>1. FieldKey[s] = FieldKey[t]
    BY <1>3 DEF Key
  <2>2. s \in StepId \X {TOOL_FIELD, DEPENDENCY_FIELD} /\ t \in StepId \X {TOOL_FIELD, DEPENDENCY_FIELD}
    BY <1>1, <1>3
  <2> QED BY <2>1, <2>2, FieldKeyAssumption
<1>4. CASE (s[2] = Whole) # (t[2] = Whole)
  BY <1>1, <1>4 DEF Key
<1> QED BY <1>2, <1>3, <1>4

\* What a backend that has the plan r at hand answers for these spans.
Recalled(f, r, spans) ==
  LET answered == {span \in spans : span[1] \in Known(r) \/ span[2] = Whole}
  IN  /\ DOMAIN f = Keys(answered)
      /\ \A span \in answered :
           f[Key(span)] = IF span[1] \in Known(r) THEN Answer(LastStep(r, span[1]), span[2]) ELSE Dropped

LEMMA AnswerKinds ==
  ASSUME NEW step, NEW part
  PROVE  /\ part = Whole => Answer(step, part) = Steps(<<step>>)
         /\ part # Whole => \E v : Answer(step, part) = Value(v)
  BY DEF Answer

\* Each text the oracle gives fits where it goes, and none is blank.
LEMMA RecalledFits ==
  ASSUME NEW f, NEW r, NEW ss, NEW spans, Distinct(ss, spans), Recalled(f, r, spans),
         NEW tools, NEW dependencies
  PROVE  LET g == Placed(ss, Snapped(f, ss, spans, tools, dependencies), spans)
         IN  /\ Written(f) /\ DOMAIN f \subseteq Keys(spans)
             /\ \A key \in DOMAIN f : f[key].kind # "reaching"
             /\ \A place \in DOMAIN g : Fits(place, g[place]) /\ g[place] # Junk /\ g[place] # Steps(<<>>)
<1> DEFINE h == Snapped(f, ss, spans, tools, dependencies)
           g == Placed(ss, h, spans)
<1>1. ASSUME NEW key \in DOMAIN f
      PROVE  \E span \in spans :
               /\ key = Key(span)
               /\ \/ span[2] = Whole /\ (f[key] = Dropped \/ \E s : f[key] = Steps(<<s>>))
                  \/ span[2] # Whole /\ \E v : f[key] = Value(v)
  <2>1. PICK span \in spans : /\ key = Key(span) /\ (span[1] \in Known(r) \/ span[2] = Whole)
                              /\ f[key] = IF span[1] \in Known(r) THEN Answer(LastStep(r, span[1]), span[2]) ELSE Dropped
    BY DEF Recalled, Keys
  <2>2. CASE span[1] \in Known(r)
    <3>1. f[key] = Answer(LastStep(r, span[1]), span[2])
      BY <2>1, <2>2
    <3>2. \/ span[2] = Whole /\ \E s : f[key] = Steps(<<s>>)
          \/ span[2] # Whole /\ \E v : f[key] = Value(v)
      <4>1. PICK step, part : step = LastStep(r, span[1]) /\ part = span[2]
        OBVIOUS
      <4>2. f[key] = Answer(step, part)
        BY <3>1, <4>1
      <4>3. CASE part = Whole
        BY <4>1, <4>2, <4>3, AnswerKinds, Zenon
      <4>4. CASE part # Whole
        <5>1. \E v : Answer(step, part) = Value(v)
          BY <4>4, AnswerKinds, Zenon
        <5>2. PICK v : Answer(step, part) = Value(v)
          BY <5>1
        <5>3. f[key] = Value(v) /\ span[2] # Whole
          BY <4>1, <4>2, <4>4, <5>2
        <5> QED BY <5>3
      <4> QED BY <4>3, <4>4
    <3>3. key = Key(span) /\ span \in spans
      BY <2>1
    <3> QED BY <3>2, <3>3
  <2>3. CASE span[1] \notin Known(r)
    BY <2>1, <2>3
  <2> QED BY <2>2, <2>3
<1>2. DOMAIN f \subseteq Keys(spans)
  BY <1>1 DEF Keys
<1>3. Written(f)
  BY <1>1, SingleIsList DEF Written, IsWritten
<1>4. /\ DOMAIN h = DOMAIN f
      /\ \A key \in DOMAIN f : h[key] = f[key] \/ (f[key].kind = "value" /\ \E v : h[key] = Value(v))
  BY SnapKeepsKinds
<1> HIDE DEF h
<1>5. /\ \A place \in DOMAIN g : g[place] = h[Key(place)] /\ Key(place) \in DOMAIN h
      /\ DOMAIN g \subseteq spans
  BY <1>2, <1>4, PlacedIs, PlacesAreMasked DEF Distinct
<1> HIDE DEF g
<1>6. ASSUME NEW place \in DOMAIN g PROVE Fits(place, g[place]) /\ g[place] # Junk /\ g[place] # Steps(<<>>)
  <2> DEFINE key == Key(place)
  <2>1. key \in DOMAIN f /\ place \in spans /\ g[place] = h[key]
    BY <1>4, <1>5
  <2>2. PICK span \in spans : /\ key = Key(span)
                              /\ \/ span[2] = Whole /\ (f[key] = Dropped \/ \E s : f[key] = Steps(<<s>>))
                                 \/ span[2] # Whole /\ \E v : f[key] = Value(v)
    BY <1>1, <2>1
  <2>3. span = place
    BY <2>1, <2>2, KeysTell
  <2> HIDE DEF key
  <2>4. CASE f[key] = Dropped /\ place[2] = Whole
    BY <1>4, <2>1, <2>4, Kinds DEF Fits
  <2>5. CASE place[2] = Whole /\ \E s : f[key] = Steps(<<s>>)
    <3>1. PICK s : f[key] = Steps(<<s>>)
      BY <2>5
    <3>2. PICK ones : ones = <<s>> /\ ones # <<>>
      <4>1. <<s>> # <<>>
        BY Len(<<s>>) = 1, Len(<<>>) = 0
      <4> QED BY <4>1
    <3>3. g[place] = Steps(ones)
      BY <1>4, <2>1, <3>1, <3>2, Kinds
    <3> QED BY <2>5, <3>2, <3>3, Kinds DEF Fits
  <2>6. CASE place[2] # Whole /\ \E v : f[key] = Value(v)
    <3>1. PICK v : f[key] = Value(v)
      BY <2>6
    <3>2. PICK w : g[place] = Value(w)
      BY <1>4, <2>1, <3>1
    <3> QED BY <2>6, <3>2, Kinds DEF Fits
  <2> QED BY <2>2, <2>3, <2>4, <2>5, <2>6
<1>7. ASSUME NEW key \in DOMAIN f PROVE f[key].kind # "reaching"
  <2>1. CASE f[key] = Dropped \/ \E s : f[key] = Steps(<<s>>)
    BY <2>1, Kinds
  <2>2. CASE \E v : f[key] = Value(v)
    <3>1. PICK v : f[key] = Value(v)
      BY <2>2
    <3> QED BY <3>1, Kinds
  <2> QED BY <1>1, <2>1, <2>2
<1> QED BY <1>2, <1>3, <1>6, <1>7 DEF g, h

\* What the oracle does, span by span, where no two go under one key.
LEMMA OracleRecalls ==
  ASSUME OracleFills, broken \in AgentPlan, Distinct(broken.steps, spec.spans)
  PROVE  Recalled(filling', reference, spec.spans)
<1> DEFINE answered == {span \in spec.spans : span[1] \in Known(reference) \/ span[2] = Whole}
           text(span) == IF span[1] \in Known(reference) THEN Answer(LastStep(reference, span[1]), span[2]) ELSE Dropped
<1>1. filling' = [key \in Keys(answered) |-> text(LastSpan(answered, key))]
  BY DEF OracleFills
<1>2. ASSUME NEW span \in answered PROVE LastSpan(answered, Key(span)) = span
  <2> DEFINE asked == {x \in answered : Key(x) = Key(span)}
  <2>1. asked = {span}
    BY KeysTell
  <2>2. span[1] \in Known(broken)
    BY DEF Distinct, Spans, Known
  <2>3. LastAt(broken.steps, span[1]) \in Int
    BY <2>2, KnownAt, StepDomain
  <2>4. LastSpan(answered, Key(span))
          = CHOOSE x \in asked : \A other \in asked : LastAt(broken.steps, other[1]) <= LastAt(broken.steps, x[1])
    BY DEF LastSpan
  <2> HIDE DEF asked
  <2> QED BY <2>1, <2>3, <2>4
<1>3. ASSUME NEW span \in answered PROVE filling'[Key(span)] = text(span)
  <2>1. Key(span) \in Keys(answered)
    BY DEF Keys
  <2> HIDE DEF answered, text
  <2> QED BY <1>1, <1>2, <2>1
<1>4. DOMAIN filling' = Keys(answered)
  BY <1>1
<1> QED BY <1>3, <1>4 DEF Recalled

LEMMA RecalledParses ==
  ASSUME NEW f, NEW r, NEW ss, NEW spans, Distinct(ss, spans), Recalled(f, r, spans),
         NEW tools, NEW dependencies
  PROVE  Parses(ss, Placed(ss, Snapped(f, ss, spans, tools, dependencies), spans))
<1> DEFINE g == Placed(ss, Snapped(f, ss, spans, tools, dependencies), spans)
<1>1. \A place \in DOMAIN g : Fits(place, g[place]) /\ g[place] # Junk /\ g[place] # Steps(<<>>)
  BY RecalledFits
<1> HIDE DEF g
<1>2. LinesOf(ss, g, Steps(<<>>)) = {}
  BY <1>1 DEF LinesOf
<1> QED BY <1>1, <1>2 DEF Parses, g

\* What stands at the places of a step once its own texts are put back.
BackAt(g, spans, step) ==
  /\ <<step.id, Whole>> \in DOMAIN g <=> <<step.id, Whole>> \in spans
  /\ \A part : (part # Whole /\ <<step.id, Whole>> \notin spans) =>
       (<<step.id, part>> \in DOMAIN g <=> <<step.id, part>> \in spans)
  /\ <<step.id, Whole>> \in DOMAIN g => g[<<step.id, Whole>>] = Steps(<<step>>)
  /\ <<step.id, TOOL_FIELD>> \in DOMAIN g => g[<<step.id, TOOL_FIELD>>] = Value(step.tool)
  /\ <<step.id, DEPENDENCY_FIELD>> \in DOMAIN g => g[<<step.id, DEPENDENCY_FIELD>>] = Value(step.input_from)

\* The oracle's answers, completed: a tool the task offers and references to steps of
\* the plan are left as they are.
LEMMA RecalledIs ==
  ASSUME NEW r \in AgentPlan, UniqueIds(r.steps), NEW i \in DOMAIN r.steps,
         r.steps[i].tool \in Available, NEW ss, r.steps[i].input_from \subseteq KnownIds(ss),
         Blank \notin r.steps[i].input_from, r.steps[i].id \in KnownIds(ss),
         NEW spans, Distinct(ss, spans), NEW f, Recalled(f, r, spans), NEW tools, NEW dependencies
  PROVE  BackAt(Placed(ss, Snapped(f, ss, spans, tools, dependencies), spans), spans, r.steps[i])
<1> DEFINE id == r.steps[i].id
           h == Snapped(f, ss, spans, tools, dependencies)
           p == Placed(ss, f, spans)
           g == Placed(ss, h, spans)
<1>1. id \in Known(r) /\ id \in KnownIds(ss)
  BY DEF Known, KnownIds
<1>2. LastStep(r, id) = r.steps[i]
  BY StepDomain, LastOfUnique DEF LastStep
<1>3. Written(f) /\ spans \in SUBSET Spans(ss) /\ KnownIds(ss) \subseteq StepId
  BY RecalledFits DEF Distinct
<1>4. /\ DOMAIN g = DOMAIN p
      /\ \A place \in DOMAIN p : g[place] = p[place] \/ (p[place].kind = "value" /\ g[place].kind = "value")
  BY <1>3, SnapKeepsPlaces
<1>5. ASSUME NEW place \in DOMAIN p, place[2] # Whole
      PROVE  g[place] = SnappedText(p[place], place, ss, tools, dependencies)
  BY <1>3, <1>5, PlaceCompleted
<1>6. /\ \A place \in DOMAIN p : p[place] = f[Key(place)] /\ Key(place) \in DOMAIN f
      /\ <<id, Whole>> \in DOMAIN p <=> id \in KnownIds(ss) \cap DOMAIN f
      /\ \A place : place[2] # Whole =>
           (place \in DOMAIN p <=> /\ place \in spans /\ place[1] \notin DOMAIN f
                                   /\ Key(place) \in DOMAIN f /\ f[Key(place)] # Dropped)
  BY PlacedIs
<1> HIDE DEF id, h, p, g
<1>7. ASSUME NEW part, <<id, part>> \in spans
      PROVE  Key(<<id, part>>) \in DOMAIN f /\ f[Key(<<id, part>>)] = Answer(r.steps[i], part)
  BY <1>1, <1>2, <1>7 DEF Recalled, Keys
<1>8. id \in DOMAIN f <=> <<id, Whole>> \in spans
  <2>1. Key(<<id, Whole>>) = id
    BY DEF Key
  <2>2. ASSUME id \in DOMAIN f PROVE <<id, Whole>> \in spans
    <3>1. PICK span \in spans : id = Key(span)
      BY <2>2 DEF Recalled, Keys
    <3>2. span[2] = Whole /\ span = <<span[1], span[2]>>
      BY <1>1, <3>1 DEF Distinct, Spans
    <3>3. span[1] = id
      BY <3>1, <3>2 DEF Key
    <3> QED BY <3>2, <3>3
  <2> QED BY <1>7, <2>1, <2>2
<1>9. <<id, Whole>> \in DOMAIN p <=> <<id, Whole>> \in spans
  BY <1>1, <1>6, <1>8
<1>10. ASSUME NEW part, part # Whole, <<id, Whole>> \notin spans
       PROVE  <<id, part>> \in DOMAIN p <=> <<id, part>> \in spans
  <2>1. ASSUME <<id, part>> \in spans PROVE f[Key(<<id, part>>)] # Dropped
    <3>1. \E v : Answer(r.steps[i], part) = Value(v)
      BY <1>10, AnswerKinds
    <3>2. PICK v : f[Key(<<id, part>>)] = Value(v)
      BY <1>7, <2>1, <3>1
    <3> QED BY <3>2, Kinds
  <2>2. <<id, part>>[1] = id /\ <<id, part>>[2] # Whole
    BY <1>10
  <2> QED BY <1>6, <1>7, <1>8, <1>10, <2>1, <2>2
<1>11. ASSUME <<id, Whole>> \in DOMAIN p PROVE g[<<id, Whole>>] = Steps(<<r.steps[i]>>)
  <2>1. p[<<id, Whole>>] = Steps(<<r.steps[i]>>)
    BY <1>6, <1>7, <1>9, <1>11, AnswerKinds
  <2> QED BY <1>4, <1>11, <2>1, Kinds
<1>12. ASSUME NEW part, part # Whole, <<id, part>> \in DOMAIN p
       PROVE  g[<<id, part>>] = SnappedText(Answer(r.steps[i], part), <<id, part>>, ss, tools, dependencies)
  <2>1. <<id, part>>[2] # Whole
    BY <1>12
  <2>2. p[<<id, part>>] = Answer(r.steps[i], part)
    BY <1>6, <1>7, <1>12, <2>1
  <2> QED BY <1>5, <1>12, <2>1, <2>2
<1>13. ASSUME <<id, TOOL_FIELD>> \in DOMAIN p PROVE g[<<id, TOOL_FIELD>>] = Value(r.steps[i].tool)
  <2>1. Answer(r.steps[i], TOOL_FIELD) = Value(r.steps[i].tool) /\ TOOL_FIELD # Whole /\ TOOL_FIELD # DEPENDENCY_FIELD
    BY DEF Answer, TOOL_FIELD, DEPENDENCY_FIELD, Whole
  <2>2. SnapToolValue(r.steps[i].tool) = r.steps[i].tool
    BY DEF SnapToolValue
  <2>3. g[<<id, TOOL_FIELD>>] = SnappedText(Value(r.steps[i].tool), <<id, TOOL_FIELD>>, ss, tools, dependencies)
    BY <1>12, <1>13, <2>1
  <2> QED BY <2>1, <2>2, <2>3, Kinds DEF SnappedText
<1>14. ASSUME <<id, DEPENDENCY_FIELD>> \in DOMAIN p
       PROVE  g[<<id, DEPENDENCY_FIELD>>] = Value(r.steps[i].input_from)
  <2>1. /\ Answer(r.steps[i], DEPENDENCY_FIELD) = Value(r.steps[i].input_from)
        /\ DEPENDENCY_FIELD # Whole /\ TOOL_FIELD # DEPENDENCY_FIELD
    BY DEF Answer, TOOL_FIELD, DEPENDENCY_FIELD, Whole
  <2>2. SnapDependencyValue(r.steps[i].input_from, ss, id) = r.steps[i].input_from
    BY DEF SnapDependencyValue
  <2>3. g[<<id, DEPENDENCY_FIELD>>]
          = SnappedText(Value(r.steps[i].input_from), <<id, DEPENDENCY_FIELD>>, ss, tools, dependencies)
    BY <1>12, <1>14, <2>1
  <2> QED BY <2>1, <2>2, <2>3, Kinds DEF SnappedText
<1>15. /\ <<id, Whole>> \in DOMAIN g <=> <<id, Whole>> \in spans
       /\ \A part : (part # Whole /\ <<id, Whole>> \notin spans) =>
            (<<id, part>> \in DOMAIN g <=> <<id, part>> \in spans)
       /\ <<id, Whole>> \in DOMAIN g => g[<<id, Whole>>] = Steps(<<r.steps[i]>>)
       /\ <<id, TOOL_FIELD>> \in DOMAIN g => g[<<id, TOOL_FIELD>>] = Value(r.steps[i].tool)
       /\ <<id, DEPENDENCY_FIELD>> \in DOMAIN g =>
            g[<<id, DEPENDENCY_FIELD>>] = Value(r.steps[i].input_from)
  BY <1>4, <1>9, <1>10, <1>11, <1>13, <1>14
<1>16. BackAt(g, spans, r.steps[i])
  BY <1>15 DEF BackAt, id
<1> QED BY <1>16 DEF g, h

\* At each place once the oracle has answered: at a reference step's own, that step,
\* and at a copy's, nothing.
Spared(e, rr, line) ==
  /\ e \in [DOMAIN rr -> DOMAIN line]
  /\ \A i, j \in DOMAIN rr : i < j => e[i] < e[j]
  /\ \A i \in DOMAIN rr : line[e[i]] = <<rr[i]>>
  /\ \A k \in DOMAIN line : (\A i \in DOMAIN rr : e[i] # k) => line[k] = <<>>

LEMMA RecalledLines ==
  ASSUME NEW r \in AgentPlan, Sound(r.steps), Blank \notin Known(r),
         NEW b \in AgentPlan, UniqueIds(b.steps),
         NEW e, NEW damaged, NEW taken, Embeds(e, r.steps, b.steps, damaged, taken),
         NEW mask, mask = MaskSpec(b.steps, PathsToMask(Errors(b), b.steps)),
         damaged \cap Known(r) \subseteq mask.masked_step_ids, Distinct(b.steps, mask.spans),
         NEW f, Recalled(f, r, mask.spans), NEW tools, NEW dependencies
  PROVE  LET g == Placed(b.steps, Snapped(f, b.steps, mask.spans, tools, dependencies), mask.spans)
         IN  Spared(e, r.steps, [k \in DOMAIN b.steps |-> Line(b.steps[k], g)])
<1> DEFINE rr == r.steps
           ss == b.steps
           paths == PathsToMask(Errors(b), ss)
           p == Placed(ss, f, mask.spans)
           g == Placed(ss, Snapped(f, ss, mask.spans, tools, dependencies), mask.spans)
<1>1. UniqueIds(rr) /\ \A i \in DOMAIN rr : rr[i].tool \in Available /\ rr[i].input_from \subseteq KnownIds(rr)
  BY DEF Sound
<1>2. KnownIds(rr) \subseteq KnownIds(ss) /\ Blank \notin KnownIds(rr)
  BY EmbedsNames DEF Known
<1>3. e \in [DOMAIN rr -> DOMAIN ss] /\ \A i \in DOMAIN rr : Faulted(rr[i], ss[e[i]], damaged)
  BY DEF Embeds
<1>4. ASSUME NEW i \in DOMAIN rr PROVE Line(ss[e[i]], g) = <<rr[i]>>
  <2> DEFINE id == rr[i].id
             s == ss[e[i]]
  <2>1. e[i] \in DOMAIN ss /\ s.id = id /\ s \in Step /\ rr[i] \in Step /\ id \in KnownIds(ss) /\ id \in Known(r)
    <3>1. e[i] \in DOMAIN ss /\ s.id = id /\ s \in Step /\ rr[i] \in Step
      BY <1>3, StepDomain DEF Faulted
    <3> QED BY <3>1 DEF KnownIds, Known
  <2>2. /\ <<id, Whole>> \in DOMAIN g <=> <<id, Whole>> \in mask.spans
        /\ \A part : (part # Whole /\ <<id, Whole>> \notin mask.spans) =>
             (<<id, part>> \in DOMAIN g <=> <<id, part>> \in mask.spans)
        /\ <<id, Whole>> \in DOMAIN g => g[<<id, Whole>>] = Steps(<<rr[i]>>)
        /\ <<id, TOOL_FIELD>> \in DOMAIN g => g[<<id, TOOL_FIELD>>] = Value(rr[i].tool)
        /\ <<id, DEPENDENCY_FIELD>> \in DOMAIN g => g[<<id, DEPENDENCY_FIELD>>] = Value(rr[i].input_from)
    <3>1. /\ UniqueIds(r.steps) /\ i \in DOMAIN r.steps /\ r.steps[i].tool \in Available
          /\ r.steps[i].input_from \subseteq KnownIds(b.steps) /\ Blank \notin r.steps[i].input_from
          /\ r.steps[i].id \in KnownIds(b.steps)
      BY <1>1, <1>2, <2>1
    <3>2. BackAt(g, mask.spans, r.steps[i])
      BY <3>1, RecalledIs
    <3> HIDE DEF g, p
    <3> QED BY <3>2 DEF BackAt
  <2>3. /\ s.arguments = rr[i].arguments /\ s.produces = rr[i].produces
        /\ s.tool = rr[i].tool \/ s.tool \notin Available
        /\ s.input_from = rr[i].input_from \/ (s.tool = rr[i].tool /\ id \in damaged)
    BY <1>3 DEF Faulted
  <2> HIDE DEF p, g
  <2>4. CASE <<id, Whole>> \in mask.spans
    <3>1. g[<<id, Whole>>].value = <<rr[i]>> /\ g[<<id, Whole>>] # Dropped
      BY <2>2, <2>4, Kinds
    <3>2. /\ <<s.id, Whole>> \in DOMAIN g /\ g[<<s.id, Whole>>] # Dropped
          /\ g[<<s.id, Whole>>].value = <<rr[i]>>
      BY <2>1, <2>2, <2>4, <3>1
    <3> QED BY <3>2 DEF Line
  <2>5. CASE <<id, Whole>> \notin mask.spans
    <3>1. ASSUME NEW path \in paths, path[1] \in {"tool", "input_from"}, path[2] = id
          PROVE  <<id, path[1]>> \in mask.spans
      <4> HIDE DEF paths, id
      <4> QED BY <2>1, <2>5, <3>1, MaskTakes DEF paths
    <3>2. TextOf(g, s, TOOL_FIELD) = Value(rr[i].tool)
      <4>1. CASE <<id, TOOL_FIELD>> \in DOMAIN g
        <5> HIDE DEF s, id
        <5> QED BY <2>1, <2>2, <4>1 DEF TextOf
      <4>2. CASE <<id, TOOL_FIELD>> \notin DOMAIN g
        <5>1. ASSUME s.tool \notin Available PROVE FALSE
          <6>1. ToolPath(id) \in DetectedPaths(Errors(b))
            <7>1. Names(Errors(b), {s.id}, {ToolPath(s.id)})
              BY <2>1, <5>1, UnknownToolIsReported
            <7> QED BY <2>1, <7>1 DEF Names
          <6>2. ToolPath(id)[1] = "tool" /\ ToolPath(id)[2] = id
            BY DEF ToolPath
          <6>3. ToolPath(id) \in paths
            BY <6>1, <6>2, FieldIsMasked
          <6>4. <<id, TOOL_FIELD>> \notin mask.spans
            BY <2>2, <2>5, <4>2 DEF TOOL_FIELD, Whole
          <6> QED BY <3>1, <6>2, <6>3, <6>4 DEF TOOL_FIELD
        <5>2. s.tool = rr[i].tool
          BY <2>3, <5>1
        <5>3. s[TOOL_FIELD] = s.tool
          BY DEF TOOL_FIELD
        <5> HIDE DEF s, id
        <5> QED BY <2>1, <4>2, <5>2, <5>3 DEF TextOf
      <4> QED BY <4>1, <4>2
    <3>3. TextOf(g, s, DEPENDENCY_FIELD) = Value(rr[i].input_from)
      <4>1. CASE <<id, DEPENDENCY_FIELD>> \in DOMAIN g
        <5> HIDE DEF s, id
        <5> QED BY <2>1, <2>2, <4>1 DEF TextOf
      <4>2. CASE <<id, DEPENDENCY_FIELD>> \notin DOMAIN g
        <5> DEFINE asked == <<id, DEPENDENCY_FIELD>> \in mask.spans
        <5>4. ~asked
          BY <2>2, <2>5, <4>2 DEF DEPENDENCY_FIELD, Whole
        <5>1. ASSUME s.tool = rr[i].tool, id \in damaged PROVE FALSE
          <6>1. id \in mask.masked_step_ids
            BY <2>1, <5>1
          <6>2. PICK path \in paths : path[1] \in {"step", "tool", "input_from"} /\ path[2] = id
            <7> HIDE DEF paths, id
            <7> QED BY <6>1, MaskedBy DEF paths
          <6>3. CASE path[1] = "step"
            <7> HIDE DEF paths
            <7> QED BY <2>1, <2>5, <6>2, <6>3, MaskTakes DEF paths
          <6>4. CASE path[1] = "input_from"
            BY <3>1, <5>4, <6>2, <6>4 DEF DEPENDENCY_FIELD
          <6>5. CASE path[1] = "tool"
            <7>1. PICK x \in Errors(b) : path \in x.paths
              BY <6>2 DEF PathsToMask, DetectedPaths
            <7>2. PICK j \in DOMAIN ss : path = ToolPath(ss[j].id) /\ ss[j].tool \notin Available
              BY <6>5, <7>1, ToolPathsAre
            <7>3. ss[j].id = id
              BY <6>2, <7>2 DEF ToolPath
            <7>4. j = e[i]
              BY <2>1, <7>3 DEF UniqueIds
            <7> QED BY <1>1, <5>1, <7>2, <7>4
          <6> QED BY <6>2, <6>3, <6>4, <6>5
        <5>2. s.input_from = rr[i].input_from
          BY <2>3, <5>1
        <5>3. s[DEPENDENCY_FIELD] = s.input_from
          BY DEF DEPENDENCY_FIELD
        <5> HIDE DEF s, id
        <5> QED BY <2>1, <4>2, <5>2, <5>3 DEF TextOf
      <4> QED BY <4>1, <4>2
    <3>4. Rewritten(s, g) = rr[i]
      <4> DEFINE deps == TextOf(g, s, DEPENDENCY_FIELD)
                 tool == TextOf(g, s, TOOL_FIELD)
                 x == [s EXCEPT !.id = s.id, !.tool = rr[i].tool, !.arguments = s.arguments,
                                !.input_from = rr[i].input_from]
                 D == {"id", "tool", "arguments", "input_from", "produces"}
      <4>1. Rewritten(s, g) = x
        <5>1. \A text, field, old : text.kind = "value" => Named(text, field, old) = old
          BY DEF Named
        <5>2. deps.kind = "value" /\ tool.kind = "value" /\ deps.value = rr[i].input_from /\ tool.value = rr[i].tool
          BY <3>2, <3>3, Kinds
        <5> HIDE DEF s, deps, tool
        <5>3. Rewritten(s, g) = [s EXCEPT !.id = Named(deps, "id", Named(tool, "id", @)),
                                          !.tool = Named(deps, TOOL_FIELD, tool.value),
                                          !.arguments = Named(deps, "arguments", @),
                                          !.input_from = deps.value]
          BY DEF Rewritten, deps, tool
        <5> HIDE DEF rr
        <5>4. PICK rid : rid = s.id
          OBVIOUS
        <5>5. PICK ar : ar = s.arguments
          OBVIOUS
        <5>6. /\ Named(deps, "id", Named(tool, "id", s.id)) = s.id
              /\ Named(deps, TOOL_FIELD, tool.value) = rr[i].tool /\ Named(deps, "arguments", s.arguments) = s.arguments
          BY <5>1, <5>2
        <5> QED BY <5>2, <5>3, <5>6
      <4>2. /\ DOMAIN x = D /\ x.id = s.id /\ x.tool = rr[i].tool /\ x.arguments = s.arguments
            /\ x.input_from = rr[i].input_from /\ x.produces = s.produces
        <5> HIDE DEF s, rr
        <5> QED BY <2>1 DEF Step
      <4>3. x = [y \in D |-> x[y]]
        <5> HIDE DEF s, rr
        <5> QED BY <2>1 DEF Step
      <4>4. rr[i] = [y \in D |-> rr[i][y]]
        BY <2>1 DEF Step
      <4>5. \A y \in D : x[y] = rr[i][y]
        <5> HIDE DEF x
        <5> QED BY <2>1, <2>3, <4>2
      <4> HIDE DEF x, D, s
      <4> QED BY <4>1, <4>3, <4>4, <4>5 DEF x
    <3>5. <<s.id, Whole>> \notin DOMAIN g
      BY <2>1, <2>2, <2>5
    <3> QED BY <3>4, <3>5 DEF Line
  <2> QED BY <2>4, <2>5
<1>5. ASSUME NEW k \in DOMAIN ss, \A i \in DOMAIN rr : e[i] # k
      PROVE  Line(ss[k], g) = <<>>
  <2>1. PICK i \in DOMAIN rr : ss[e[i]] = rr[i] /\ Body(ss[k]) = Body(rr[i]) /\ ss[k].id \notin KnownIds(rr)
    BY <1>5 DEF Embeds
  <2>2. StepPath(ss[k].id) \in paths
    <3>1. PICK m \in DOMAIN b.steps : k # m /\ Body(b.steps[k]) = Body(b.steps[m])
      BY <1>3, <1>5, <2>1
    <3> QED BY <3>1, CopyIsMasked
  <2>3. StepPath(ss[k].id)[1] = "step" /\ StepPath(ss[k].id)[2] = ss[k].id /\ ss[k].id \in KnownIds(ss)
    BY DEF StepPath, KnownIds
  <2> DEFINE key == <<ss[k].id, Whole>>
  <2>4. key \in mask.spans
    <3>1. \/ <<StepPath(ss[k].id)[2], Whole>> \in mask.spans
          \/ StepPath(ss[k].id)[1] # "step"
      BY <2>2, <2>3, MaskTakes
    <3> QED BY <2>3, <3>1
  <2>5. key[1] \notin Known(r) /\ key[2] = Whole /\ Key(key) = ss[k].id
    BY <2>1 DEF Known, Key
  <2>6. Key(key) \in DOMAIN f /\ f[Key(key)] = Dropped
    <3> HIDE DEF key
    <3> QED BY <2>4, <2>5 DEF Recalled, Keys
  <2>7. key \in DOMAIN p /\ p[key] = Dropped
    <3>1. ss[k].id \in KnownIds(ss) \cap DOMAIN f
      BY <2>3, <2>5, <2>6
    <3> HIDE DEF ss
    <3>2. key \in DOMAIN p
      BY <3>1, PlacedIs
    <3> HIDE DEF key
    <3> QED BY <2>6, <3>2, PlacedIs
  <2>8. key \in DOMAIN g /\ g[key] = Dropped
    <3>1. Written(f)
      BY RecalledFits
    <3>2. /\ DOMAIN g = DOMAIN p
          /\ \A place \in DOMAIN p : g[place] = p[place] \/ (p[place].kind = "value" /\ g[place].kind = "value")
      BY <3>1, SnapKeepsPlaces
    <3> HIDE DEF p, g, key
    <3> QED BY <2>7, <3>2, Kinds
  <2> HIDE DEF g
  <2> QED BY <2>8 DEF Line, key
<1> HIDE DEF g
<1>6. \A i, j \in DOMAIN rr : i < j => e[i] < e[j]
  BY DEF Embeds
<1>7. Spared(e, rr, [k \in DOMAIN ss |-> Line(ss[k], g)])
  BY <1>3, <1>4, <1>5, <1>6 DEF Spared
<1> QED BY <1>7 DEF g

\* Lines of one step or none, put together, are those steps.
LEMMA SparedStands ==
  ASSUME NEW S, NEW rr \in Seq(S), NEW m \in Nat, NEW line, DOMAIN line = 1 .. m,
         NEW e, Spared(e, rr, line), NEW flat, IsList(flat), Stand(flat, line)
  PROVE  flat = rr
<1> USE DEF Spared
<1> DEFINE n == Len(rr)
           N == Len(flat)
<1>1. n \in Nat /\ DOMAIN rr = 1 .. n /\ rr = [i \in 1 .. n |-> rr[i]]
  OBVIOUS
<1>2. N \in Nat /\ flat = [i \in 1 .. N |-> flat[i]]
  BY DEF IsList
<1>3. PICK start \in [1 .. m -> Nat] :
        /\ \A k \in 1 .. m : \A x \in 1 .. Len(line[k]) :
             start[k] + x \in 1 .. N /\ flat[start[k] + x] = line[k][x]
        /\ \A k, l \in 1 .. m : k < l => start[k] + Len(line[k]) <= start[l]
        /\ \A y \in 1 .. N : \E k \in 1 .. m : y - start[k] \in 1 .. Len(line[k])
  BY DEF Stand
<1> HIDE DEF n, N
<1> DEFINE f == [i \in 1 .. n |-> start[e[i]] + 1]
<1>4. ASSUME NEW i \in 1 .. n
      PROVE  e[i] \in 1 .. m /\ start[e[i]] \in Nat /\ Len(line[e[i]]) = 1 /\ line[e[i]][1] = rr[i]
  <2>1. e[i] \in 1 .. m /\ line[e[i]] = <<rr[i]>>
    BY <1>1, <1>4
  <2> QED BY <2>1
<1>5. ASSUME NEW i \in 1 .. n PROVE f[i] \in 1 .. N /\ flat[f[i]] = rr[i]
  <2>1. 1 \in 1 .. Len(line[e[i]])
    BY <1>4
  <2>2. start[e[i]] + 1 \in 1 .. N /\ flat[start[e[i]] + 1] = line[e[i]][1]
    BY <1>3, <1>4, <2>1
  <2> QED BY <1>4, <2>2
<1>6. ASSUME NEW i \in 1 .. n, NEW j \in 1 .. n, i < j PROVE f[i] < f[j]
  <2>1. e[i] < e[j]
    BY <1>1, <1>6
  <2>2. start[e[i]] + 1 <= start[e[j]]
    BY <1>3, <1>4, <2>1
  <2> QED BY <1>4, <2>2
<1>7. ASSUME NEW y \in 1 .. N PROVE \E i \in 1 .. n : f[i] = y
  <2>1. PICK k \in 1 .. m : y - start[k] \in 1 .. Len(line[k])
    BY <1>3
  <2>2. CASE \A i \in DOMAIN rr : e[i] # k
    <3>1. Len(line[k]) = 0
      BY <2>2
    <3> QED BY <2>1, <3>1
  <2>3. CASE \E i \in DOMAIN rr : e[i] = k
    <3>1. PICK i \in 1 .. n : e[i] = k
      BY <1>1, <2>3
    <3>2. start[k] \in Nat /\ Len(line[k]) = 1
      BY <1>4, <3>1
    <3>3. y = start[k] + 1
      <4> HIDE DEF f
      <4> QED BY <1>2, <2>1, <3>2
    <3> QED BY <3>1, <3>3
  <2> QED BY <2>2, <2>3
<1>8. f \in [1 .. n -> 1 .. N]
  BY <1>5
<1> HIDE DEF f
<1>9. N = n /\ \A i \in 1 .. n : f[i] = i
  <2>1. OrderedOnto(f, n, N)
    BY <1>6, <1>7, <1>8 DEF OrderedOnto
  <2> QED BY <1>1, <1>2, <2>1, IncreasingOnto
<1>10. \A i \in 1 .. n : flat[i] = rr[i]
  BY <1>5, <1>9
<1>11. flat = [i \in 1 .. n |-> flat[i]]
  BY <1>2, <1>9, Zenon
<1> QED BY <1>1, <1>10, <1>11

\* The mask covers whatever b has lost of the plan r.
Covers(mask, r, b, damaged, taken) ==
  /\ r \in AgentPlan /\ Sound(r.steps) /\ Blank \notin Known(r)
  /\ b \in AgentPlan /\ UniqueIds(b.steps) /\ b.stop_condition = r.stop_condition
  /\ \E e : Embeds(e, r.steps, b.steps, damaged, taken)
  /\ mask = MaskSpec(b.steps, PathsToMask(Errors(b), b.steps))
  /\ damaged \cap Known(r) \subseteq mask.masked_step_ids
  /\ Distinct(b.steps, mask.spans)

LEMMA RecalledComesBack ==
  ASSUME NEW mask, NEW r, NEW b, NEW damaged, NEW taken, Covers(mask, r, b, damaged, taken),
         NEW f, Recalled(f, r, mask.spans), NEW tools, NEW dependencies
  PROVE  Rebuilt(b.steps, Placed(b.steps, Snapped(f, b.steps, mask.spans, tools, dependencies), mask.spans)) = r.steps
<1> DEFINE rr == r.steps
           ss == b.steps
           g == Placed(ss, Snapped(f, ss, mask.spans, tools, dependencies), mask.spans)
           line == [k \in DOMAIN ss |-> Line(ss[k], g)]
<1>1. /\ r \in AgentPlan /\ Sound(r.steps) /\ Blank \notin Known(r)
      /\ b \in AgentPlan /\ UniqueIds(b.steps) /\ b.stop_condition = r.stop_condition
      /\ mask = MaskSpec(b.steps, PathsToMask(Errors(b), b.steps))
      /\ damaged \cap Known(r) \subseteq mask.masked_step_ids
      /\ Distinct(ss, mask.spans)
  BY DEF Covers
<1>2. PICK e : Embeds(e, r.steps, b.steps, damaged, taken)
  BY DEF Covers
<1>3. Spared(e, rr, line)
  BY <1>1, <1>2, RecalledLines
<1>4. Written(g) /\ Fitted(g)
  <2>1. Written(f) /\ \A place \in DOMAIN g : Fits(place, g[place])
    BY <1>1, RecalledFits
  <2> QED BY <2>1, SnapKeepsPlaces DEF Fitted
<1>5. rr \in Seq(Step) /\ ss \in Seq(Step) /\ Len(ss) \in Nat /\ DOMAIN ss = 1 .. Len(ss)
  BY <1>1, StepDomain
<1> HIDE DEF rr, ss, g
<1>6. IsList(Rebuilt(ss, g)) /\ Stand(Rebuilt(ss, g), line)
  BY <1>4, <1>5, LinesStand
<1>7. DOMAIN line = 1 .. Len(ss)
  BY <1>5
<1> HIDE DEF line
<1>8. Rebuilt(ss, g) = rr
  BY <1>3, <1>5, <1>6, <1>7, SparedStands
<1> QED BY <1>8 DEF rr, ss, g

(***************************************************************************)
(* Along the corruptions: each one touches steps none touched before it.   *)
(***************************************************************************)
Restorable(r, b, damaged, taken) ==
  UniqueIds(b.steps) =>
    b.stop_condition = r.stop_condition /\ \E e : Embeds(e, r.steps, b.steps, damaged, taken)

LEMMA RewriteRestorable ==
  ASSUME NEW r, UniqueIds(r.steps), NEW p \in AgentPlan, NEW damaged, NEW taken,
         Restorable(r, p, damaged, taken), NEW id \in Known(r), id \notin taken,
         NEW q, q.stop_condition = p.stop_condition,
         NEW s, Rewrites(p.steps, q.steps, id, s), Faulted(p.steps[FirstAt(p.steps, id)], s, {id})
  PROVE  Restorable(r, q, damaged \cup {id}, taken \cup {id})
<1> SUFFICES ASSUME UniqueIds(q.steps)
             PROVE  /\ q.stop_condition = r.stop_condition
                    /\ \E e : Embeds(e, r.steps, q.steps, damaged \cup {id}, taken \cup {id})
  BY DEF Restorable
<1>1. UniqueIds(p.steps)
  BY RewriteUnique
<1>2. PICK e : Embeds(e, r.steps, p.steps, damaged, taken)
  BY <1>1 DEF Restorable
<1>3. Faulted(p.steps[FirstAt(p.steps, id)], s, damaged \cup {id})
  BY DEF Faulted
<1>4. id \in KnownIds(r.steps)
  BY DEF Known
<1>5. Embeds(e, r.steps, q.steps, damaged \cup {id}, taken \cup {id})
  BY <1>2, <1>3, <1>4, RewriteEmbeds
<1> QED BY <1>1, <1>5 DEF Restorable

LEMMA CopyRestorable ==
  ASSUME NEW r, UniqueIds(r.steps), NEW p \in AgentPlan, NEW damaged, NEW taken,
         Restorable(r, p, damaged, taken), NEW id \in Known(r), id \notin taken, id \in Known(p),
         NEW new_id \in StepId, new_id = id \/ new_id \notin Known(p)
  PROVE  Restorable(r, Duplicate(p, id, new_id).broken, damaged \cup {new_id}, taken \cup {id})
<1> DEFINE q == Duplicate(p, id, new_id).broken
<1> SUFFICES ASSUME UniqueIds(q.steps)
             PROVE  /\ q.stop_condition = r.stop_condition
                    /\ \E e : Embeds(e, r.steps, q.steps, damaged \cup {new_id}, taken \cup {id})
  BY DEF Restorable
<1>1. UniqueIds(p.steps) /\ new_id # id
  BY CopyUnique
<1>2. PICK e : Embeds(e, r.steps, p.steps, damaged, taken)
  BY <1>1 DEF Restorable
<1>3. KnownIds(r.steps) \subseteq Known(p)
  BY <1>2, EmbedsNames DEF Known
<1>4. \E e1 : Embeds(e1, r.steps, q.steps, damaged \cup {new_id}, taken \cup {id})
  BY <1>1, <1>2, <1>3, CopyEmbeds DEF Known
<1>5. q.stop_condition = p.stop_condition
  BY DEF Duplicate, Result, WithSteps, AgentPlan
<1> HIDE DEF q
<1> QED BY <1>1, <1>4, <1>5 DEF Restorable

LEMMA RestorableMore ==
  ASSUME NEW r, NEW b, NEW damaged, NEW taken, Restorable(r, b, damaged, taken),
         NEW T, taken \subseteq T
  PROVE  Restorable(r, b, damaged, T)
  BY EmbedsMore DEF Restorable

LEMMA CorruptionRestorable ==
  ASSUME NEW r, UniqueIds(r.steps), NEW p \in AgentPlan, NEW damaged, NEW taken,
         Restorable(r, p, damaged, taken), NEW c, ByOneCall(p, c),
         c.result.injected.corruption_type \in Reachable,
         c.touched \subseteq Known(r), c.touched \cap taken = {}
  PROVE  Restorable(r, c.result.broken, damaged \cup c.result.injected.damaged_step_ids, taken \cup c.touched)
<1> DEFINE D == damaged \cup c.result.injected.damaged_step_ids
           T == taken \cup c.touched
<1>1. ASSUME NEW id \in c.touched \cap Known(p), NEW deps \in SUBSET StepId,
             c.result = Result([p EXCEPT !.steps[FirstAt(p.steps, id)].input_from = deps],
                               Injected(BROKEN_DEPENDENCY, {id}, {InputFromPath(id)}))
      PROVE  Restorable(r, c.result.broken, D, T)
  <2> DEFINE k == FirstAt(p.steps, id)
             q == [p EXCEPT !.steps[k].input_from = deps]
             s == [p.steps[k] EXCEPT !.input_from = deps]
  <2>1. q.stop_condition = p.stop_condition /\ Rewrites(p.steps, q.steps, id, s)
    BY <1>1, InputRewritten
  <2>2. p.steps[k] \in Step /\ p.steps[k].id = id
    BY <1>1, KnownAt, StepDomain
  <2>3. Faulted(p.steps[k], s, {id})
    BY <2>2 DEF Faulted, Step
  <2>4. c.result.broken = q /\ D = damaged \cup {id}
    BY <1>1 DEF Result, Injected
  <2> HIDE DEF q, s, D
  <2>5. Restorable(r, q, damaged \cup {id}, taken \cup {id})
    BY <1>1, <2>1, <2>3, RewriteRestorable DEF k
  <2> QED BY <1>1, <2>4, <2>5, RestorableMore
<1>2. ASSUME NEW id \in c.touched \cap Known(p), NEW t \in Tool \ Available, c.result = SetTool(p, id, t)
      PROVE  Restorable(r, c.result.broken, D, T)
  <2> DEFINE k == FirstAt(p.steps, id)
             q == [p EXCEPT !.steps[k].tool = t]
             s == [p.steps[k] EXCEPT !.tool = t]
  <2>1. q.stop_condition = p.stop_condition /\ Rewrites(p.steps, q.steps, id, s)
    BY <1>2, ToolRewritten
  <2>2. p.steps[k] \in Step /\ p.steps[k].id = id
    BY <1>2, KnownAt, StepDomain
  <2>3. Faulted(p.steps[k], s, {id})
    BY <1>2, <2>2 DEF Faulted, Step
  <2>4. c.result.broken = q /\ D = damaged \cup {id}
    BY <1>2 DEF SetTool, Result, Injected
  <2> HIDE DEF q, s, D
  <2>5. Restorable(r, q, damaged \cup {id}, taken \cup {id})
    BY <1>2, <2>1, <2>3, RewriteRestorable DEF k
  <2> QED BY <1>2, <2>4, <2>5, RestorableMore
<1>3. ASSUME NEW id \in c.touched \cap Known(p), NEW new_id \in {id} \cup FreeIds(p, CopyNames[id]),
             c.result = Duplicate(p, id, new_id)
      PROVE  Restorable(r, c.result.broken, D, T)
  <2>1. id \in StepId
    BY <1>3, NamesAreNames
  <2>2. new_id \in StepId /\ (new_id = id \/ new_id \notin Known(p))
    BY <1>3, <2>1, FreeNames, InjectorAssumption
  <2>3. Restorable(r, Duplicate(p, id, new_id).broken, damaged \cup {new_id}, taken \cup {id})
    BY <1>3, <2>2, CopyRestorable
  <2>4. D = damaged \cup {new_id}
    BY <1>3 DEF Duplicate, Result, Injected
  <2> HIDE DEF D
  <2> QED BY <1>3, <2>3, <2>4, RestorableMore
<1> HIDE DEF D, T
<1>4. Restorable(r, c.result.broken, D, T)
  BY <1>1, <1>2, <1>3, ReachableCases
<1> QED BY <1>4 DEF D, T

(***************************************************************************)
(* The invariant behind the oracle: what was done to the reference, by what *)
(* it was masked, and what the oracle answered.                            *)
(***************************************************************************)
RestoreInv ==
  /\ Len(injected) = 0 => broken = reference /\ claimed = {}
  /\ Len(injected) = 1 =>
       \E c : ByOneCall(reference, c) /\ broken = c.result.broken /\ injected[1] = c.result.injected
  /\ Types \subseteq Reachable => Restorable(reference, broken, Damaged, claimed)
  /\ stage # "inject" => spec = MaskSpec(broken.steps, PathsToMask(Errors(broken), broken.steps))
  /\ stage \in {"inject", "align", "fill"} => backend = "none"
  /\ (backend = "oracle" /\ KeysApart) => Recalled(filling, reference, spec.spans)
  /\ (Returned /\ backend = "oracle" /\ KeysApart) => failures = {}

RestoreHolds == SnapHolds /\ RestoreInv

LEMMA ApartIsDistinct ==
  ASSUME AnswerInv, stage # "inject", KeysApart
  PROVE  Distinct(broken.steps, spec.spans)
<1>1. \A step \in Step : step.id \in StepId
  BY DEF Step
<1>2. \A k \in DOMAIN broken.steps : broken.steps[k] \in Step
  BY StepDomain DEF AnswerInv
<1>3. KnownIds(broken.steps) \subseteq StepId
  BY <1>1, <1>2 DEF KnownIds
<1> QED BY <1>3 DEF AnswerInv, KeysApart, Distinct, Known

LEMMA AimedTouches ==
  ASSUME NEW p, NEW c \in AimedCorruptions(p)
  PROVE  c.touched \subseteq Known(p)
  BY DEF AimedCorruptions, Touching

LEMMA RestoreInit ==
  ASSUME NEW p \in AgentPlan, Valid(p), Measure(p)
  PROVE  RestoreHolds
<1>1. SnapHolds
  <2>1. ResultHolds
    BY ResultInit
  <2>2. SnapInv
    BY DEF SnapInv, Returned, Measure
  <2> QED BY <2>1, <2>2 DEF SnapHolds
<1>2. Restorable(reference, broken, Damaged, claimed)
  <2> DEFINE e == [i \in DOMAIN p.steps |-> i]
  <2>1. DOMAIN p.steps \subseteq Int
    BY StepDomain
  <2>2. Embeds(e, p.steps, p.steps, Damaged, claimed)
    BY <2>1 DEF Embeds, Faulted
  <2> HIDE DEF e
  <2> QED BY <2>2 DEF Restorable, Measure, Intact
<1>3. RestoreInv
  BY <1>2 DEF RestoreInv, Measure, Intact, Returned
<1> QED BY <1>1, <1>3 DEF RestoreHolds

LEMMA CorruptRestores ==
  ASSUME RestoreHolds, Corrupt
  PROVE  RestoreInv'
<1>1. GroundInv /\ RestoreInv /\ UniqueIds(reference.steps) /\ broken \in AgentPlan
  BY DEF RestoreHolds, SnapHolds, ResultHolds, AnswerHolds, GroundInv, Sound
<1>2. PICK c \in Corruptions(broken) \cup AimedCorruptions(broken) :
        Apply(c) /\ c.touched \subseteq Known(reference) /\ c.touched \cap claimed = {}
  <2>1. CASE Inject
    BY <2>1 DEF Inject
  <2>2. CASE InjectAlone
    <3>1. PICK c \in AimedCorruptions(broken) : Apply(c)
      BY <2>2 DEF InjectAlone
    <3>2. broken = reference /\ claimed = {}
      BY <1>1, <2>2 DEF InjectAlone, RestoreInv
    <3> QED BY <3>1, <3>2, AimedTouches
  <2> QED BY <2>1, <2>2 DEF Corrupt
<1>3. ByOneCall(broken, c)
  BY CorruptionCases
<1>4. /\ broken' = c.result.broken /\ injected' = Append(injected, c.result.injected)
      /\ claimed' = claimed \cup c.touched /\ reference' = reference
  BY <1>2 DEF Apply
<1>5. PICK S : injected \in Seq(S)
  BY <1>1 DEF GroundInv, IsList
<1>6. /\ Len(injected') = Len(injected) + 1 /\ Len(injected) \in Nat
      /\ Damaged' = Damaged \cup c.result.injected.damaged_step_ids
      /\ Types' = Types \cup {c.result.injected.corruption_type}
  <2> DEFINE e == c.result.injected
  <2>1. injected' = Append(injected, e)
    BY <1>4
  <2> HIDE DEF e
  <2>2. /\ Len(injected') = Len(injected) + 1 /\ Damaged' = Damaged \cup e.damaged_step_ids
        /\ Types' = Types \cup {e.corruption_type}
    BY <1>5, <2>1, DamageAdds
  <2>3. Len(injected) \in Nat
    BY <1>5
  <2> QED BY <2>2, <2>3 DEF e
<1>7. Types' \subseteq Reachable => Restorable(reference, broken, Damaged, claimed)'
  <2> SUFFICES ASSUME Types' \subseteq Reachable PROVE Restorable(reference', broken', Damaged', claimed')
    BY DEF Restorable
  <2>1. Restorable(reference, broken, Damaged, claimed) /\ c.result.injected.corruption_type \in Reachable
    BY <1>1, <1>6 DEF RestoreInv
  <2>2. Restorable(reference, c.result.broken, Damaged \cup c.result.injected.damaged_step_ids,
                   claimed \cup c.touched)
    BY <1>1, <1>2, <1>3, <2>1, CorruptionRestorable
  <2> QED BY <1>4, <1>6, <2>2
<1>8. Len(injected') = 1 =>
        \E d : ByOneCall(reference', d) /\ broken' = d.result.broken /\ injected'[1] = d.result.injected
  <2> SUFFICES ASSUME Len(injected') = 1
               PROVE  ByOneCall(reference', c) /\ broken' = c.result.broken /\ injected'[1] = c.result.injected
    OBVIOUS
  <2>1. Len(injected) = 0
    BY <1>6
  <2>2. broken = reference /\ injected = <<>>
    BY <1>1, <1>5, <2>1 DEF RestoreInv
  <2> QED BY <1>3, <1>4, <2>2
<1>9. Len(injected') # 0
  BY <1>6
<1>10. /\ stage = "inject" /\ stage' = stage /\ spec' = spec /\ backend' = backend /\ filling' = filling
       /\ failures' = failures
  BY DEF Corrupt
<1> QED BY <1>1, <1>7, <1>8, <1>9, <1>10 DEF RestoreInv, Returned

LEMMA RestoreInductive == RestoreHolds /\ [DiffusionNext]_diffusionVars => RestoreHolds'
<1> SUFFICES ASSUME RestoreHolds, [DiffusionNext]_diffusionVars PROVE RestoreInv'
  BY SnapInductive DEF RestoreHolds
<1>1. RestoreInv
  BY DEF RestoreHolds
<1>2. ASSUME UNCHANGED injectionVars
      PROVE  /\ Len(injected') = 0 => broken' = reference' /\ claimed' = {}
             /\ Len(injected') = 1 =>
                  \E c : /\ ByOneCall(reference', c) /\ broken' = c.result.broken
                         /\ injected'[1] = c.result.injected
             /\ Types' \subseteq Reachable => Restorable(reference', broken', Damaged', claimed')
             /\ PathsToMask(Errors(broken'), broken'.steps) = PathsToMask(Errors(broken), broken.steps)
             /\ broken' = broken /\ reference' = reference
  <2>1. Types' = Types /\ Damaged' = Damaged
    BY <1>2 DEF Types, Damaged, injectionVars
  <2> QED BY <1>1, <1>2, <2>1 DEF RestoreInv, injectionVars
<1>3. ASSUME UNCHANGED <<injectionVars, spec, backend, filling, failures>>,
             stage' = stage \/ (Returned /\ stage' = "scored")
      PROVE  RestoreInv'
  <2>1. KeysApart' = KeysApart
    BY <1>3 DEF KeysApart, injectionVars
  <2>2. Recalled(filling, reference, spec.spans)' = Recalled(filling, reference, spec.spans)
    BY <1>3 DEF Recalled, injectionVars
  <2> QED BY <1>1, <1>2, <1>3, <2>1, <2>2 DEF RestoreInv, Returned
<1>4. CASE UNCHANGED diffusionVars
  BY <1>3, <1>4 DEF diffusionVars, Returned
<1>5. CASE Corrupt
  BY <1>5, CorruptRestores
<1>6. CASE Mask
  BY <1>1, <1>2, <1>6 DEF Mask, RestoreInv, Returned
<1>7. CASE Align \/ BackendFails
  <2>1. backend = "none" /\ UNCHANGED <<injectionVars, spec, backend, filling>> /\ stage # "inject"
    BY <1>1, <1>7 DEF Align, BackendFails, RestoreInv
  <2> QED BY <1>1, <1>2, <2>1 DEF RestoreInv
<1>8. CASE Fill
  <2>1. stage = "fill" /\ KeysApart' = KeysApart /\ reference' = reference /\ spec' = spec
    BY <1>8 DEF Fill, KeysApart, injectionVars
  <2>2. (backend' = "oracle" /\ KeysApart) => Recalled(filling', reference, spec.spans)
    <3> SUFFICES ASSUME backend' = "oracle", KeysApart PROVE Recalled(filling', reference, spec.spans)
      OBVIOUS
    <3>1. OracleFills
      BY <1>8 DEF Fill
    <3>2. AnswerInv /\ broken \in AgentPlan
      BY DEF RestoreHolds, SnapHolds, ResultHolds, AnswerHolds, AnswerInv
    <3>3. Distinct(broken.steps, spec.spans)
      BY <2>1, <3>2, ApartIsDistinct
    <3> QED BY <3>1, <3>2, <3>3, OracleRecalls
  <2>3. ((backend = "oracle" /\ KeysApart) => Recalled(filling, reference, spec.spans))'
    BY <2>1, <2>2 DEF Recalled
  <2>4. stage' = "put_back" /\ ~Returned'
    BY <1>8 DEF Fill, Returned
  <2> QED BY <1>1, <1>2, <1>8, <2>1, <2>3, <2>4 DEF Fill, RestoreInv
<1>9. CASE PutBack
  <2>1. UNCHANGED <<injectionVars, spec, backend, filling>> /\ stage = "put_back"
    BY <1>9 DEF PutBack
  <2>2. (backend = "oracle" /\ KeysApart) => failures' = {}
    <3> SUFFICES ASSUME backend = "oracle", KeysApart PROVE failures' = {}
      OBVIOUS
    <3>1. Recalled(filling, reference, spec.spans)
      BY <1>1 DEF RestoreInv
    <3>2. Distinct(broken.steps, spec.spans)
      BY <2>1, ApartIsDistinct DEF RestoreHolds, SnapHolds, ResultHolds, AnswerHolds
    <3>3. DOMAIN filling \subseteq Keys(spec.spans)
      BY <3>1, <3>2, RecalledFits
    <3>4. Parses(broken.steps, PutBackFilling)
      BY <3>1, <3>2, RecalledParses DEF PutBackFilling
    <3>5. failures = {}
      BY <2>1 DEF RestoreHolds, SnapHolds, ResultHolds, ResultInv
    <3> QED BY <1>9, <3>3, <3>4, <3>5 DEF PutBack, Return
  <2>3. stage' = "returned"
    BY <1>9 DEF PutBack, GiveUp, Return
  <2>4. KeysApart' = KeysApart /\ Recalled(filling, reference, spec.spans)' = Recalled(filling, reference, spec.spans)
    BY <2>1 DEF KeysApart, Recalled, injectionVars
  <2> QED BY <1>1, <1>2, <2>1, <2>2, <2>3, <2>4 DEF RestoreInv
<1>10. CASE TakeScore
  BY <1>3, <1>10 DEF TakeScore, Returned
<1> QED BY <1>4, <1>5, <1>6, <1>7, <1>8, <1>9, <1>10 DEF DiffusionNext

LEMMA RestoresHold == DiffusionSpec => []RestoreHolds
<1> DEFINE Start == \E p \in AgentPlan : Valid(p) /\ Runs(p) /\ Measure(p)
<1>1. Start => RestoreHolds
  BY RestoreInit
<1> HIDE DEF Start
<1> QED BY <1>1, RestoreInductive, PTL DEF DiffusionSpec, Start

LEMMA RewriteNames ==
  ASSUME NEW ss, NEW tt, NEW id, NEW s, Rewrites(ss, tt, id, s)
  PROVE  KnownIds(tt) = KnownIds(ss)
<1>1. DOMAIN tt = DOMAIN ss /\ \A k \in DOMAIN ss : tt[k].id = ss[k].id
  BY DEF Rewrites
<1> QED BY <1>1 DEF KnownIds

\* After one corruption everything it damaged in the reference is masked.
LEMMA SingleIsMasked ==
  ASSUME NEW r \in AgentPlan, Sound(r.steps), NEW c, ByOneCall(r, c),
         c.result.injected.corruption_type \in Reachable, UniqueIds(c.result.broken.steps),
         NEW id \in c.result.injected.damaged_step_ids \cap Known(r)
  PROVE  LET b == c.result.broken
         IN  id \in MaskSpec(b.steps, PathsToMask(Errors(b), b.steps)).masked_step_ids
<1> DEFINE b == c.result.broken
           paths == PathsToMask(Errors(b), b.steps)
<1>1. Names(Errors(b), c.result.injected.damaged_step_ids, c.result.injected.damaged_paths)
  BY CorruptionIsReported
<1>2. ASSUME NEW path \in c.result.injected.damaged_paths, path[1] \in {"tool", "input_from"}, path[2] = id,
             id \in Known(b)
      PROVE  id \in MaskSpec(b.steps, paths).masked_step_ids
  <2>1. path \in paths
    BY <1>1, <1>2, FieldIsMasked DEF Names
  <2> HIDE DEF b, paths
  <2> QED BY <1>2, <2>1 DEF MaskSpec, StepPaths, TOOL_FIELD, DEPENDENCY_FIELD, Known
<1>3. ASSUME NEW x \in c.touched \cap Known(r), NEW deps \in SUBSET StepId,
             c.result = Result([r EXCEPT !.steps[FirstAt(r.steps, x)].input_from = deps],
                               Injected(BROKEN_DEPENDENCY, {x}, {InputFromPath(x)}))
      PROVE  id \in MaskSpec(b.steps, paths).masked_step_ids
  <2>1. b = [r EXCEPT !.steps[FirstAt(r.steps, x)].input_from = deps] /\ id = x
        /\ InputFromPath(id) \in c.result.injected.damaged_paths
    BY <1>3 DEF Result, Injected
  <2>2. Known(b) = Known(r)
    <3>1. Rewrites(r.steps, b.steps, x, [r.steps[FirstAt(r.steps, x)] EXCEPT !.input_from = deps])
      BY <1>3, <2>1, InputRewritten
    <3> QED BY <3>1, RewriteNames DEF Known
  <2>3. InputFromPath(id)[1] = "input_from" /\ InputFromPath(id)[2] = id
    BY DEF InputFromPath
  <2> HIDE DEF b, paths
  <2> QED BY <1>2, <2>1, <2>2, <2>3
<1>4. ASSUME NEW x \in c.touched \cap Known(r), NEW t \in Tool \ Available, c.result = SetTool(r, x, t)
      PROVE  id \in MaskSpec(b.steps, paths).masked_step_ids
  <2>1. b = [r EXCEPT !.steps[FirstAt(r.steps, x)].tool = t] /\ id = x
        /\ ToolPath(id) \in c.result.injected.damaged_paths
    BY <1>4 DEF SetTool, Result, Injected
  <2>2. Known(b) = Known(r)
    <3>1. Rewrites(r.steps, b.steps, x, [r.steps[FirstAt(r.steps, x)] EXCEPT !.tool = t])
      BY <1>4, <2>1, ToolRewritten
    <3> QED BY <3>1, RewriteNames DEF Known
  <2>3. ToolPath(id)[1] = "tool" /\ ToolPath(id)[2] = id
    BY DEF ToolPath
  <2> HIDE DEF b, paths
  <2> QED BY <1>2, <2>1, <2>2, <2>3
<1>5. ASSUME NEW x \in c.touched \cap Known(r), NEW new_id \in {x} \cup FreeIds(r, CopyNames[x]),
             c.result = Duplicate(r, x, new_id)
      PROVE  FALSE
  <2>1. x \in StepId
    BY <1>5, NamesAreNames
  <2>2. new_id \in StepId /\ (new_id = x \/ new_id \notin Known(r))
    BY <1>5, <2>1, FreeNames, InjectorAssumption
  <2>3. new_id # x
    BY <1>5, <2>2, CopyUnique
  <2>4. id = new_id
    BY <1>5 DEF Duplicate, Result, Injected
  <2> QED BY <2>2, <2>3, <2>4
<1> HIDE DEF b, paths
<1>6. id \in MaskSpec(b.steps, paths).masked_step_ids
  BY <1>3, <1>4, <1>5, ReachableCases
<1> QED BY <1>6 DEF b, paths

\* "If masking is correct this restores exactly the damaged steps" (diffusion_mock.py):
\* of one fault a mask can reach, and of any number of them with every damaged step
\* masked, in a plan of any size and whichever completions are on, what comes back is
\* the reference, where no masked field is answered under the name of a step.
THEOREM OracleBringsBack == DiffusionSpec => []OracleRestores
<1>1. RestoreHolds => OracleRestores
  <2> SUFFICES ASSUME RestoreHolds, Returned, backend = "oracle", UniqueIds(broken.steps), KeysApart,
                      Blank \notin Known(reference), Types \subseteq {BROKEN_DEPENDENCY, WRONG_TOOL, DUPLICATE_STEP},
                      Single \/ Damaged \subseteq spec.masked_step_ids
               PROVE  plan = reference
    BY DEF OracleRestores
  <2>1. /\ reference \in AgentPlan /\ Sound(reference.steps) /\ broken \in AgentPlan
        /\ RestoreInv /\ SnapInv /\ IsList(injected)
    BY DEF RestoreHolds, SnapHolds, ResultHolds, AnswerHolds, GroundInv
  <2>2. spec = MaskSpec(broken.steps, PathsToMask(Errors(broken), broken.steps))
    BY <2>1 DEF RestoreInv, Returned
  <2>3. Distinct(broken.steps, spec.spans) /\ Recalled(filling, reference, spec.spans) /\ failures = {}
    <3>1. AnswerInv
      BY DEF RestoreHolds, SnapHolds, ResultHolds, AnswerHolds
    <3>2. Distinct(broken.steps, spec.spans)
      BY <3>1, ApartIsDistinct DEF Returned
    <3> QED BY <2>1, <3>2 DEF RestoreInv
  <2>12. plan = Repaired
    <3>1. Contained
      BY <2>3, RecalledFits DEF Contained
    <3> QED BY <2>1, <2>3, <3>1 DEF SnapInv
  <2>4. Types \subseteq Reachable
    BY DEF Reachable
  <2>5. broken.stop_condition = reference.stop_condition
        /\ \E e : Embeds(e, reference.steps, broken.steps, Damaged, claimed)
    BY <2>1, <2>4 DEF RestoreInv, Restorable
  <2>6. Damaged \cap Known(reference) \subseteq spec.masked_step_ids
    <3>1. CASE Damaged \subseteq spec.masked_step_ids
      BY <3>1
    <3>2. CASE Single
      <4>1. PICK c : ByOneCall(reference, c) /\ broken = c.result.broken /\ injected[1] = c.result.injected
        BY <2>1, <3>2 DEF RestoreInv, Single
      <4>2. DOMAIN injected = {1}
        BY <2>1, <3>2 DEF IsList, Single
      <4>3. /\ Damaged = c.result.injected.damaged_step_ids
            /\ c.result.injected.corruption_type \in Types
        BY <4>1, <4>2 DEF Damaged, Types
      <4> QED BY <2>1, <2>2, <2>4, <4>1, <4>3, SingleIsMasked
    <3> QED BY <3>1, <3>2
  <2>7. Covers(spec, reference, broken, Damaged, claimed)
    BY <2>1, <2>2, <2>3, <2>5, <2>6 DEF Covers
  <2>8. Rebuilt(broken.steps, PutBackFilling) = reference.steps
    BY <2>3, <2>7, RecalledComesBack DEF PutBackFilling
  <2>9. Repaired = [broken EXCEPT !.steps = reference.steps]
    BY <2>8 DEF Repaired
  <2>10. reference = [steps |-> reference.steps, stop_condition |-> broken.stop_condition]
    BY <2>1, <2>5 DEF AgentPlan
  <2>11. [broken EXCEPT !.steps = reference.steps]
           = [steps |-> reference.steps, stop_condition |-> broken.stop_condition]
    BY <2>1 DEF AgentPlan
  <2> QED BY <2>9, <2>10, <2>11, <2>12
<1>2. DiffusionSpec => []RestoreHolds
  BY RestoresHold
<1> QED BY <1>1, <1>2, PTL

-----------------------------------------------------------------------------
(***************************************************************************)
(* The mask.  What a step must show for a report to have it masked.        *)
(***************************************************************************)
Suspect(b, k) ==
  LET ss == b.steps
      id == ss[k].id
  IN  \/ ss[k].tool \notin Available
      \/ MissingDeps(ss, k) # {}
      \/ LateDeps(ss, k) # {}
      \/ \E m \in DOMAIN ss \ {k} : ss[m].id = id \/ Body(ss[m]) = Body(ss[k])
      \/ id \notin Consumed(ss) /\ id # ss[Len(ss)].id /\ id \notin DerivedDangling(Errors(b), ss)

LEMMA MaskedAreSuspect ==
  ASSUME NEW b, CycleErrors(b.steps) = {},
         NEW id \in MaskSpec(b.steps, PathsToMask(Errors(b), b.steps)).masked_step_ids
  PROVE  \E k \in DOMAIN b.steps : b.steps[k].id = id /\ Suspect(b, k)
<1> DEFINE ss == b.steps
           derived == DerivedDangling(Errors(b), ss)
<1>1. PICK path \in PathsToMask(Errors(b), ss) :
        path[1] \in {"step", "tool", "input_from"} /\ path[2] = id /\ id \in KnownIds(ss)
  BY MaskedBy
<1>2. PICK e \in Errors(b) : path \in e.paths /\ ~(e.type = DANGLING_STEP /\ e.step_ids \subseteq derived)
  BY <1>1 DEF PathsToMask, DetectedPaths
<1>3. /\ \A x : ToolPath(x)[2] = x /\ InputFromPath(x)[2] = x /\ StepPath(x)[2] = x
      /\ "evidence" \notin {"step", "tool", "input_from"} /\ "operation" \notin {"step", "tool", "input_from"}
      /\ "stop_condition" \notin {"step", "tool", "input_from"}
  BY DEF ToolPath, InputFromPath, StepPath
<1> HIDE DEF derived
<1>4. CASE e \in UnknownTools(ss)
  <2>1. PICK j \in DOMAIN ss : /\ ss[j].tool \notin Available
                               /\ e = Error(UNKNOWN_TOOL, {ss[j].id}, {ToolPath(ss[j].id)}, "")
    BY <1>4 DEF UnknownTools
  <2>2. e.paths = {ToolPath(ss[j].id)}
    BY <2>1 DEF Error
  <2>3. path = ToolPath(ss[j].id)
    BY <1>2, <2>2
  <2>4. ss[j].id = id
    BY <1>1, <1>3, <2>3
  <2> QED BY <2>1, <2>4 DEF Suspect
<1>5. CASE e \in UnknownDependencies(ss)
  <2>1. PICK j \in DOMAIN ss : /\ MissingDeps(ss, j) # {}
                               /\ e = Error(UNKNOWN_DEPENDENCY, {ss[j].id}, {InputFromPath(ss[j].id)}, "")
    BY <1>5 DEF UnknownDependencies
  <2>2. e.paths = {InputFromPath(ss[j].id)}
    BY <2>1 DEF Error
  <2>3. path = InputFromPath(ss[j].id)
    BY <1>2, <2>2
  <2>4. ss[j].id = id
    BY <1>1, <1>3, <2>3
  <2> QED BY <2>1, <2>4 DEF Suspect
<1>6. CASE e \in OrderingErrors(ss)
  <2>1. PICK j \in DOMAIN ss : /\ LateDeps(ss, j) # {}
                               /\ e = Error(ORDERING, {ss[j].id} \cup LateDeps(ss, j), {StepPath(ss[j].id)}, "")
    BY <1>6 DEF OrderingErrors
  <2>2. e.paths = {StepPath(ss[j].id)}
    BY <2>1 DEF Error
  <2>3. path = StepPath(ss[j].id)
    BY <1>2, <2>2
  <2>4. ss[j].id = id
    BY <1>1, <1>3, <2>3
  <2> QED BY <2>1, <2>4 DEF Suspect
<1>7. CASE e \in DuplicateErrors(ss)
  <2>1. CASE \E j \in DOMAIN ss : /\ \E k \in DOMAIN ss \ {j} : ss[k].id = ss[j].id
                                  /\ e = Error(DUPLICATE_STEP, {ss[j].id}, {StepPath(ss[j].id)}, "duplicate_id")
    <3>1. PICK j \in DOMAIN ss : /\ \E k \in DOMAIN ss \ {j} : ss[k].id = ss[j].id
                                 /\ e = Error(DUPLICATE_STEP, {ss[j].id}, {StepPath(ss[j].id)}, "duplicate_id")
      BY <2>1
    <3>2. e.paths = {StepPath(ss[j].id)}
      BY <3>1 DEF Error
    <3>3. path = StepPath(ss[j].id)
      BY <1>2, <3>2
    <3>4. ss[j].id = id
      BY <1>1, <1>3, <3>3
    <3> QED BY <3>1, <3>4 DEF Suspect
  <2>2. CASE \E i \in DOMAIN ss :
               /\ \E k \in DOMAIN ss \ {i} : Body(ss[k]) = Body(ss[i])
               /\ e = Error(DUPLICATE_STEP, SameWork(ss, i), {StepPath(x) : x \in SameWork(ss, i)}, "identical_content")
    <3>1. PICK i \in DOMAIN ss :
            /\ \E k \in DOMAIN ss \ {i} : Body(ss[k]) = Body(ss[i])
            /\ e = Error(DUPLICATE_STEP, SameWork(ss, i), {StepPath(x) : x \in SameWork(ss, i)}, "identical_content")
      BY <2>2
    <3> DEFINE all == {StepPath(x) : x \in SameWork(ss, i)}
    <3>2. e.paths = all
      <4> HIDE DEF all
      <4>1. e = Error(DUPLICATE_STEP, SameWork(ss, i), all, "identical_content")
        BY <3>1 DEF all
      <4> QED BY <4>1, ErrorPaths
    <3>3. id \in SameWork(ss, i)
      BY <1>1, <1>2, <1>3, <3>2
    <3>4. PICK j \in DOMAIN ss : ss[j].id = id /\ Body(ss[j]) = Body(ss[i])
      BY <3>3 DEF SameWork
    <3>5. PICK k \in DOMAIN ss \ {i} : Body(ss[k]) = Body(ss[i])
      BY <3>1
    <3>6. \E m \in DOMAIN ss \ {j} : Body(ss[m]) = Body(ss[j])
      <4>1. CASE j = i
        BY <3>5, <4>1
      <4>2. CASE j # i
        BY <3>4, <4>2
      <4> QED BY <4>1, <4>2
    <3>7. Suspect(b, j)
      BY <3>6 DEF Suspect
    <3> QED BY <3>4, <3>7
  <2> QED BY <1>7, <2>1, <2>2 DEF DuplicateErrors
<1>8. CASE e \in DanglingErrors(ss)
  <2>1. PICK x \in KnownIds(ss) : /\ x \notin Consumed(ss) /\ x # ss[Len(ss)].id
                                  /\ e = Error(DANGLING_STEP, {x}, {StepPath(x)}, "")
    BY <1>8 DEF DanglingErrors
  <2>2. e.paths = {StepPath(x)} /\ e.type = DANGLING_STEP /\ e.step_ids = {x}
    BY <2>1 DEF Error
  <2>3. x = id /\ id \notin derived
    BY <1>1, <1>2, <1>3, <2>2
  <2>4. PICK k \in DOMAIN ss : ss[k].id = id
    BY <2>1, <2>3 DEF KnownIds
  <2>5. Suspect(b, k)
    BY <2>1, <2>3, <2>4 DEF Suspect, derived
  <2> QED BY <2>4, <2>5
<1>9. e \notin MissingStop(b) /\ e \notin CoverageErrors(ss)
  <2>1. \A t, ids, kind : e # Error(t, ids, {StopPath}, kind)
    BY <1>1, <1>2, <1>3, PathFronts, ErrorPaths
  <2>2. \A t, ids, x, kind : e # Error(t, ids, {EvidencePath(x)}, kind) /\ e # Error(t, ids, {OperationPath(x)}, kind)
    BY <1>1, <1>2, <1>3, PathFronts, ErrorPaths
  <2> QED BY <2>1, <2>2 DEF MissingStop, CoverageErrors
<1>10. e \in UnknownTools(ss) \cup UnknownDependencies(ss) \cup OrderingErrors(ss) \cup DuplicateErrors(ss)
             \cup DanglingErrors(ss)
  BY <1>9 DEF Errors
<1> QED BY <1>4, <1>5, <1>6, <1>7, <1>8, <1>10

LEMMA DanglingIsReported ==
  ASSUME NEW b, NEW id \in KnownIds(b.steps), id \notin Consumed(b.steps), id # b.steps[Len(b.steps)].id
  PROVE  id \in DetectedStepIds(OfType(Errors(b), DANGLING_STEP))
<1> DEFINE e == Error(DANGLING_STEP, {id}, {StepPath(id)}, "")
<1>1. e \in DanglingErrors(b.steps)
  BY DEF DanglingErrors
<1>2. e.type = DANGLING_STEP /\ e.step_ids = {id}
  BY DEF Error
<1> HIDE DEF e
<1>3. e \in Errors(b)
  BY <1>1 DEF Errors
<1> QED BY <1>2, <1>3 DEF DetectedStepIds, OfType

\* A step of the reference with a wrong tool, or with one reference gone astray: of the
\* others, one may dangle now, and stands before the step that should consume it.
LEMMA RewriteFits ==
  ASSUME NEW r \in AgentPlan, Sound(r.steps), DanglingErrors(r.steps) = {}, NEW b \in AgentPlan,
         NEW id, NEW s, Rewrites(r.steps, b.steps, id, s),
         \/ s.tool \notin Available /\ s.input_from = r.steps[FirstAt(r.steps, id)].input_from
         \/ \E dep, x : /\ x \notin Known(r)
                        /\ s.input_from = (r.steps[FirstAt(r.steps, id)].input_from \ {dep}) \cup {x},
         NEW k \in DOMAIN b.steps, Suspect(b, k)
  PROVE  b.steps[k].id = id
<1> DEFINE rr == r.steps
           ss == b.steps
           i0 == FirstAt(rr, id)
<1>1. /\ DOMAIN ss = DOMAIN rr /\ i0 \in DOMAIN rr /\ rr[i0].id = id /\ ss[i0] = s /\ s.id = id
      /\ \A i \in DOMAIN rr : i # i0 => ss[i] = rr[i]
  BY DEF Rewrites
<1>2. /\ \A i \in DOMAIN rr : rr[i].tool \in Available /\ rr[i].input_from \subseteq KnownIds(rr)
      /\ UniqueIds(rr) /\ (\A i, j \in DOMAIN rr : Body(rr[i]) = Body(rr[j]) => i = j)
      /\ CycleErrors(rr) = {} /\ OrderingErrors(rr) = {}
  BY DEF Sound
<1>3. KnownIds(ss) = KnownIds(rr) /\ Known(b) = Known(r) /\ Ordered(rr) /\ UniqueIds(ss)
  <2>1. \A i \in DOMAIN rr : ss[i].id = rr[i].id
    BY <1>1
  <2> QED BY <1>1, <1>2, <2>1, RewriteNames, OrderedIsUnreported DEF Known, UniqueIds
<1>4. DOMAIN rr = 1 .. Len(rr) /\ DOMAIN ss = 1 .. Len(ss) /\ Len(rr) \in Nat /\ Len(ss) \in Nat
  BY StepDomain
<1>5. Len(ss) = Len(rr)
  BY <1>1, <1>4
<1>6. \/ s.tool \notin Available /\ s.input_from = rr[i0].input_from
      \/ \E dep, x : x \notin KnownIds(rr) /\ s.input_from = (rr[i0].input_from \ {dep}) \cup {x}
  BY DEF Known
<1> HIDE DEF i0, rr, ss
<1> SUFFICES ASSUME ss[k].id # id PROVE FALSE
  BY DEF ss
<1>7. k \in DOMAIN rr /\ k # i0 /\ ss[k] = rr[k]
  BY <1>1 DEF ss
<1>8. ss[k].tool \in Available /\ MissingDeps(ss, k) = {}
  BY <1>2, <1>3, <1>7 DEF MissingDeps
<1>9. LateDeps(ss, k) = {}
  <2>1. \A j \in DOMAIN rr : ss[j].id = rr[j].id
    BY <1>1
  <2> QED BY <1>1, <1>3, <1>7, <2>1 DEF LateDeps, Ordered
<1>10. ASSUME NEW m \in DOMAIN ss, m # k, ss[m].id = ss[k].id \/ Body(ss[m]) = Body(ss[k]) PROVE FALSE
  <2>1. Body(ss[m]) = Body(ss[k])
    BY <1>1, <1>3, <1>7, <1>10 DEF UniqueIds
  <2>2. m = i0
    BY <1>1, <1>2, <1>7, <1>10, <2>1
  <2>3. s.tool = rr[k].tool /\ s.input_from = rr[k].input_from
    BY <1>1, <1>7, <2>1, <2>2 DEF Body
  <2> QED BY <1>2, <1>6, <1>7, <2>3
<1>11. /\ ss[k].id \notin Consumed(ss) /\ ss[k].id # ss[Len(ss)].id
       /\ ss[k].id \notin DerivedDangling(Errors(b), ss)
  BY <1>8, <1>9, <1>10 DEF Suspect, ss
<1>12. ss[k].id \in KnownIds(ss)
  BY <1>1, <1>7 DEF KnownIds
<1>13. PICK j \in DOMAIN rr : rr[k].id \in rr[j].input_from
  <2>1. rr[k].id # rr[Len(rr)].id
    <3>1. Len(rr) \in DOMAIN rr
      BY <1>4, <1>7
    <3>2. ss[Len(rr)].id = rr[Len(rr)].id
      BY <1>1, <3>1
    <3> QED BY <1>5, <1>7, <1>11, <3>2
  <2>2. rr[k].id \in Consumed(rr)
    <3>1. rr[k].id \in KnownIds(rr)
      BY <1>7 DEF KnownIds
    <3>2. DanglingErrors(rr) = {}
      BY DEF rr
    <3> QED BY <2>1, <3>1, <3>2 DEF DanglingErrors
  <2> QED BY <2>2 DEF Consumed
<1>14. j = i0
  BY <1>1, <1>7, <1>11, <1>13 DEF Consumed
<1>15. rr[k].id \notin s.input_from
  BY <1>1, <1>7, <1>11 DEF Consumed
<1>16. PICK x : x \notin KnownIds(rr) /\ x \in s.input_from
  BY <1>6, <1>13, <1>14, <1>15
<1>17. MissingDeps(ss, i0) # {}
  BY <1>1, <1>3, <1>16 DEF MissingDeps
<1>18. k < i0
  <2>1. ~(k > i0)
    BY <1>3, <1>7, <1>13, <1>14 DEF Ordered
  <2> QED BY <1>1, <1>4, <1>7, <2>1
<1>19. LastAt(ss, ss[k].id) = k /\ LastAt(ss, ss[i0].id) = i0
  BY <1>1, <1>3, <1>7, EdgesOfUnique DEF ss
<1>20. ss[i0].id \in DetectedStepIds(OfType(Errors(b), UNKNOWN_DEPENDENCY)) \cap KnownIds(ss)
  <2>1. ss[i0].id \in DetectedStepIds(OfType(Errors(b), UNKNOWN_DEPENDENCY))
    BY <1>1, <1>17, UncleanIsReported DEF ss
  <2> QED BY <1>1, <2>1 DEF KnownIds
<1>21. ss[k].id \in DetectedStepIds(OfType(Errors(b), DANGLING_STEP)) \cap KnownIds(ss)
  BY <1>11, <1>12, DanglingIsReported DEF ss
<1> QED BY <1>11, <1>18, <1>19, <1>20, <1>21 DEF DerivedDangling

\* A deletion something depended on: what only the deleted step consumed dangles, and
\* stands before what consumed the deleted step.
LEMMA DeletionFits ==
  ASSUME NEW r \in AgentPlan, Sound(r.steps), DanglingErrors(r.steps) = {}, NEW id \in Known(r),
         NEW b, b = DeleteStep(r, id).broken, NEW ids, ids = DeleteStep(r, id).injected.damaged_step_ids,
         ids # {}, NEW k \in DOMAIN b.steps, Suspect(b, k)
  PROVE  b.steps[k].id \in ids
<1> DEFINE rr == r.steps
           ss == b.steps
<1>1. /\ b \in AgentPlan /\ Known(b) = Known(r) \ {id}
      /\ \A m \in DOMAIN ss : \E i \in DOMAIN rr : ss[m] = rr[i]
      /\ ids = {ss[m].id : m \in {j \in DOMAIN ss : id \in ss[j].input_from}}
      /\ \A m, n \in DOMAIN ss : m < n =>
           \E i, j \in DOMAIN rr : i < j /\ ss[m] = rr[i] /\ ss[n] = rr[j]
  <2> DEFINE q == DeleteStep(r, id).broken
  <2>1. /\ q \in AgentPlan /\ Known(q) = Known(r) \ {id}
        /\ \A m \in DOMAIN q.steps : \E i \in DOMAIN rr : q.steps[m] = rr[i]
        /\ ids = {q.steps[m].id : m \in {j \in DOMAIN q.steps : id \in q.steps[j].input_from}}
        /\ \A m, n \in DOMAIN q.steps : m < n =>
             \E i, j \in DOMAIN rr : i < j /\ q.steps[m] = rr[i] /\ q.steps[n] = rr[j]
    BY DeletionSpares
  <2>2. q = b
    OBVIOUS
  <2> HIDE DEF q
  <2> QED BY <2>1, <2>2
<1>2. /\ \A i \in DOMAIN rr : rr[i].tool \in Available /\ rr[i].input_from \subseteq KnownIds(rr)
      /\ UniqueIds(rr) /\ (\A i, j \in DOMAIN rr : Body(rr[i]) = Body(rr[j]) => i = j)
      /\ CycleErrors(rr) = {} /\ Ordered(rr)
  BY OrderedIsUnreported DEF Sound
<1>3. DOMAIN rr = 1 .. Len(rr) /\ DOMAIN ss = 1 .. Len(ss) /\ Len(rr) \in Nat /\ Len(ss) \in Nat
  BY <1>1, StepDomain
<1>4. KnownIds(ss) = KnownIds(rr) \ {id}
  BY <1>1 DEF Known
<1> HIDE DEF rr, ss
<1>5. ASSUME NEW m \in DOMAIN ss, NEW n \in DOMAIN ss, m # n
      PROVE  ss[m].id # ss[n].id /\ Body(ss[m]) # Body(ss[n])
  <2>1. m < n \/ n < m
    BY <1>3, <1>5
  <2>2. PICK i, j \in DOMAIN rr : i # j /\ ss[m] = rr[i] /\ ss[n] = rr[j]
    <3>1. ASSUME NEW x \in DOMAIN ss, NEW y \in DOMAIN ss, x < y
          PROVE  \E i, j \in DOMAIN rr : i # j /\ ss[x] = rr[i] /\ ss[y] = rr[j]
      <4>1. PICK i, j \in DOMAIN rr : i < j /\ ss[x] = rr[i] /\ ss[y] = rr[j]
        BY <1>1, <3>1 DEF ss
      <4>2. i # j
        BY <1>3, <4>1
      <4> QED BY <4>1, <4>2
    <3> QED BY <2>1, <3>1
  <2> QED BY <1>2, <2>2 DEF UniqueIds
<1>6. PICK i \in DOMAIN rr : ss[k] = rr[i]
  BY <1>1 DEF ss
<1> SUFFICES ASSUME ss[k].id \notin ids PROVE FALSE
  BY DEF ss
<1>7. id \notin ss[k].input_from /\ k \in DOMAIN ss
  BY <1>1 DEF ss
<1>8. ss[k].tool \in Available /\ MissingDeps(ss, k) = {}
  BY <1>2, <1>4, <1>6, <1>7 DEF MissingDeps
<1>9. LateDeps(ss, k) = {}
  <2> SUFFICES ASSUME NEW m \in DOMAIN ss, m > k, ss[m].id \in ss[k].input_from PROVE FALSE
    BY DEF LateDeps
  <2>1. PICK x, y \in DOMAIN rr : x < y /\ ss[k] = rr[x] /\ ss[m] = rr[y]
    BY <1>1, <1>3, <1>7 DEF ss
  <2> QED BY <1>2, <1>3, <2>1 DEF Ordered
<1>10. /\ ss[k].id \notin Consumed(ss) /\ ss[k].id # ss[Len(ss)].id
       /\ ss[k].id \notin DerivedDangling(Errors(b), ss)
  BY <1>5, <1>7, <1>8, <1>9 DEF Suspect, ss
<1>11. rr[i].id # rr[Len(rr)].id
  <2> SUFFICES ASSUME rr[i].id = rr[Len(rr)].id PROVE FALSE
    OBVIOUS
  <2>1. i = Len(rr)
    <3>1. Len(rr) \in DOMAIN rr
      BY <1>3, <1>6
    <3> QED BY <1>2, <1>6, <3>1 DEF UniqueIds
  <2>2. Len(ss) \in DOMAIN ss /\ k < Len(ss)
    BY <1>3, <1>7, <1>10
  <2>3. PICK x, y \in DOMAIN rr : x < y /\ ss[k] = rr[x]
    BY <1>1, <1>7, <2>2 DEF ss
  <2>4. x = i
    BY <1>2, <1>6, <2>3 DEF UniqueIds
  <2> QED BY <1>3, <2>1, <2>3, <2>4
<1>12. PICK j \in DOMAIN rr : rr[i].id \in rr[j].input_from
  <2>1. rr[i].id \in KnownIds(rr) /\ DanglingErrors(rr) = {}
    BY <1>6 DEF KnownIds, rr
  <2>2. rr[i].id \in Consumed(rr)
    BY <1>11, <2>1 DEF DanglingErrors
  <2> QED BY <2>2 DEF Consumed
<1>13. rr[j].id = id
  <2> SUFFICES ASSUME rr[j].id # id PROVE FALSE
    OBVIOUS
  <2>1. rr[j].id \in KnownIds(ss)
    BY <1>4 DEF KnownIds
  <2>2. PICK m \in DOMAIN ss : ss[m].id = rr[j].id
    BY <2>1 DEF KnownIds
  <2>3. PICK x \in DOMAIN rr : ss[m] = rr[x]
    BY <1>1 DEF ss
  <2>4. x = j
    BY <1>2, <2>2, <2>3 DEF UniqueIds
  <2> QED BY <1>6, <1>10, <1>12, <2>3, <2>4 DEF Consumed
<1>14. PICK m \in DOMAIN ss : id \in ss[m].input_from
  BY <1>1 DEF ss
<1>15. PICK j2 \in DOMAIN rr : ss[m] = rr[j2]
  BY <1>1 DEF ss
<1>16. i < j /\ j < j2
  <2>1. ss[k].id # id /\ ss[m].id # id
    BY <1>4, <1>7 DEF KnownIds
  <2>2. i # j /\ j # j2
    BY <1>6, <1>13, <1>15, <2>1
  <2>3. ~(i > j) /\ ~(j > j2)
    BY <1>2, <1>12, <1>13, <1>14, <1>15 DEF Ordered
  <2> QED BY <1>3, <2>2, <2>3
<1>17. k < m
  <2>1. k # m
    BY <1>7, <1>14
  <2>2. ASSUME m < k PROVE FALSE
    <3>1. PICK x, y \in DOMAIN rr : x < y /\ ss[m] = rr[x] /\ ss[k] = rr[y]
      BY <1>1, <1>7, <2>2 DEF ss
    <3>2. x = j2 /\ y = i
      BY <1>2, <1>6, <1>15, <3>1 DEF UniqueIds
    <3> QED BY <1>3, <1>16, <3>1, <3>2
  <2> QED BY <1>3, <1>7, <2>1, <2>2
<1>18. UniqueIds(ss)
  BY <1>5 DEF UniqueIds
<1>19. LastAt(ss, ss[k].id) = k /\ LastAt(ss, ss[m].id) = m
  BY <1>1, <1>7, <1>18, EdgesOfUnique DEF ss
<1>20. ss[m].id \in DetectedStepIds(OfType(Errors(b), UNKNOWN_DEPENDENCY)) \cap KnownIds(ss)
  <2>1. MissingDeps(ss, m) # {}
    BY <1>4, <1>14 DEF MissingDeps
  <2>2. ss[m].id \in DetectedStepIds(OfType(Errors(b), UNKNOWN_DEPENDENCY))
    BY <2>1, UncleanIsReported DEF ss
  <2> QED BY <2>2 DEF KnownIds
<1>21. ss[k].id \in DetectedStepIds(OfType(Errors(b), DANGLING_STEP)) \cap KnownIds(ss)
  <2>1. ss[k].id \in KnownIds(ss)
    BY <1>7 DEF KnownIds
  <2> QED BY <1>10, <2>1, DanglingIsReported DEF ss
<1> QED BY <1>10, <1>17, <1>19, <1>20, <1>21 DEF DerivedDangling

LEMMA OneFaultFits ==
  ASSUME NEW r \in AgentPlan, Sound(r.steps), DanglingErrors(r.steps) = {}, NEW c, ByOneCall(r, c),
         c.result.injected.corruption_type \in {BROKEN_DEPENDENCY, WRONG_TOOL, STEP_DELETION, DROP_REQUIRED_STEP},
         c.result.injected.damaged_step_ids # {}, CycleErrors(c.result.broken.steps) = {},
         NEW k \in DOMAIN c.result.broken.steps, Suspect(c.result.broken, k)
  PROVE  c.result.broken.steps[k].id \in c.result.injected.damaged_step_ids
<1> DEFINE b == c.result.broken
           ids == c.result.injected.damaged_step_ids
           Owned == b.steps[k].id \in ids
<1>1. ASSUME NEW id \in c.touched, NEW dep \in StepId, NEW x \in FreeIds(r, UnknownNames[dep]),
             CanBreakDependency(r, id, dep), c.result = BreakDependency(r, id, dep, x)
      PROVE  Owned
  <2> DEFINE i == FirstAt(r.steps, id)
             deps == (r.steps[i].input_from \ {dep}) \cup {x}
             s == [r.steps[i] EXCEPT !.input_from = deps]
  <2>1. id \in Known(r) /\ x \in StepId /\ x \notin Known(r)
    BY <1>1, FreeNames, InjectorAssumption DEF CanBreakDependency
  <2>2. r.steps[i] \in Step /\ deps \in SUBSET StepId
    <3>1. r.steps[i] \in Step
      BY <2>1, KnownAt, StepDomain
    <3> QED BY <2>1, <3>1 DEF Step
  <2>3. b = [r EXCEPT !.steps[i].input_from = deps] /\ ids = {id}
    BY <1>1 DEF BreakDependency, Result, Injected
  <2>4. s.input_from = deps
    BY <2>2 DEF Step
  <2>5. b \in AgentPlan /\ Rewrites(r.steps, b.steps, id, s)
    <3> DEFINE q == [r EXCEPT !.steps[FirstAt(r.steps, id)].input_from = deps]
    <3> HIDE DEF deps
    <3>1. /\ q \in AgentPlan
          /\ Rewrites(r.steps, q.steps, id, [r.steps[FirstAt(r.steps, id)] EXCEPT !.input_from = deps])
      BY <2>1, <2>2, InputRewritten
    <3> QED BY <2>3, <3>1
  <2> HIDE DEF b, s
  <2>6. b.steps[k].id = id
    BY <2>1, <2>4, <2>5, RewriteFits DEF b
  <2> QED BY <2>3, <2>6
<1>2. ASSUME NEW id \in Known(r), NEW with \in Known(r), CanCloseCycle(r, id, with),
             c = Touching({id, with}, CloseCycle(r, id, with))
      PROVE  FALSE
  <2>1. c.result.broken = CloseCycle(r, id, with).broken
    BY <1>2 DEF Touching
  <2> QED BY <1>2, <2>1, ClosedCycleIsReported
<1>3. ASSUME NEW id \in Known(r), c = Touching({id}, DeleteStep(r, id))
      PROVE  Owned
  <2>1. b = DeleteStep(r, id).broken /\ ids = DeleteStep(r, id).injected.damaged_step_ids
    BY <1>3 DEF Touching
  <2> HIDE DEF b, ids
  <2> QED BY <2>1, DeletionFits DEF b, ids
<1>4. ASSUME NEW id \in Known(r), NEW t \in Tool \ Available, c = Touching({id}, SetTool(r, id, t))
      PROVE  Owned
  <2> DEFINE i == FirstAt(r.steps, id)
             s == [r.steps[i] EXCEPT !.tool = t]
  <2>1. r.steps[i] \in Step
    BY KnownAt, StepDomain
  <2>2. b = [r EXCEPT !.steps[i].tool = t] /\ ids = {id}
    BY <1>4 DEF Touching, SetTool, Result, Injected
  <2>3. s.tool \notin Available /\ s.input_from = r.steps[i].input_from
    BY <2>1 DEF Step
  <2>4. b \in AgentPlan /\ Rewrites(r.steps, b.steps, id, s)
    BY <2>2, ToolRewritten
  <2> HIDE DEF b, s
  <2>5. b.steps[k].id = id
    BY <2>3, <2>4, RewriteFits DEF b
  <2> QED BY <2>2, <2>5
<1>5. ASSUME NEW x \in RequiredEvidence \cup RequiredOperation, CanDropRequired(r, x),
             c = Touching({}, DropRequired(r, x))
      PROVE  Owned
  <2>1. b = DropRequired(r, x).broken /\ ids = DropRequired(r, x).injected.damaged_step_ids
    BY <1>5 DEF Touching
  <2>2. PICK id \in Known(r) : /\ b = DeleteStep(r, id).broken
                               /\ ids = DeleteStep(r, id).injected.damaged_step_ids
    BY <1>5, <2>1, RequirementDropped
  <2> HIDE DEF b, ids
  <2> QED BY <2>2, DeletionFits DEF b, ids
<1>6. /\ c.result.injected.corruption_type # WRONG_ORDERING /\ c.result.injected.corruption_type # DUPLICATE_STEP
      /\ c.result.injected.corruption_type # MISSING_STOP_CONDITION
  BY DEF BROKEN_DEPENDENCY, WRONG_TOOL, STEP_DELETION, DROP_REQUIRED_STEP, WRONG_ORDERING, DUPLICATE_STEP,
         MISSING_STOP_CONDITION
<1>7. \A id, to : c # Touching({id}, MoveEarlier(r, id, to))
  BY <1>6 DEF MoveEarlier, Result, Injected, Touching
<1>8. \A id, new_id : c # Touching({id}, Duplicate(r, id, new_id))
  BY <1>6 DEF Duplicate, Result, Injected, Touching
<1>9. c # Touching({}, DropStop(r))
  BY <1>6 DEF DropStop, Result, Injected, Touching
<1> HIDE DEF Owned
<1>10. Owned
  BY <1>1, <1>2, <1>3, <1>4, <1>5, <1>7, <1>8, <1>9 DEF ByOneCall
<1> QED BY <1>10 DEF Owned

(***************************************************************************)
(* The mask of one fault holds the damage and nothing else.                *)
(***************************************************************************)
NothingDangles == DanglingErrors(reference.steps) = {}

MaskHolds == RestoreHolds /\ NothingDangles

LEMMA MaskInit ==
  ASSUME NEW p \in AgentPlan, Valid(p), Measure(p)
  PROVE  MaskHolds
<1>1. RestoreHolds
  BY RestoreInit
<1>2. reference = p /\ DanglingErrors(p.steps) = {}
  BY DEF Measure, Intact, Valid, Errors
<1> QED BY <1>1, <1>2 DEF MaskHolds, NothingDangles

LEMMA MaskInductive == MaskHolds /\ [DiffusionNext]_diffusionVars => MaskHolds'
<1> SUFFICES ASSUME MaskHolds, [DiffusionNext]_diffusionVars PROVE NothingDangles'
  BY RestoreInductive DEF MaskHolds
<1>1. reference' = reference
  <2>1. CASE UNCHANGED diffusionVars
    BY <2>1 DEF diffusionVars, injectionVars
  <2>2. CASE Corrupt
    BY <2>2 DEF Corrupt, Inject, InjectAlone, Apply
  <2>3. CASE Mask \/ Align \/ BackendFails \/ Fill \/ PutBack \/ TakeScore
    BY <2>3 DEF Mask, Align, BackendFails, Fill, PutBack, TakeScore, injectionVars
  <2> QED BY <2>1, <2>2, <2>3 DEF DiffusionNext
<1> QED BY <1>1 DEF MaskHolds, NothingDangles

\* A single fault, of the kinds whose damage a mask can reach and which left no cycle:
\* every step the mask of the report takes is one the fault damaged, in a plan of any
\* size and by whichever corruption.
THEOREM OnlyDamageIsMasked == DiffusionSpec => []MaskFitsDamage
<1>1. MaskHolds => MaskFitsDamage
  <2> SUFFICES ASSUME MaskHolds, Masked, Single, Damaged # {}, DEP_CYCLE \notin ErrorTypes(Errors(broken)),
                      Types \subseteq {BROKEN_DEPENDENCY, WRONG_TOOL, STEP_DELETION, DROP_REQUIRED_STEP},
                      NEW id \in spec.masked_step_ids
               PROVE  id \in Damaged
    BY DEF MaskFitsDamage
  <2>1. /\ reference \in AgentPlan /\ Sound(reference.steps) /\ RestoreInv /\ IsList(injected)
        /\ DanglingErrors(reference.steps) = {}
    BY DEF MaskHolds, NothingDangles, RestoreHolds, SnapHolds, ResultHolds, AnswerHolds, GroundInv
  <2>2. spec = MaskSpec(broken.steps, PathsToMask(Errors(broken), broken.steps))
    BY <2>1 DEF RestoreInv, Masked
  <2>3. CycleErrors(broken.steps) = {}
    BY ReportByCheck
  <2>4. PICK k \in DOMAIN broken.steps : broken.steps[k].id = id /\ Suspect(broken, k)
    BY <2>2, <2>3, MaskedAreSuspect
  <2>5. PICK c : ByOneCall(reference, c) /\ broken = c.result.broken /\ injected[1] = c.result.injected
    BY <2>1 DEF RestoreInv, Single
  <2>6. DOMAIN injected = {1}
    BY <2>1 DEF IsList, Single
  <2>7. Damaged = c.result.injected.damaged_step_ids /\ c.result.injected.corruption_type \in Types
    BY <2>5, <2>6 DEF Damaged, Types
  <2>8. c.result.broken.steps[k].id \in c.result.injected.damaged_step_ids
    <3>1. c.result.injected.corruption_type
            \in {BROKEN_DEPENDENCY, WRONG_TOOL, STEP_DELETION, DROP_REQUIRED_STEP}
      BY <2>7
    <3>2. c.result.injected.damaged_step_ids # {}
      BY <2>7
    <3>3. /\ CycleErrors(c.result.broken.steps) = {} /\ k \in DOMAIN c.result.broken.steps
          /\ Suspect(c.result.broken, k)
      BY <2>3, <2>4, <2>5
    <3> QED BY <2>1, <2>5, <3>1, <3>2, <3>3, OneFaultFits
  <2> QED BY <2>4, <2>5, <2>7, <2>8
<1>2. DiffusionSpec => []MaskHolds
  <2> DEFINE Start == \E p \in AgentPlan : Valid(p) /\ Runs(p) /\ Measure(p)
  <2>1. Start => MaskHolds
    BY MaskInit
  <2> HIDE DEF Start
  <2> QED BY <2>1, MaskInductive, PTL DEF DiffusionSpec, Start
<1> QED BY <1>1, <1>2, PTL

(***************************************************************************)
(* Paths as text.  A path to a step is opened by its prefix and closed by  *)
(* the first bracket after it, so its name must hold none; a path to a     *)
(* requirement has another prefix, and its name may hold anything.         *)
(***************************************************************************)
PathKinds == {"step", "tool", "input_from", "evidence", "operation", "stop_condition"}

LEMMA PathsHaveKinds ==
  ASSUME NEW b, NEW path \in DetectedPaths(Errors(b))
  PROVE  path[1] \in PathKinds
<1>1. PICK e \in Errors(b) : path \in e.paths
  BY DEF DetectedPaths
<1>2. /\ \A x : StepPath(x)[1] \in PathKinds /\ ToolPath(x)[1] \in PathKinds /\ InputFromPath(x)[1] \in PathKinds
      /\ \A x : EvidencePath(x)[1] \in PathKinds /\ OperationPath(x)[1] \in PathKinds
      /\ StopPath[1] \in PathKinds
  BY DEF StepPath, ToolPath, InputFromPath, EvidencePath, OperationPath, StopPath, PathKinds
<1>3. CASE e \in UnknownTools(b.steps)
  <2>1. PICK i \in DOMAIN b.steps :
          e = Error(UNKNOWN_TOOL, {b.steps[i].id}, {ToolPath(b.steps[i].id)}, "")
    BY <1>3 DEF UnknownTools
  <2>2. e.paths = {ToolPath(b.steps[i].id)}
    BY <2>1 DEF Error
  <2> QED BY <1>1, <1>2, <2>2
<1>4. CASE e \in UnknownDependencies(b.steps)
  <2>1. PICK i \in DOMAIN b.steps :
          e = Error(UNKNOWN_DEPENDENCY, {b.steps[i].id}, {InputFromPath(b.steps[i].id)}, "")
    BY <1>4 DEF UnknownDependencies
  <2>2. e.paths = {InputFromPath(b.steps[i].id)}
    BY <2>1 DEF Error
  <2> QED BY <1>1, <1>2, <2>2
<1>5. CASE e \in OrderingErrors(b.steps)
  <2>1. PICK i \in DOMAIN b.steps :
          e = Error(ORDERING, {b.steps[i].id} \cup LateDeps(b.steps, i), {StepPath(b.steps[i].id)}, "")
    BY <1>5 DEF OrderingErrors
  <2>2. e.paths = {StepPath(b.steps[i].id)}
    BY <2>1 DEF Error
  <2> QED BY <1>1, <1>2, <2>2
<1>6. CASE e \in CycleErrors(b.steps)
  <2>1. PICK C \in CyclicComponents(Edges(b.steps)) :
          e = Error(DEP_CYCLE, C, {InputFromPath(id) : id \in C}, "")
    BY <1>6 DEF CycleErrors
  <2>2. e.paths = {InputFromPath(id) : id \in C}
    BY <2>1 DEF Error
  <2> QED BY <1>1, <1>2, <2>2
<1>7. CASE e \in DanglingErrors(b.steps)
  <2>1. PICK x \in KnownIds(b.steps) :
          e = Error(DANGLING_STEP, {x}, {StepPath(x)}, "")
    BY <1>7 DEF DanglingErrors
  <2>2. e.paths = {StepPath(x)}
    BY <2>1 DEF Error
  <2> QED BY <1>1, <1>2, <2>2
<1>8. CASE e \in DuplicateErrors(b.steps)
  <2>1. PICK i \in DOMAIN b.steps :
          \/ e = Error(DUPLICATE_STEP, {b.steps[i].id}, {StepPath(b.steps[i].id)}, "duplicate_id")
          \/ e = Error(DUPLICATE_STEP, SameWork(b.steps, i), {StepPath(id) : id \in SameWork(b.steps, i)},
                       "identical_content")
    BY <1>8 DEF DuplicateErrors
  <2>2. e.paths = {StepPath(b.steps[i].id)} \/ e.paths = {StepPath(id) : id \in SameWork(b.steps, i)}
    BY <2>1 DEF Error
  <2> QED BY <1>1, <1>2, <2>2
<1>9. CASE e \in CoverageErrors(b.steps)
  <2>1. PICK t : \/ e = Error(MISSING_EVIDENCE, {}, {EvidencePath(t)}, "")
                 \/ e = Error(MISSING_OPERATION, {}, {OperationPath(t)}, "")
    BY <1>9 DEF CoverageErrors
  <2>2. CASE e = Error(MISSING_EVIDENCE, {}, {EvidencePath(t)}, "")
    <3>1. e.paths = {EvidencePath(t)}
      BY <2>2 DEF Error
    <3> QED BY <1>1, <1>2, <3>1
  <2>3. CASE e = Error(MISSING_OPERATION, {}, {OperationPath(t)}, "")
    <3>1. e.paths = {OperationPath(t)}
      BY <2>3 DEF Error
    <3> QED BY <1>1, <1>2, <3>1
  <2> QED BY <2>1, <2>2, <2>3
<1>10. CASE e \in MissingStop(b)
  <2>1. e = Error(MISSING_STOP_CONDITION, {}, {StopPath}, "")
    BY <1>10 DEF MissingStop
  <2>2. e.paths = {StopPath}
    BY <2>1 DEF Error
  <2> QED BY <1>1, <1>2, <2>2
<1> QED BY <1>1, <1>3, <1>4, <1>5, <1>6, <1>7, <1>8, <1>9, <1>10 DEF Errors

LEMMA ClosesAt ==
  ASSUME NEW S, NEW text \in Seq(S), NEW k \in 1 .. Len(text), text[k] = "]",
         \A j \in 1 .. k - 1 : text[j] # "]"
  PROVE  PathText!Closing(text) = k
<1> DEFINE Closes(m) == /\ m <= Len(text) => text[m] = "]"
                        /\ \A j \in 1 .. m - 1 : text[j] # "]"
<1>1. k \in 1 .. Len(text) + 1 /\ Closes(k)
  OBVIOUS
<1>2. \A m \in 1 .. Len(text) + 1 : Closes(m) => m = k
  <2> SUFFICES ASSUME NEW m \in 1 .. Len(text) + 1, Closes(m) PROVE m = k
    OBVIOUS
  <2>1. ~(m < k)
    BY Len(text) \in Nat
  <2>2. ~(k < m)
    BY Len(text) \in Nat
  <2> QED BY <2>1, <2>2
<1>3. PathText!Closing(text) = CHOOSE m \in 1 .. Len(text) + 1 : Closes(m)
  BY DEF PathText!Closing
<1> HIDE DEF Closes
<1> QED BY <1>1, <1>2, <1>3

LEMMA TextReadsBack ==
  ASSUME NEW S, NEW name \in Seq(S), NEW path, path[1] \in PathKinds,
         ~(PathText!Meant(path, name).step /\ PathText!Bracketed(name))
  PROVE  PathText!parse_path(PathText!Text(path, name)) = PathText!Meant(path, name)
<1> DEFINE C == S \cup {"]", ".", "$.steps[?", "tool", "input_from", "$.required_evidence[?",
                        "$.required_operations[?", "$.stop_condition"}
           n == Len(name)
<1>1. name \in Seq(C) /\ n \in Nat
  OBVIOUS
<1>2. ASSUME NEW field, NEW tail \in Seq(C), PathText!Text(path, name) = (<<"$.steps[?">> \o name \o <<"]">>) \o tail,
             PathText!Meant(path, name) = PathText!Step(name, field), PathText!Field(tail) = field
      PROVE  PathText!parse_path(PathText!Text(path, name)) = PathText!Meant(path, name)
  <2> DEFINE opened == <<"$.steps[?">> \o name \o <<"]">>
             text == opened \o tail
  <2>1. /\ opened \in Seq(C) /\ Len(opened) = n + 2 /\ opened[1] = "$.steps[?" /\ opened[n + 2] = "]"
        /\ \A j \in 1 .. n : opened[j + 1] = name[j]
    BY <1>1
  <2>2. /\ text \in Seq(C) /\ Len(text) = n + 2 + Len(tail) /\ Len(tail) \in Nat
        /\ \A j \in 1 .. n + 2 : text[j] = opened[j]
        /\ \A j \in 1 .. Len(tail) : text[n + 2 + j] = tail[j]
    <3> HIDE DEF opened, C, n
    <3>1. /\ text \in Seq(C) /\ Len(text) = Len(opened) + Len(tail)
          /\ \A j \in 1 .. Len(opened) + Len(tail) :
               text[j] = IF j <= Len(opened) THEN opened[j] ELSE tail[j - Len(opened)]
      BY <2>1, ConcatProperties
    <3>2. Len(tail) \in Nat
      OBVIOUS
    <3> HIDE DEF text
    <3>3. \A j \in 1 .. n + 2 : text[j] = opened[j]
      BY <1>1, <2>1, <3>1, <3>2
    <3>4. ASSUME NEW j \in 1 .. Len(tail) PROVE text[n + 2 + j] = tail[j]
      <4>1. n + 2 + j \in 1 .. Len(opened) + Len(tail) /\ ~(n + 2 + j <= Len(opened)) /\ (n + 2 + j) - Len(opened) = j
        BY <1>1, <2>1, <3>2
      <4> QED BY <3>1, <4>1
    <3> QED BY <2>1, <3>1, <3>2, <3>3, <3>4
  <2>3. PathText!Text(path, name) = text
    BY <1>2
  <2>4. \A j \in 1 .. n : name[j] # "]"
    <3>1. ~PathText!Bracketed(name)
      BY <1>2 DEF PathText!Step
    <3> QED BY <1>1, <3>1 DEF PathText!Bracketed, PathText!ToSet
  <2> HIDE DEF opened, text, C, n
  <2>5. PathText!Closing(text) = n + 2
    <3>1. ASSUME NEW j \in 1 .. n + 1 PROVE text[j] # "]"
      <4>1. CASE j = 1
        BY <1>1, <2>1, <2>2, <4>1
      <4>2. CASE j # 1
        <5>1. j - 1 \in 1 .. n /\ j = (j - 1) + 1 /\ j \in 1 .. n + 2
          BY <1>1, <3>1, <4>2
        <5> QED BY <2>1, <2>2, <2>4, <5>1
      <4> QED BY <4>1, <4>2
    <3>2. text[n + 2] = "]" /\ n + 2 \in 1 .. Len(text) /\ (n + 2) - 1 = n + 1
      BY <1>1, <2>1, <2>2
    <3> QED BY <2>2, <3>1, <3>2, ClosesAt
  <2>6. SubSeq(text, 2, n + 1) = name
    <3>1. Len(SubSeq(text, 2, n + 1)) = n /\ \A j \in 1 .. n : SubSeq(text, 2, n + 1)[j] = name[j]
      BY <1>1, <2>1, <2>2
    <3> QED BY <1>1, <2>2, <3>1 DEF n
  <2>7. SubSeq(text, n + 3, Len(text)) = tail
    <3>1. /\ Len(SubSeq(text, n + 3, Len(text))) = Len(tail)
          /\ \A j \in 1 .. Len(tail) : SubSeq(text, n + 3, Len(text))[j] = tail[j]
      BY <1>1, <2>2
    <3> QED BY <1>1, <1>2, <2>2, <3>1
  <2>8. text[1] = "$.steps[?" /\ ~(n + 2 > Len(text)) /\ (n + 2) - 1 = n + 1 /\ (n + 2) + 1 = n + 3
    BY <1>1, <2>1, <2>2
  <2>9. PathText!parse_path(text) = PathText!Step(name, PathText!Field(tail))
    BY <2>5, <2>6, <2>7, <2>8 DEF PathText!parse_path, PathText!STEP
  <2> QED BY <1>2, <2>3, <2>9
<1>3. CASE path[1] = "step"
  <2>1. PathText!Text(path, name) = <<"$.steps[?">> \o name \o <<"]">>
    BY <1>3 DEF PathText!Text, PathText!step_path, PathText!STEP, PathText!MASKABLE_FIELDS
  <2>2. (<<"$.steps[?">> \o name \o <<"]">>) \o <<>> = <<"$.steps[?">> \o name \o <<"]">>
    BY <1>1
  <2>3. PathText!Meant(path, name) = PathText!Step(name, "whole")
    BY <1>3 DEF PathText!Meant, PathText!WholeStep
  <2>4. PathText!Field(<<>>) = "whole"
    BY DEF PathText!Field, PathText!WholeStep
  <2>5. <<>> \in Seq(C)
    OBVIOUS
  <2> HIDE DEF C
  <2> QED BY <1>2, <2>1, <2>2, <2>3, <2>4, <2>5
<1>4. CASE path[1] \in {"tool", "input_from"}
  <2>1. PathText!Text(path, name) = (<<"$.steps[?">> \o name \o <<"]">>) \o <<".", path[1]>>
    BY <1>4 DEF PathText!Text, PathText!field_path, PathText!step_path, PathText!STEP, PathText!MASKABLE_FIELDS
  <2>2. PathText!Meant(path, name) = PathText!Step(name, path[1])
    BY <1>4 DEF PathText!Meant, PathText!MASKABLE_FIELDS
  <2>3. PathText!Field(<<".", path[1]>>) = path[1]
    BY <1>4 DEF PathText!Field, PathText!WholeStep, PathText!MASKABLE_FIELDS
  <2>4. <<".", path[1]>> \in Seq(C)
    BY <1>4
  <2> HIDE DEF C
  <2> QED BY <1>2, <2>1, <2>2, <2>3, <2>4
<1>5. ASSUME NEW prefix, prefix # "$.steps[?", PathText!Text(path, name)[1] = prefix,
             PathText!Meant(path, name) = PathText!NoStep
      PROVE  PathText!parse_path(PathText!Text(path, name)) = PathText!Meant(path, name)
  BY <1>5 DEF PathText!parse_path, PathText!STEP
<1>6. CASE path[1] \in {"evidence", "operation", "stop_condition"}
  <2>1. PathText!Meant(path, name) = PathText!NoStep
    BY <1>6 DEF PathText!Meant, PathText!MASKABLE_FIELDS
  <2>2. \A prefix \in C : (<<prefix>> \o name \o <<"]">>)[1] = prefix
    BY <1>1
  <2>3. \E prefix \in C \ {"$.steps[?"} : PathText!Text(path, name)[1] = prefix
    <3>1. CASE path[1] = "evidence"
      <4>1. PathText!Text(path, name) = <<"$.required_evidence[?">> \o name \o <<"]">>
        BY <3>1 DEF PathText!Text, PathText!MASKABLE_FIELDS, PathText!requirement_path
      <4> QED BY <2>2, <4>1
    <3>2. CASE path[1] = "operation"
      <4>1. PathText!Text(path, name) = <<"$.required_operations[?">> \o name \o <<"]">>
        BY <3>2 DEF PathText!Text, PathText!MASKABLE_FIELDS, PathText!requirement_path
      <4> QED BY <2>2, <4>1
    <3>3. CASE path[1] = "stop_condition"
      <4>1. PathText!Text(path, name) = <<"$.stop_condition">>
        BY <3>3 DEF PathText!Text, PathText!MASKABLE_FIELDS, PathText!stop_condition_path
      <4> QED BY <4>1
    <3> QED BY <1>6, <3>1, <3>2, <3>3
  <2> QED BY <1>5, <2>1, <2>3
<1> QED BY <1>3, <1>4, <1>6 DEF PathKinds

\* Whatever the names, those of steps that hold a bracket excepted: a path that was
\* reported is read back as the step and the field it was written for, so the mask is
\* taken of what the validator meant.
THEOREM PathsAreReadBack == DiffusionSpec => []PathsReadBack
<1>1. PathsReadBack
  <2> SUFFICES ASSUME NEW path \in DetectedPaths(Errors(broken)), NEW name \in PathText!Name,
                      ~(PathText!Meant(path, name).step /\ PathText!Bracketed(name))
               PROVE  PathText!parse_path(PathText!Text(path, name)) = PathText!Meant(path, name)
    BY DEF PathsReadBack
  <2>1. \E S : name \in Seq(S)
    <3> DEFINE S == Letters \cup {"]", ".", PathText!STEP} \cup PathText!MASKABLE_FIELDS
    <3>1. PICK m \in 0 .. MaxName : name \in [1 .. m -> S]
      BY DEF PathText!Name, PathText!BoundedSeq, PathText!SeqOf
    <3> HIDE DEF S
    <3>2. m \in Nat
      OBVIOUS
    <3>3. name \in Seq(S)
      BY <3>1, <3>2
    <3> QED BY <3>3
  <2>2. path[1] \in PathKinds
    BY PathsHaveKinds
  <2> QED BY <2>1, <2>2, TextReadsBack
<1> QED BY <1>1, PTL

=============================================================================
