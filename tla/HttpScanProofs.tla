--------------------------- MODULE HttpScanProofs ---------------------------
EXTENDS HttpScan, FiniteSetTheorems, WellFoundedInduction, TLAPS

-----------------------------------------------------------------------------
(* Induction over the natural numbers, for sets: every non-empty set of    *)
(* numbers has a least element.                                            *)

Below == {p \in Nat \X Nat : p[1] < p[2]}

\* The order of the natural numbers is well-founded.
LEMMA BelowWellFounded == IsWellFoundedOn(Below, Nat)
BY NatLessThanWellFounded DEF OpToRel, Below

\* A set with 0 and with the successor of each of its numbers has them all.
LEMMA NatSetInduction ==
  ASSUME NEW T, 0 \in T, \A n \in Nat : n \in T => n + 1 \in T
  PROVE Nat \subseteq T
<1> DEFINE U == {n \in Nat : n \notin T}
<1> SUFFICES ASSUME U # {} PROVE FALSE
  OBVIOUS
<1>1. PICK x \in U : \A y \in U : ~ (<<y, x>> \in Below)
  <2>1. U \subseteq Nat OBVIOUS
  <2> HIDE DEF U
  <2> QED BY BelowWellFounded, <2>1, WFMin
<1>2. x \in Nat /\ x # 0 /\ x - 1 \in Nat BY <1>1
<1>3. x - 1 \in T => x \in T
  <2>1. (x - 1) + 1 = x BY <1>2
  <2> QED BY <1>2, <2>1
<1>4. x - 1 \in U BY <1>1, <1>2, <1>3
<1>5. <<x - 1, x>> \in Below BY <1>2 DEF Below
<1> QED BY <1>1, <1>4, <1>5

\* The values of a recursive function are in a set its steps do not leave.
LEMMA StepType ==
  ASSUME NEW n \in Nat, NEW f, NEW S,
         f[0] \in S, \A i \in 1..n : f[i - 1] \in S => f[i] \in S
  PROVE \A i \in 0..n : f[i] \in S
<1> DEFINE T == {i \in Nat : i <= n => f[i] \in S}
<1>1. 0 \in T OBVIOUS
<1>2. ASSUME NEW i \in Nat, i \in T PROVE i + 1 \in T
  <2> SUFFICES ASSUME i + 1 <= n PROVE f[i + 1] \in S OBVIOUS
  <2>1. i + 1 \in 1..n /\ (i + 1) - 1 = i /\ i <= n OBVIOUS
  <2>2. f[i] \in S BY <1>2, <2>1
  <2> QED BY <2>1, <2>2
<1>3. Nat \subseteq T
  <2> HIDE DEF T
  <2> QED BY <1>1, <1>2, NatSetInduction
<1> QED BY <1>3

\* g follows the equations of a primitive recursion up to n, with values in S.
Follows(g, n, S, b, step) ==
  /\ g \in [0..n -> S]
  /\ g[0] = b
  /\ \A i \in 1..n : g[i] = step[i][g[i - 1]]

\* Primitive recursion with values in a set: such a function exists.
LEMMA Recursion ==
  ASSUME NEW S, NEW b \in S, NEW n \in Nat, NEW step \in [1..n -> [S -> S]]
  PROVE \E g : Follows(g, n, S, b, step)
<1> DEFINE T == {m \in Nat : m <= n => \E g : Follows(g, m, S, b, step)}
<1>1. 0 \in T
  <2>1. Follows([i \in 0..0 |-> b], 0, S, b, step) BY DEF Follows
  <2> QED BY <2>1
<1>2. ASSUME NEW m \in Nat, m \in T PROVE m + 1 \in T
  <2> SUFFICES ASSUME m + 1 <= n PROVE \E g : Follows(g, m + 1, S, b, step) OBVIOUS
  <2>1. PICK g : Follows(g, m, S, b, step) BY <1>2
  <2> DEFINE h == [i \in 0..(m + 1) |-> IF i <= m THEN g[i] ELSE step[m + 1][g[m]]]
  <2>2. g[m] \in S /\ m + 1 \in 1..n BY <2>1 DEF Follows
  <2>3. step[m + 1][g[m]] \in S BY <2>2
  <2>4. h \in [0..(m + 1) -> S] BY <2>1, <2>3 DEF Follows
  <2>5. h[0] = b BY <2>1 DEF Follows
  <2>6. ASSUME NEW i \in 1..(m + 1) PROVE h[i] = step[i][h[i - 1]]
    <3>1. h[i - 1] = g[i - 1] BY <2>6
    <3>2. CASE i <= m
      <4>1. h[i] = g[i] /\ i \in 1..m BY <3>2, <2>6
      <4> QED BY <4>1, <3>1, <2>1 DEF Follows
    <3>3. CASE ~(i <= m)
      <4>1. i = m + 1 /\ i - 1 = m BY <3>3, <2>6
      <4>2. h[i] = step[m + 1][g[m]] BY <4>1
      <4> QED BY <4>1, <4>2, <3>1
    <3> QED BY <3>2, <3>3
  <2>7. Follows(h, m + 1, S, b, step)
    <3> HIDE DEF h
    <3> QED BY <2>4, <2>5, <2>6 DEF Follows
  <2> QED BY <2>7
<1>3. Nat \subseteq T
  <2> HIDE DEF T
  <2> QED BY <1>1, <1>2, NatSetInduction
<1> QED BY <1>3

-----------------------------------------------------------------------------
(* The model's operators return sequences. *)

\* Pick keeps the elements at its positions.
LEMMA PickFrom ==
  ASSUME NEW S, NEW s \in Seq(S), NEW at
  PROVE Pick(s, at) \in Seq({s[i] : i \in (DOMAIN s) \cap at})
<1> DEFINE n == Len(s)
           V == Seq({s[i] : i \in (DOMAIN s) \cap at})
           b == <<>>
           Body(i, x) == IF i \in at THEN Append(x, s[i]) ELSE x
           Is(g) == g = [i \in 0..n |-> IF i = 0 THEN b ELSE Body(i, g[i - 1])]
           kept == CHOOSE g : Is(g)
           step == [i \in 1..n |-> [x \in V |-> Body(i, x)]]
<1>1. n \in Nat /\ b \in V OBVIOUS
<1>2. ASSUME NEW i \in 1..n, NEW x \in V PROVE Body(i, x) \in V
  <2>1. i \in at => s[i] \in {s[k] : k \in (DOMAIN s) \cap at} OBVIOUS
  <2> QED BY <2>1
<1>3. Pick(s, at) = kept[n] BY DEF Pick
<1> HIDE DEF n, V, b, Body
<1>4. PICK g : Follows(g, n, V, b, step)
  <2>1. step \in [1..n -> [V -> V]] BY <1>2
  <2> HIDE DEF step
  <2> QED BY <1>1, <2>1, Recursion
<1>5. Is(g)
  <2>1. ASSUME NEW i \in 1..n PROVE g[i] = Body(i, g[i - 1])
    <3>1. g[i - 1] \in V BY <1>1, <1>4 DEF Follows
    <3>2. step[i][g[i - 1]] = Body(i, g[i - 1]) BY <3>1
    <3> HIDE DEF step
    <3> QED BY <3>2, <1>4 DEF Follows
  <2> HIDE DEF step
  <2> QED BY <1>1, <1>4, <2>1 DEF Follows
<1>6. Is(kept)
  <2> HIDE DEF Is
  <2> QED BY <1>5
<1> HIDE DEF kept
<1>7. kept[0] \in V BY <1>6, <1>1
<1>8. ASSUME NEW i \in 1..n, kept[i - 1] \in V PROVE kept[i] \in V
  <2>1. kept[i] = Body(i, kept[i - 1]) BY <1>6, <1>1
  <2> QED BY <2>1, <1>2, <1>8
<1>9. kept[n] \in V
  <2>1. \A i \in 0..n : kept[i] \in V BY <1>1, <1>7, <1>8, StepType, Zenon
  <2> QED BY <2>1, <1>1
<1> QED BY <1>3, <1>9 DEF V

\* Pick keeps elements of its sequence.
LEMMA PickType ==
  ASSUME NEW S, NEW s \in Seq(S), NEW at
  PROVE Pick(s, at) \in Seq(S)
<1> DEFINE T == {s[i] : i \in (DOMAIN s) \cap at}
<1>1. Pick(s, at) \in Seq(T) BY PickFrom
<1>2. T \subseteq S OBVIOUS
<1> HIDE DEF T
<1> QED BY <1>1, <1>2

\* A part of a value of a set of JSON values, or nothing.
LEMMA SegmentGetType ==
  ASSUME NEW J, IsJson(J), Absent \in J, NEW j \in J, NEW seg
  PROVE SegmentGet(j, seg) \in J
<1> DEFINE k == seg.idx + 1
<1>1. SegmentGet(j, seg) = IF j.t = "obj" /\ seg.key \in DOMAIN j.v THEN j.v[seg.key]
                           ELSE IF j.t = "arr" /\ k \in DOMAIN j.v THEN j.v[k] ELSE Absent
  BY Zenon DEF SegmentGet
<1> HIDE DEF k
<1>2. CASE j.t = "obj" BY <1>1, <1>2 DEF IsJson
<1>3. CASE j.t = "arr"
  <2>1. j.v \in Seq(J) BY <1>3 DEF IsJson
  <2>2. k \in DOMAIN j.v => j.v[k] \in J BY <2>1
  <2> QED BY <1>1, <1>3, <2>2
<1> QED BY <1>1, <1>2, <1>3

\* A path leads to a JSON value or to nothing.
LEMMA JsonAtPathType ==
  ASSUME NEW J, IsJson(J), Absent \in J, NEW body \in J, NEW path, IsVec(path)
  PROVE JsonAtPath(body, path) \in J
<1> DEFINE n == Len(path)
           V == J
           b == body
           Body(i, x) == SegmentGet(x, path[i])
           Is(g) == g = [i \in 0..n |-> IF i = 0 THEN b ELSE Body(i, g[i - 1])]
           value == CHOOSE g : Is(g)
           step == [i \in 1..n |-> [x \in V |-> Body(i, x)]]
<1>1. n \in Nat /\ b \in V BY DEF IsVec
<1>2. ASSUME NEW i \in 1..n, NEW x \in V PROVE Body(i, x) \in V
  BY SegmentGetType
<1>3. JsonAtPath(body, path) = value[n] BY DEF JsonAtPath
<1> HIDE DEF n, V, b, Body
<1>4. PICK g : Follows(g, n, V, b, step)
  <2>1. step \in [1..n -> [V -> V]] BY <1>2
  <2> HIDE DEF step
  <2> QED BY <1>1, <2>1, Recursion
<1>5. Is(g)
  <2>1. ASSUME NEW i \in 1..n PROVE g[i] = Body(i, g[i - 1])
    <3>1. g[i - 1] \in V BY <1>1, <1>4 DEF Follows
    <3>2. step[i][g[i - 1]] = Body(i, g[i - 1]) BY <3>1
    <3> HIDE DEF step
    <3> QED BY <3>2, <1>4 DEF Follows
  <2> HIDE DEF step
  <2> QED BY <1>1, <1>4, <2>1 DEF Follows
<1>6. Is(value)
  <2> HIDE DEF Is
  <2> QED BY <1>5
<1> HIDE DEF value
<1>7. value[0] \in V BY <1>6, <1>1
<1>8. ASSUME NEW i \in 1..n, value[i - 1] \in V PROVE value[i] \in V
  <2>1. value[i] = Body(i, value[i - 1]) BY <1>6, <1>1
  <2> QED BY <2>1, <1>2, <1>8
<1>9. value[n] \in V
  <2>1. \A i \in 0..n : value[i] \in V BY <1>1, <1>7, <1>8, StepType, Zenon
  <2> QED BY <2>1, <1>1
<1> QED BY <1>3, <1>9 DEF V

\* A JSON object's entries are finitely many rows.
LEMMA DictEntriesVec ==
  ASSUME NEW J, IsJson(J), NEW j \in J
  PROVE IsVec(DictEntries(j))
<1>1. CASE j.t # "obj" BY <1>1 DEF DictEntries, IsVec
<1>2. CASE j.t = "obj"
  <2> DEFINE D == DOMAIN j.v
             n == Cardinality(D)
             keys == SetToSeq(D)
  <2>1. IsFiniteSet(D) BY <1>2 DEF IsJson
  <2>2. n \in Nat /\ ExistsBijection(1..n, D) BY <2>1, FS_CardinalityType
  <2>3. \E f \in [1..n -> D] : IsInjective(f)
    BY <2>2 DEF ExistsBijection, Bijection, Injection
  <2>4. keys \in [1..n -> D] BY <2>3 DEF SetToSeq
  <2>5. DOMAIN keys = 1..n BY <2>4
  <2> DEFINE F == [i \in DOMAIN keys |->
                     IF j.v[keys[i]].t = "obj" THEN SetAtPath(j.v[keys[i]], "_key", JTxt(keys[i]))
                     ELSE JObj([_key |-> JTxt(keys[i]), _value |-> j.v[keys[i]]])]
  <2>6. DictEntries(j) = F BY <1>2 DEF DictEntries
  <2>7. DOMAIN F = 1..n BY <2>5
  <2>8. F = [i \in DOMAIN F |-> F[i]] OBVIOUS
  <2> HIDE DEF F, n, keys, D
  <2>9. F \in Seq(Range(F)) BY <2>2, <2>7, <2>8 DEF Range
  <2> QED BY <2>6, <2>9 DEF IsVec
<1> QED BY <1>1, <1>2

\* A sequence of anything is a Vec.
LEMMA SeqVec ==
  ASSUME NEW S, NEW s \in Seq(S)
  PROVE IsVec(s) /\ Len(s) \in Nat /\ DOMAIN s = 1..Len(s)
BY DEF IsVec, Range

\* Two Vecs one after the other.
LEMMA VecConcat ==
  ASSUME NEW a, NEW b, IsVec(a), IsVec(b)
  PROVE IsVec(a \o b) /\ Len(a \o b) = Len(a) + Len(b)
<1> DEFINE S == Range(a) \cup Range(b)
<1>1. a \in Seq(S) /\ b \in Seq(S) BY DEF IsVec
<1> HIDE DEF S
<1>2. a \o b \in Seq(S) BY <1>1
<1>3. IsVec(a \o b) BY <1>2, SeqVec
<1>4. Len(a \o b) = Len(a) + Len(b) BY <1>1
<1> QED BY <1>3, <1>4

\* A function on the positions of a Vec is a Vec of the same length.
LEMMA VecOver ==
  ASSUME NEW n \in Nat, NEW f, f = [i \in 1..n |-> f[i]]
  PROVE IsVec(f) /\ Len(f) = n
<1>1. f \in Seq(Range(f)) BY DEF Range
<1> QED BY <1>1 DEF IsVec

\* The points of a series that are pairs, and the row of one (SeriesPoints).
PairsOf(s, points) ==
  LET p == SegmentGet(s, Key(points)) IN
  IF p.t # "arr" THEN <<>>
  ELSE Pick(p.v, {i \in DOMAIN p.v : p.v[i].t = "arr" /\ Len(p.v[i].v) >= 2})
PointRow(s, x, points) ==
  JObj([k \in (DOMAIN s.v \ {points}) \cup {"timestamp", "value"} |->
          IF k = "timestamp" THEN x.v[1]
          ELSE IF k = "value" THEN x.v[2] ELSE s.v[k]])

\* The pairs of a series are JSON values.
LEMMA PairsType ==
  ASSUME NEW J, IsJson(J), Absent \in J, NEW s \in J, NEW points
  PROVE PairsOf(s, points) \in Seq(J)
<1> DEFINE p == SegmentGet(s, Key(points))
<1>1. p \in J BY SegmentGetType
<1> HIDE DEF p
<1>2. p.t = "arr" => p.v \in Seq(J) BY <1>1 DEF IsJson
<1>3. CASE p.t # "arr" BY <1>3 DEF PairsOf, p
<1>4. CASE p.t = "arr"
  <2> DEFINE at == {i \in DOMAIN p.v : p.v[i].t = "arr" /\ Len(p.v[i].v) >= 2}
  <2>1. PairsOf(s, points) = Pick(p.v, at) BY <1>4, Zenon DEF PairsOf, p
  <2> HIDE DEF at
  <2> QED BY <2>1, <1>2, <1>4, PickType
<1> QED BY <1>3, <1>4

\* The rows of the series of an array.
LEMMA SeriesRowsType ==
  ASSUME NEW J, IsJson(J), Absent \in J, NEW j \in J, NEW series, NEW points,
         SegmentGet(j, Key(series)).t = "arr"
  PROVE SeriesPoints(j, series, points) \in Seq({PointRow(s, x, points) : s \in J, x \in J})
<1> DEFINE arr == SegmentGet(j, Key(series)).v
           n == Len(arr)
           V == Seq({PointRow(s, x, points) : s \in J, x \in J})
           b == <<>>
           Row(m) == [i \in DOMAIN PairsOf(arr[m], points) |->
                        PointRow(arr[m], PairsOf(arr[m], points)[i], points)]
           Body(i, x) == x \o Row(i)
           Is(g) == g = [i \in 0..n |-> IF i = 0 THEN b ELSE Body(i, g[i - 1])]
           value == CHOOSE g : Is(g)
           step == [i \in 1..n |-> [x \in V |-> Body(i, x)]]
<1>0. arr \in Seq(J)
  <2>1. SegmentGet(j, Key(series)) \in J BY SegmentGetType
  <2> QED BY <2>1 DEF IsJson
<1>1. n \in Nat /\ b \in V BY <1>0
<1>2. ASSUME NEW i \in 1..n, NEW x \in V PROVE Body(i, x) \in V
  <2>1. arr[i] \in J BY <1>0
  <2>2. PairsOf(arr[i], points) \in Seq(J) BY <2>1, PairsType
  <2> HIDE DEF arr
  <2>3. Row(i) \in V BY <2>1, <2>2
  <2> HIDE DEF Row
  <2> QED BY <2>3
<1>3. SeriesPoints(j, series, points) = value[n] BY Zenon DEF SeriesPoints, PairsOf, PointRow
<1> HIDE DEF n, V, b, Body
<1>4. PICK g : Follows(g, n, V, b, step)
  <2>1. step \in [1..n -> [V -> V]] BY <1>2
  <2> HIDE DEF step
  <2> QED BY <1>1, <2>1, Recursion
<1>5. Is(g)
  <2>1. ASSUME NEW i \in 1..n PROVE g[i] = Body(i, g[i - 1])
    <3>1. g[i - 1] \in V BY <1>1, <1>4 DEF Follows
    <3>2. step[i][g[i - 1]] = Body(i, g[i - 1]) BY <3>1
    <3> HIDE DEF step
    <3> QED BY <3>2, <1>4 DEF Follows
  <2> HIDE DEF step
  <2> QED BY <1>1, <1>4, <2>1 DEF Follows
<1>6. Is(value)
  <2> HIDE DEF Is
  <2> QED BY <1>5
<1> HIDE DEF value
<1>7. value[0] \in V BY <1>6, <1>1
<1>8. ASSUME NEW i \in 1..n, value[i - 1] \in V PROVE value[i] \in V
  <2>1. value[i] = Body(i, value[i - 1]) BY <1>6, <1>1
  <2> QED BY <2>1, <1>2, <1>8
<1>9. value[n] \in V
  <2>1. \A i \in 0..n : value[i] \in V BY <1>1, <1>7, <1>8, StepType, Zenon
  <2> QED BY <2>1, <1>1
<1> QED BY <1>3, <1>9 DEF V

\* A page's rows are a Vec, whatever the JSON body and the table's path.
LEMMA ExtractRowsVec ==
  ASSUME NEW J, IsJson(J), Absent \in J, NEW body \in J, NEW response, IsVec(response.path)
  PROVE IsVec(ExtractRows(body, response))
<1> DEFINE at == JsonAtPath(body, response.path)
<1>1. at \in J BY JsonAtPathType
<1>2. IsVec(<<>>) /\ IsVec(<<at>>) /\ IsVec(<<Absent>>) BY DEF IsVec, Range
<1>3. IsVec(DictEntries(at)) BY <1>1, DictEntriesVec
<1>4. IsVec(SeriesPoints(at, "series", "points"))
  <2>1. CASE SegmentGet(at, Key("series")).t = "arr"
    <3> DEFINE U == {PointRow(s, x, "points") : s \in J, x \in J}
    <3>1. SeriesPoints(at, "series", "points") \in Seq(U) BY <1>1, <2>1, SeriesRowsType
    <3> HIDE DEF U
    <3> QED BY <3>1, SeqVec
  <2>2. CASE SegmentGet(at, Key("series")).t # "arr"
    <3>1. SeriesPoints(at, "series", "points") = <<>> BY <2>2, Zenon DEF SeriesPoints
    <3> QED BY <3>1, <1>2
  <2> QED BY <2>1, <2>2
<1>5. at.t = "arr" => IsVec(at.v) BY <1>1, SeqVec DEF IsJson
<1>6. ExtractRows(body, response) =
        CASE at.t = "absent" -> <<>>
          [] response.reshape = "dict_entries" -> DictEntries(at)
          [] response.reshape = "series_points" -> SeriesPoints(at, "series", "points")
          [] at.t = "arr" -> at.v
          [] at.t = "obj" -> <<at>>
          [] at.t = "null" -> <<>>
          [] OTHER -> <<Absent>>
  BY DEF ExtractRows
<1> HIDE DEF at
<1> QED BY <1>2, <1>3, <1>4, <1>5, <1>6

\* What a JSON value may hold, of a set.
IsJsonOver(j, J) ==
  /\ j.t = "arr" => j.v \in Seq(J)
  /\ j.t = "obj" => IsFiniteSet(DOMAIN j.v) /\ \A k \in DOMAIN j.v : j.v[k] \in J

\* Values built of JSON values are JSON.
LEMMA JsonGrows ==
  ASSUME NEW J, IsJson(J), NEW T, \A j \in T : IsJsonOver(j, J)
  PROVE IsJson(J \cup T)
<1> DEFINE K == J \cup T
<1>1. J \subseteq K OBVIOUS
<1>2. ASSUME NEW s \in Seq(J) PROVE s \in Seq(K) BY <1>1
<1>3. ASSUME NEW j \in K PROVE IsJsonOver(j, J)
  BY <1>3 DEF IsJson, IsJsonOver
<1>4. ASSUME NEW j \in K PROVE (j.t = "arr" => j.v \in Seq(K)) BY <1>2, <1>3 DEF IsJsonOver
<1>5. ASSUME NEW j \in K PROVE (j.t = "obj" => IsFiniteSet(DOMAIN j.v) /\ \A k \in DOMAIN j.v : j.v[k] \in K)
  BY <1>1, <1>3 DEF IsJsonOver
<1> HIDE DEF K
<1>6. IsJson(K) BY <1>4, <1>5 DEF IsJson
<1> QED BY <1>6 DEF K

\* Enumerated sets are finite.
LEMMA SmallSets ==
  ASSUME NEW x, NEW y, NEW z
  PROVE IsFiniteSet({x}) /\ IsFiniteSet({x, y}) /\ IsFiniteSet({x, y, z})
<1>1. IsFiniteSet({x}) BY FS_Singleton
<1>2. {x, y} = {x} \cup {y} /\ {x, y, z} = {x, y} \cup {z} OBVIOUS
<1>3. IsFiniteSet({x} \cup {y}) BY <1>1, FS_AddElement
<1>4. IsFiniteSet({x, y} \cup {z}) BY <1>2, <1>3, FS_AddElement
<1> QED BY <1>1, <1>2, <1>3, <1>4

\* The rows of the API: JSON objects with the fields its pages are built of.
ApiRows == {r \in Json : r.t = "obj" /\ {"id", "owner", "size"} \subseteq DOMAIN r.v}

\* A page of rows, as the API lays it out, is JSON.
LEMMA EnvelopeJson ==
  ASSUME c \in Cases, NEW shown \in Seq(ApiRows)
  PROVE \E J : IsJson(J) /\ {Absent, JNull} \subseteq J /\ Envelope(shown) \in J
<1> DEFINE J0 == Json \cup {Absent, JNull}
<1>1. IsJson(J0)
  <2>1. \A j \in {Absent, JNull} : IsJsonOver(j, Json) BY DEF IsJsonOver, Absent, JNull
  <2> QED BY <2>1, JsonAssumption, JsonGrows
<1>2. Json \subseteq J0 /\ {Absent, JNull} \subseteq J0 OBVIOUS
<1>3. ApiRows \subseteq Json BY DEF ApiRows
<1>4. \A r \in ApiRows : r.v["id"] \in Json /\ r.v["owner"] \in Json /\ r.v["size"] \in Json
  BY JsonAssumption DEF ApiRows, IsJson
<1>5. DOMAIN shown = 1..Len(shown) /\ Len(shown) \in Nat /\ \A i \in DOMAIN shown : shown[i] \in ApiRows
  OBVIOUS
<1> HIDE DEF J0
<1>6. CASE c.spec.response.reshape = "dict_entries"
  <2> DEFINE D == {IdText(shown[i]) : i \in DOMAIN shown}
             f == [k \in D |-> shown[CHOOSE i \in DOMAIN shown : IdText(shown[i]) = k]]
  <2>1. Envelope(shown) = JObj(f) BY <1>6, Zenon DEF Envelope
  <2>2. IsFiniteSet(D)
    <3> DEFINE g == [i \in DOMAIN shown |-> IdText(shown[i])]
    <3>1. g \in Surjection(DOMAIN shown, D) BY DEF Surjection
    <3>2. IsFiniteSet(DOMAIN shown) BY <1>5, FS_Interval
    <3> HIDE DEF g, D
    <3> QED BY <3>1, <3>2, FS_Surjection DEF ExistsSurjection
  <2>3. ASSUME NEW k \in D PROVE f[k] \in J0
    <3>1. \E i \in DOMAIN shown : IdText(shown[i]) = k BY <2>3
    <3>2. (CHOOSE i \in DOMAIN shown : IdText(shown[i]) = k) \in DOMAIN shown BY <3>1
    <3> QED BY <3>2, <1>2, <1>3, <1>5
  <2> HIDE DEF D
  <2>4. DOMAIN f = D OBVIOUS
  <2> HIDE DEF f
  <2>5. IsJsonOver(JObj(f), J0) BY <2>2, <2>3, <2>4 DEF IsJsonOver, JObj
  <2>6. IsJson(J0 \cup {JObj(f)}) BY <1>1, <2>5, JsonGrows
  <2> QED BY <1>2, <2>1, <2>6
<1>7. CASE c.spec.response.reshape = "series_points"
  <2> DEFINE blank == JArr(<<JNull>>)
             Pair(r) == JArr(<<r.v["id"], r.v["size"]>>)
             Points(r) == JArr(<<Pair(r), blank>>)
             J1 == J0 \cup ({blank} \cup {Pair(r) : r \in ApiRows})
             J2 == J1 \cup {Points(r) : r \in ApiRows}
             J3 == J2 \cup {Series(r) : r \in ApiRows}
             all == JArr([i \in DOMAIN shown |-> Series(shown[i])])
             J4 == J3 \cup {all}
             J5 == J4 \cup {JObj([series |-> all])}
  <2>1. Envelope(shown) = JObj([series |-> all]) BY <1>7, Zenon DEF Envelope
  <2>2. IsJson(J1)
    <3>1. IsJsonOver(blank, J0) BY <1>2 DEF IsJsonOver, JArr
    <3>2. ASSUME NEW r \in ApiRows PROVE IsJsonOver(Pair(r), J0) BY <1>2, <1>4 DEF IsJsonOver, JArr
    <3> HIDE DEF blank, Pair
    <3> QED BY <3>1, <3>2, <1>1, JsonGrows
  <2>3. IsJson(J2)
    <3>1. ASSUME NEW r \in ApiRows PROVE IsJsonOver(Points(r), J1)
      <4>1. Pair(r) \in J1 /\ blank \in J1 OBVIOUS
      <4> HIDE DEF J1, Pair, blank
      <4> QED BY <4>1 DEF IsJsonOver, JArr
    <3> HIDE DEF J1, Points
    <3> QED BY <3>1, <2>2, JsonGrows
  <2>4. IsJson(J3)
    <3>1. ASSUME NEW r \in ApiRows PROVE IsJsonOver(Series(r), J2)
      <4>1. Points(r) \in J2 /\ r.v["owner"] \in J2 BY <1>4, <1>2
      <4> DEFINE o == r.v["owner"]
                 p == Points(r)
      <4>2. Series(r) = JObj([owner |-> o, points |-> p]) BY DEF Series
      <4> HIDE DEF o, p, J2
      <4> DEFINE f == [owner |-> o, points |-> p]
      <4>3. DOMAIN f = {"owner", "points"} /\ f["owner"] = o /\ f["points"] = p OBVIOUS
      <4>4. IsFiniteSet({"owner", "points"}) BY SmallSets
      <4>5. \A k \in DOMAIN f : f[k] \in J2 BY <4>1, <4>3 DEF o, p
      <4> HIDE DEF f
      <4> QED BY <4>2, <4>3, <4>4, <4>5 DEF IsJsonOver, JObj, f
    <3> HIDE DEF J2
    <3> QED BY <3>1, <2>3, JsonGrows
  <2>5. IsJson(J4)
    <3>1. \A r \in ApiRows : Series(r) \in J3 OBVIOUS
    <3> HIDE DEF J3
    <3>2. [i \in DOMAIN shown |-> Series(shown[i])] \in Seq(J3) BY <3>1, <1>5
    <3>3. IsJsonOver(all, J3) BY <3>2 DEF IsJsonOver, JArr
    <3> HIDE DEF all
    <3> QED BY <3>3, <2>4, JsonGrows
  <2>6. IsJson(J5)
    <3>1. all \in J4 OBVIOUS
    <3> HIDE DEF J4, all
    <3> DEFINE f == [series |-> all]
    <3>2. DOMAIN f = {"series"} /\ \A k \in DOMAIN f : f[k] \in J4 BY <3>1
    <3>3. IsFiniteSet({"series"}) BY SmallSets
    <3> HIDE DEF f
    <3>4. IsJsonOver(JObj(f), J4) BY <3>2, <3>3 DEF IsJsonOver, JObj
    <3> QED BY <3>4, <2>5, JsonGrows DEF f
  <2>7. {Absent, JNull} \subseteq J5 BY <1>2
  <2>8. JObj([series |-> all]) \in J5 OBVIOUS
  <2> HIDE DEF J5, all
  <2> QED BY <2>1, <2>6, <2>7, <2>8
<1>8. CASE c.spec.response.reshape \notin {"dict_entries", "series_points"}
  <2>1. Envelope(shown) = JArr(shown) BY <1>8 DEF Envelope
  <2>2. shown \in Seq(J0) BY <1>2, <1>3
  <2>3. IsJsonOver(JArr(shown), J0) BY <2>2 DEF IsJsonOver, JArr
  <2>4. IsJson(J0 \cup {JArr(shown)}) BY <1>1, <2>3, JsonGrows
  <2> QED BY <1>2, <2>1, <2>4
<1> QED BY <1>6, <1>7, <1>8

\* Every answer's body is JSON.
LEMMA PageBodyJson ==
  ASSUME c \in Cases, NEW call, NEW h
  PROVE \E J : IsJson(J) /\ Absent \in J /\ PageOf(call, h).body \in J
<1>1. c.api.data \in Seq(ApiRows)
  <2>1. c.api.data \in Seq(Json) /\ \A i \in DOMAIN c.api.data : c.api.data[i] \in ApiRows
    BY CasesAssumption DEF ApiRows
  <2> QED BY <2>1
<1>2. \A at : Pick(c.api.data, at) \in Seq(ApiRows) BY <1>1, PickType
<1>3. Selected(call) \in Seq(ApiRows) BY <1>2, Zenon DEF Selected
<1>4. \A at : Pick(Selected(call), at) \in Seq(ApiRows) BY <1>3, PickType
<1> DEFINE all == Selected(call)
           from == IF c.api.behaviour = "endless" THEN 0 ELSE StartOf(call, all)
           to == IF from + c.api.size > Len(all) THEN Len(all) ELSE from + c.api.size
           more == to < Len(all) \/ c.api.behaviour # "honest"
           next == IF c.api.behaviour = "endless" THEN page + 1
                   ELSE IF c.api.behaviour = "stuck" THEN c.api.size ELSE to
           shown == Pick(all, (from + 1)..to)
           cur == IF more THEN JNum(next) ELSE JNull
           f == [data |-> Envelope(shown), next |-> cur, more |-> JBool(more)]
<1>5. PageOf(call, h).body = JObj(f) BY DEF PageOf, Reply
<1>6. shown \in Seq(ApiRows) BY <1>4
<1>7. IsJsonOver(cur, {}) /\ IsJsonOver(JBool(more), {}) BY DEF IsJsonOver, JNum, JNull, JBool
<1> HIDE DEF shown, cur, more
<1>8. PICK J : IsJson(J) /\ {Absent, JNull} \subseteq J /\ Envelope(shown) \in J BY <1>6, EnvelopeJson
<1> DEFINE J1 == J \cup {cur, JBool(more)}
<1>9. IsJson(J1)
  <2>1. \A j \in {cur, JBool(more)} : IsJsonOver(j, J) BY <1>7 DEF IsJsonOver
  <2> QED BY <2>1, <1>8, JsonGrows
<1>10. IsJsonOver(JObj(f), J1)
  <2>1. DOMAIN f = {"data", "next", "more"} OBVIOUS
  <2>2. IsFiniteSet(DOMAIN f) BY <2>1, SmallSets
  <2>3. \A k \in DOMAIN f : f[k] \in J1 BY <1>8
  <2> HIDE DEF f, J1
  <2> QED BY <2>2, <2>3 DEF IsJsonOver, JObj
<1> HIDE DEF f
<1>11. IsJson(J1 \cup {JObj(f)}) BY <1>9, <1>10, JsonGrows
<1>12. Absent \in J1 \cup {JObj(f)} BY <1>8
<1> QED BY <1>5, <1>11, <1>12

\* So is the body of a failure.
LEMMA FailureBodyJson ==
  ASSUME NEW kind, NEW h
  PROVE \E J : IsJson(J) /\ Absent \in J /\ Failure(kind, h).body \in J
<1> DEFINE m == JTxt("failed")
           f == [message |-> m]
           J0 == {Absent, m}
<1>1. IsJson(J0) BY DEF IsJson, Absent, JTxt
<1>2. IsJsonOver(JObj(f), J0)
  <2>1. DOMAIN f = {"message"} OBVIOUS
  <2>2. IsFiniteSet(DOMAIN f) BY <2>1, SmallSets
  <2>3. \A k \in DOMAIN f : f[k] \in J0 OBVIOUS
  <2> HIDE DEF f, J0
  <2> QED BY <2>2, <2>3 DEF IsJsonOver, JObj
<1>3. IsJson(J0 \cup {JObj(f)})
  <2> HIDE DEF J0, f
  <2> QED BY <1>1, <1>2, JsonGrows
<1>4. Failure(kind, h).body \in {Absent, JObj(f)} BY DEF Failure, Reply
<1> QED BY <1>3, <1>4

-----------------------------------------------------------------------------
(* The bindings of a scan are a Vec. *)

\* Picked elements of a Vec are a Vec, of those that were picked.
LEMMA PickVec ==
  ASSUME NEW s, IsVec(s), NEW at
  PROVE /\ IsVec(Pick(s, at))
        /\ \A i \in DOMAIN Pick(s, at) : \E k \in (DOMAIN s) \cap at : Pick(s, at)[i] = s[k]
<1> DEFINE T == {s[i] : i \in (DOMAIN s) \cap at}
           p == Pick(s, at)
<1>1. p \in Seq(T) BY PickFrom DEF IsVec
<1>2. IsVec(p)
  <2> HIDE DEF T, p
  <2> QED BY <1>1, SeqVec
<1>3. ASSUME NEW i \in DOMAIN p PROVE p[i] \in T
  <2> HIDE DEF T, p
  <2> QED BY <1>1, <1>3
<1> HIDE DEF p
<1>4. \A i \in DOMAIN p : \E k \in (DOMAIN s) \cap at : p[i] = s[k] BY <1>3
<1> QED BY <1>2, <1>4 DEF p

\* A list filter gives a Vec of values.
LEMMA ExtractInListVec ==
  ASSUME NEW e, IsFilter(e), ExtractInList(e) # <<>>
  PROVE IsVec(ExtractInList(e)[2])
<1>1. CASE e.f = "in" /\ ~e.negated /\ NoText \notin Range(e.vals)
  BY <1>1 DEF ExtractInList, IsFilter
<1>2. CASE ~(e.f = "in" /\ ~e.negated /\ NoText \notin Range(e.vals))
  <2> DEFINE vals == [i \in DOMAIN e.eqs |-> e.eqs[i][2]]
  <2>1. e.f = "or" /\ ExtractInList(e)[2] = vals BY <1>2 DEF ExtractInList
  <2>2. IsVec(e.eqs) BY <2>1 DEF IsFilter
  <2>3. Len(e.eqs) \in Nat /\ DOMAIN e.eqs = 1..Len(e.eqs) BY <2>2 DEF IsVec
  <2>4. IsVec(vals) BY <2>3, VecOver
  <2> QED BY <2>1, <2>4
<1> QED BY <1>1, <1>2

\* The lists over parameters are a Vec of names with Vecs.
LEMMA ListsVec ==
  ASSUME NEW spec, NEW filters, IsVec(filters), \A i \in DOMAIN filters : IsFilter(filters[i]), NEW how
  PROVE /\ IsVec(Lists(spec, filters, how))
        /\ \A i \in DOMAIN Lists(spec, filters, how) : IsVec(Lists(spec, filters, how)[i][2])
<1> DEFINE in == [i \in DOMAIN filters |-> ExtractInList(filters[i])]
           Goes(i) == /\ in[i] # <<>>
                      /\ \E p \in ParamsNamed(spec, in[i][1]) :
                           LET path == IsPathParam(spec, in[i][1])
                               explodes == p.explode /\ ~path
                           IN IF how = "explode" THEN explodes
                              ELSE ~explodes /\ (p.required \/ path)
           at == {i \in DOMAIN in : Goes(i)}
           L == Pick(in, at)
<1>1. Lists(spec, filters, how) = L BY DEF Lists
<1>2. Len(filters) \in Nat /\ DOMAIN filters = 1..Len(filters) BY DEF IsVec
<1>3. IsVec(in) BY <1>2, VecOver
<1>4. ASSUME NEW i \in (DOMAIN in) \cap at PROVE IsVec(in[i][2])
  <2>1. i \in DOMAIN filters /\ in[i] # <<>> OBVIOUS
  <2>2. in[i] = ExtractInList(filters[i]) BY <2>1
  <2> HIDE DEF in, at
  <2> QED BY <2>1, <2>2, ExtractInListVec
<1> HIDE DEF in, at
<1>5. IsVec(L) /\ \A i \in DOMAIN L : \E k \in (DOMAIN in) \cap at : L[i] = in[k] BY <1>3, PickVec
<1> HIDE DEF L
<1>6. \A i \in DOMAIN L : IsVec(L[i][2]) BY <1>4, <1>5
<1> QED BY <1>1, <1>5, <1>6

\* expand_fanout returns a Vec.
LEMMA ExpandFanoutVec ==
  ASSUME NEW base, NEW fanout, IsVec(fanout), \A i \in DOMAIN fanout : IsVec(fanout[i][2])
  PROVE IsVec(ExpandFanout(base, fanout))
<1> DEFINE n == Len(fanout)
           b == <<base>>
           Pairs(i, x) == [k \in 1..(Len(x) * Len(fanout[i][2])) |->
                             Put(x[FirstAt(k, fanout[i][2])], fanout[i][1], fanout[i][2][SecondAt(k, fanout[i][2])])]
           Body(i, x) == Pairs(i, x)
           UpTo(m, g) == g = [i \in 0..m |-> IF i = 0 THEN b ELSE Body(i, g[i - 1])]
           value == CHOOSE g : UpTo(n, g)
           Some == {m \in Nat : \E g : UpTo(m, g)}
           Typed == {m \in Nat : m <= n => IsVec(value[m])}
<1>1. n \in Nat BY DEF IsVec
<1>2. IsVec(b) BY DEF IsVec, Range
<1>3. ASSUME NEW i \in 1..n, NEW x, IsVec(x) PROVE IsVec(Body(i, x))
  <2>1. i \in DOMAIN fanout BY DEF IsVec
  <2>2. Len(x) \in Nat BY <1>3 DEF IsVec
  <2>3. Len(fanout[i][2]) \in Nat BY <2>1 DEF IsVec
  <2>4. Len(x) * Len(fanout[i][2]) \in Nat BY <2>2, <2>3
  <2> QED BY <2>4, VecOver
<1>4. ExpandFanout(base, fanout) = value[n] BY DEF ExpandFanout
<1> HIDE DEF n, b, Body
<1>5. 0 \in Some
  <2>1. UpTo(0, [i \in 0..0 |-> b]) OBVIOUS
  <2> HIDE DEF UpTo
  <2> QED BY <2>1
<1>6. ASSUME NEW m \in Nat, m \in Some PROVE m + 1 \in Some
  <2>1. PICK g : UpTo(m, g)
    <3> HIDE DEF UpTo
    <3> QED BY <1>6
  <2> DEFINE h == [i \in 0..(m + 1) |-> IF i <= m THEN g[i] ELSE Body(m + 1, g[m])]
  <2>2. ASSUME NEW i \in 0..(m + 1)
        PROVE h[i] = IF i = 0 THEN b ELSE Body(i, h[i - 1])
    <3>1. CASE i = 0 BY <3>1, <2>1
    <3>2. CASE i \in 1..m
      <4>1. h[i] = g[i] /\ h[i - 1] = g[i - 1] /\ i # 0 BY <3>2
      <4>2. g[i] = Body(i, g[i - 1]) BY <2>1, <3>2
      <4> QED BY <4>1, <4>2
    <3>3. CASE i = m + 1
      <4>1. h[i] = Body(m + 1, g[m]) /\ h[i - 1] = g[m] /\ i # 0 BY <3>3
      <4> QED BY <4>1, <3>3
    <3> QED BY <3>1, <3>2, <3>3
  <2>3. h = [i \in 0..(m + 1) |-> h[i]] OBVIOUS
  <2> HIDE DEF h
  <2>4. UpTo(m + 1, h) BY <2>2, <2>3
  <2> HIDE DEF UpTo
  <2> QED BY <2>4
<1>7. UpTo(n, value)
  <2>1. Nat \subseteq Some
    <3> HIDE DEF Some
    <3> QED BY <1>5, <1>6, NatSetInduction
  <2> HIDE DEF UpTo
  <2> QED BY <2>1, <1>1
<1> HIDE DEF value
<1>8. 0 \in Typed BY <1>1, <1>2, <1>7
<1>9. ASSUME NEW m \in Nat, m \in Typed PROVE m + 1 \in Typed
  <2> SUFFICES ASSUME m + 1 <= n PROVE IsVec(value[m + 1]) OBVIOUS
  <2> HIDE DEF UpTo
  <2>0. m <= n /\ m + 1 \in 1..n BY <1>1
  <2>1. IsVec(value[m]) BY <1>9, <2>0
  <2>2. value[m + 1] = Body(m + 1, value[m]) BY <1>1, <1>7, <2>0 DEF UpTo
  <2> QED BY <2>0, <2>1, <2>2, <1>3
<1>10. IsVec(value[n])
  <2>1. Nat \subseteq Typed
    <3> HIDE DEF Typed
    <3> QED BY <1>8, <1>9, NatSetInduction
  <2> QED BY <2>1, <1>1
<1> QED BY <1>4, <1>10

\* The literals a filter of the raw table pins a column to.
PinnedTo(e, col) ==
  CASE e.f = "cmp" /\ e.op = "=" /\ e.col = col /\ e.val # NoText -> <<e.val>>
    [] e.f = "in" /\ ~e.negated /\ e.col = col ->
         Pick(e.vals, {j \in DOMAIN e.vals : e.vals[j] # NoText})
    [] e.f = "or" -> Pick([j \in DOMAIN e.eqs |-> e.eqs[j][2]],
                          {j \in DOMAIN e.eqs : e.eqs[j][1] = col /\ e.eqs[j][2] # NoText})
    [] OTHER -> <<>>

\* They are a Vec.
LEMMA PinnedVec ==
  ASSUME NEW e, IsFilter(e), NEW col
  PROVE IsVec(PinnedTo(e, col))
<1> DEFINE P1 == e.f = "cmp" /\ e.op = "=" /\ e.col = col /\ e.val # NoText
           P2 == e.f = "in" /\ ~e.negated /\ e.col = col
           P3 == e.f = "or"
<1>1. CASE P1
  <2>1. PinnedTo(e, col) = <<e.val>> BY <1>1, Zenon DEF PinnedTo
  <2> QED BY <2>1 DEF IsVec, Range
<1>2. CASE P2
  <2> DEFINE at == {j \in DOMAIN e.vals : e.vals[j] # NoText}
  <2>1. PinnedTo(e, col) = Pick(e.vals, at) BY <1>2 DEF PinnedTo
  <2>2. IsVec(e.vals) BY <1>2 DEF IsFilter
  <2> HIDE DEF at
  <2> QED BY <2>1, <2>2, PickVec
<1>3. CASE P3
  <2> DEFINE at == {j \in DOMAIN e.eqs : e.eqs[j][1] = col /\ e.eqs[j][2] # NoText}
             vals == [j \in DOMAIN e.eqs |-> e.eqs[j][2]]
  <2>1. PinnedTo(e, col) = Pick(vals, at) BY <1>3 DEF PinnedTo
  <2>2. IsVec(e.eqs) BY <1>3 DEF IsFilter
  <2>3. Len(e.eqs) \in Nat /\ DOMAIN e.eqs = 1..Len(e.eqs) BY <2>2 DEF IsVec
  <2>4. IsVec(vals) BY <2>3, VecOver
  <2> HIDE DEF at, vals
  <2> QED BY <2>1, <2>4, PickVec
<1>4. CASE ~P1 /\ ~P2 /\ ~P3
  <2>1. PinnedTo(e, col) = <<>> BY <1>4, Zenon DEF PinnedTo
  <2> QED BY <2>1 DEF IsVec, Range
<1> QED BY <1>1, <1>2, <1>3, <1>4

\* collect_eq_or_in returns a Vec.
LEMMA CollectEqOrInVec ==
  ASSUME NEW filters, IsVec(filters), \A i \in DOMAIN filters : IsFilter(filters[i]), NEW col
  PROVE IsVec(CollectEqOrIn(filters, col))
<1> DEFINE n == Len(filters)
           b == <<>>
           Body(i, x) == x \o PinnedTo(filters[i], col)
           UpTo(m, g) == g = [i \in 0..m |-> IF i = 0 THEN b ELSE Body(i, g[i - 1])]
           value == CHOOSE g : UpTo(n, g)
           Some == {m \in Nat : \E g : UpTo(m, g)}
           Typed == {m \in Nat : m <= n => IsVec(value[m])}
<1>1. n \in Nat BY DEF IsVec
<1>2. IsVec(b) BY DEF IsVec, Range
<1>3. ASSUME NEW i \in 1..n, NEW x, IsVec(x) PROVE IsVec(Body(i, x))
  <2>1. i \in DOMAIN filters BY DEF IsVec
  <2>2. IsVec(PinnedTo(filters[i], col)) BY <2>1, PinnedVec
  <2> QED BY <1>3, <2>2, VecConcat
<1>4. CollectEqOrIn(filters, col) = value[n] BY DEF CollectEqOrIn, PinnedTo
<1> HIDE DEF n, b, Body
<1>5. 0 \in Some
  <2>1. UpTo(0, [i \in 0..0 |-> b]) OBVIOUS
  <2> HIDE DEF UpTo
  <2> QED BY <2>1
<1>6. ASSUME NEW m \in Nat, m \in Some PROVE m + 1 \in Some
  <2>1. PICK g : UpTo(m, g)
    <3> HIDE DEF UpTo
    <3> QED BY <1>6
  <2> DEFINE h == [i \in 0..(m + 1) |-> IF i <= m THEN g[i] ELSE Body(m + 1, g[m])]
  <2>2. ASSUME NEW i \in 0..(m + 1)
        PROVE h[i] = IF i = 0 THEN b ELSE Body(i, h[i - 1])
    <3>1. CASE i = 0 BY <3>1, <2>1
    <3>2. CASE i \in 1..m
      <4>1. h[i] = g[i] /\ h[i - 1] = g[i - 1] /\ i # 0 BY <3>2
      <4>2. g[i] = Body(i, g[i - 1]) BY <2>1, <3>2
      <4> QED BY <4>1, <4>2
    <3>3. CASE i = m + 1
      <4>1. h[i] = Body(m + 1, g[m]) /\ h[i - 1] = g[m] /\ i # 0 BY <3>3
      <4> QED BY <4>1, <3>3
    <3> QED BY <3>1, <3>2, <3>3
  <2>3. h = [i \in 0..(m + 1) |-> h[i]] OBVIOUS
  <2> HIDE DEF h
  <2>4. UpTo(m + 1, h) BY <2>2, <2>3
  <2> HIDE DEF UpTo
  <2> QED BY <2>4
<1>7. UpTo(n, value)
  <2>1. Nat \subseteq Some
    <3> HIDE DEF Some
    <3> QED BY <1>5, <1>6, NatSetInduction
  <2> HIDE DEF UpTo
  <2> QED BY <2>1, <1>1
<1> HIDE DEF value
<1>8. 0 \in Typed BY <1>1, <1>2, <1>7
<1>9. ASSUME NEW m \in Nat, m \in Typed PROVE m + 1 \in Typed
  <2> SUFFICES ASSUME m + 1 <= n PROVE IsVec(value[m + 1]) OBVIOUS
  <2> HIDE DEF UpTo
  <2>0. m <= n /\ m + 1 \in 1..n BY <1>1
  <2>1. IsVec(value[m]) BY <1>9, <2>0
  <2>2. value[m + 1] = Body(m + 1, value[m]) BY <1>1, <1>7, <2>0 DEF UpTo
  <2> QED BY <2>0, <2>1, <2>2, <1>3
<1>10. IsVec(value[n])
  <2>1. Nat \subseteq Typed
    <3> HIDE DEF Typed
    <3> QED BY <1>8, <1>9, NatSetInduction
  <2> QED BY <2>1, <1>1
<1> QED BY <1>4, <1>10

\* The requests of the raw table are a Vec.
LEMMA RawRequestsVec ==
  ASSUME NEW filters, IsVec(filters), \A i \in DOMAIN filters : IsFilter(filters[i])
  PROVE IsVec(RawRequests(filters))
<1> DEFINE methods == CollectEqOrIn(filters, "method")
           asked == CollectEqOrIn(filters, "query")
           m == IF methods = <<>> THEN GET ELSE Head(methods)
           queries == IF asked = <<>> THEN <<None>> ELSE asked
           paths == CollectEqOrIn(filters, "path")
           n == Len(paths) * Len(queries)
           f == [k \in 1..n |-> [method |-> m, path |-> paths[FirstAt(k, queries)],
                                 query |-> queries[SecondAt(k, queries)]]]
<1>1. RawRequests(filters) = f BY DEF RawRequests
<1>2. IsVec(paths) /\ IsVec(asked) BY CollectEqOrInVec
<1> HIDE DEF methods, asked, paths
<1>3. Len(paths) \in Nat BY <1>2 DEF IsVec
<1>4. Len(queries) \in Nat BY <1>2 DEF IsVec
<1>5. n \in Nat BY <1>3, <1>4
<1> HIDE DEF n, m, queries
<1>6. IsVec(f) BY <1>5, VecOver
<1> QED BY <1>1, <1>6

\* The planner hands down a Vec of the query's filters.
LEMMA PushedVec ==
  ASSUME c \in Cases
  PROVE IsVec(Pushed) /\ \A i \in DOMAIN Pushed : IsFilter(Pushed[i])
<1> DEFINE at == {i \in DOMAIN c.filters : PushesDown(c.filters[i])}
<1>1. Pushed = Pick(c.filters, at) BY DEF Pushed
<1>2. IsVec(c.filters) /\ \A i \in DOMAIN c.filters : IsFilter(c.filters[i]) BY CasesAssumption
<1> HIDE DEF at
<1>3. /\ IsVec(Pushed)
      /\ \A i \in DOMAIN Pushed : \E k \in (DOMAIN c.filters) \cap at : Pushed[i] = c.filters[k]
  BY <1>1, <1>2, PickVec
<1> QED BY <1>2, <1>3

\* So are the keys of a dependent join.
LEMMA DistinctKeysVec ==
  ASSUME c \in Cases
  PROVE IsVec(DistinctKeys)
<1> DEFINE at == {i \in DOMAIN c.driver : /\ c.driver[i] # NoText
                                          /\ \A j \in 1..(i - 1) : c.driver[j] # c.driver[i]}
           keys == Pick(c.driver, at)
<1>1. DistinctKeys = IF LimitForChildren = None THEN keys ELSE Pick(keys, 1..LimitForChildren)
  BY DEF DistinctKeys
<1>2. IsVec(c.driver) BY CasesAssumption
<1> HIDE DEF at
<1>3. IsVec(keys) BY <1>2, PickVec
<1> HIDE DEF keys
<1>4. IsVec(Pick(keys, 1..LimitForChildren)) BY <1>3, PickVec
<1> QED BY <1>1, <1>3, <1>4

\* The filters the scan binds, with the join's list of keys.
LEMMA BoundFiltersVec ==
  ASSUME c \in Cases
  PROVE IsVec(BoundFilters) /\ \A i \in DOMAIN BoundFilters : IsFilter(BoundFilters[i])
<1>1. IsVec(Pushed) /\ \A i \in DOMAIN Pushed : IsFilter(Pushed[i]) BY PushedVec
<1> DEFINE e == [f |-> "in", negated |-> FALSE, col |-> c.joinKey, vals |-> DistinctKeys]
<1>2. IsFilter(e) BY DistinctKeysVec DEF IsFilter
<1>3. BoundFilters = IF Dependent THEN Append(Pushed, e) ELSE Pushed BY DEF BoundFilters
<1> HIDE DEF e
<1>4. IsVec(Append(Pushed, e)) /\ \A i \in DOMAIN Append(Pushed, e) : IsFilter(Append(Pushed, e)[i])
  <2> DEFINE S == Range(Pushed) \cup {e}
  <2>1. Pushed \in Seq(S) BY <1>1 DEF IsVec
  <2>2. e \in S OBVIOUS
  <2> HIDE DEF S
  <2>3. Append(Pushed, e) \in Seq(S) BY <2>1, <2>2
  <2>4. IsVec(Append(Pushed, e)) BY <2>3, SeqVec
  <2>5. ASSUME NEW i \in DOMAIN Append(Pushed, e) PROVE IsFilter(Append(Pushed, e)[i])
    <3>1. i \in DOMAIN Pushed \/ i = Len(Pushed) + 1 BY <2>1
    <3>2. CASE i \in DOMAIN Pushed
      <4>1. Append(Pushed, e)[i] = Pushed[i] BY <2>1, <3>2
      <4> QED BY <4>1, <1>1, <3>2
    <3>3. CASE i = Len(Pushed) + 1
      <4>1. Append(Pushed, e)[i] = e BY <2>1, <3>3
      <4> QED BY <4>1, <1>2
    <3> QED BY <3>1, <3>2, <3>3
  <2> QED BY <2>4, <2>5
<1> QED BY <1>1, <1>3, <1>4

\* scan_bound's bindings are a Vec, however they are made.
LEMMA BindingsVec ==
  ASSUME c \in Cases
  PROVE /\ IsVec(<<RequestArgs>>)
        /\ IsVec(RawRequests(Pushed))
        /\ IsVec(ExpandFanout(BoundParams(c.spec, BoundFilters, c.now),
                              Lists(c.spec, BoundFilters, "fanout")))
<1>1. IsVec(<<RequestArgs>>) BY DEF IsVec, Range
<1>2. IsVec(RawRequests(Pushed)) BY PushedVec, RawRequestsVec
<1> DEFINE F == Lists(c.spec, BoundFilters, "fanout")
<1>3. IsVec(F) /\ \A i \in DOMAIN F : IsVec(F[i][2]) BY BoundFiltersVec, ListsVec
<1> HIDE DEF F
<1>4. IsVec(ExpandFanout(BoundParams(c.spec, BoundFilters, c.now), F)) BY <1>3, ExpandFanoutVec
<1> QED BY <1>1, <1>2, <1>4 DEF F

-----------------------------------------------------------------------------
(* The inductive invariant of a scan. *)

\* What a page and a binding may cost.
PerPage == c.retry.max_retries + 1
PerBinding == c.maxPages * PerPage

\* The last request, the one the next must keep its distance from.
Latest == Last(calls)

\* Types, and which program points belong to which mode.
TypeInv ==
  /\ c \in Cases
  /\ pc \in {"bind", "union", "page", "send", "receive", "raw", "raw_send", "done"}
  /\ hops \in 0..5
  /\ bind \in Nat /\ page \in Nat /\ attempt \in Nat /\ made \in Nat /\ clock \in Nat
  /\ lim \in Nat \cup {None}
  /\ IsVec(sets) /\ IsVec(out) /\ IsVec(rows)
  /\ IsVec(calls) /\ Len(calls) <= 2
  /\ \A i \in DOMAIN calls : /\ calls[i].bind \in Nat /\ calls[i].page \in Nat
                             /\ calls[i].at \in Nat /\ calls[i].due \in Nat
ControlInv ==
  /\ pc = "bind" => made = 0 /\ bind = 0 /\ sets = <<>> /\ out = <<>> /\ calls = <<>>
  /\ pc \in {"raw", "raw_send"} => c.mode = "raw"
  /\ pc \in {"union", "page", "send", "receive"} => c.mode # "raw"
  /\ pc \in {"union", "raw"} => bind <= Len(sets)
  /\ pc \in {"page", "send", "receive", "raw_send"} => 1 <= bind /\ bind <= Len(sets)
  /\ hops # 0 => pc \in {"send", "raw_send"}
  /\ pc = "receive" => IsVec(PageRows)

\* The request in flight was counted when it was first redirected.
InFlight == IF hops > 0 THEN 1 ELSE 0

\* What was sent so far, against the bindings, pages and attempts used up.
BudgetInv ==
  /\ pc = "union" => made <= bind * PerBinding
  /\ pc = "page" => page <= c.maxPages /\ made <= (bind - 1) * PerBinding + page * PerPage
  /\ pc = "send" => /\ page < c.maxPages /\ attempt <= c.retry.max_retries
                    /\ made <= (bind - 1) * PerBinding + (page * PerPage + (attempt + InFlight))
  /\ pc = "receive" => /\ page < c.maxPages
                       /\ made <= (bind - 1) * PerBinding + (page + 1) * PerPage
  /\ pc = "raw" => made <= bind
  /\ pc = "raw_send" => made <= (bind - 1) + InFlight
  /\ pc = "done" => made <= CallBound

\* Targets are checked before a request is sent or redirected, and stay checked.
Allowed(call) ==
  /\ call.hop <= 5
  /\ CheckTarget(call.target)
  /\ c.auth # "none" => call.target.origin \/ call.target.listed
  /\ call.status # 0 /\ IsName(call.target) =>
       /\ c.resolves \cap {"link_local", "unspecified"} = {}
       /\ "private" \in c.resolves => call.target.named \/ call.target.listed
Checked(target) == CheckTarget(target) /\ (c.auth # "none" => IsTrusted(target))
TargetInv ==
  /\ pc \in {"send", "raw_send"} => Checked(Target) /\ Checked(At)
  /\ \A i \in DOMAIN calls : Allowed(calls[i])

\* The rows of the finished bindings are within the cap and the limit.
RowsInv ==
  /\ MaxRows # None => Len(out) <= MaxRows
  /\ lim # None /\ c.mode # "raw" => Len(out) <= lim

\* How far the clock is from what the last answer asked for.
Limited(call) == IsRateLimit(c.rateLimit, call.status)
PaceInv ==
  /\ PaceHonored
  /\ \A i \in DOMAIN calls : calls[i].bind <= bind
  /\ pc \in {"page", "receive"} /\ resp # Absent => Throttle(c.rateLimit, resp) \in Nat
  /\ pc \in {"send", "raw_send"} /\ calls # <<>> /\ Latest.bind = bind /\ (Limited(Latest) <=> Latest.page = page)
       => Latest.due <= clock
  /\ pc = "receive" => /\ calls # <<>> /\ resp # Absent
                       /\ Latest.bind = bind /\ Latest.page = page
                       /\ ~Limited(Latest) => Latest.due <= clock + Throttle(c.rateLimit, resp)
  /\ pc = "page" /\ calls # <<>> /\ Latest.bind = bind =>
       /\ resp # Absent /\ Latest.page < page
       /\ ~Limited(Latest) => Latest.due <= clock + Throttle(c.rateLimit, resp)

ScanInv == TypeInv /\ ControlInv /\ BudgetInv /\ TargetInv /\ RowsInv /\ PaceInv

\* What Rust's types say of the query.
LEMMA QueryTypes ==
  ASSUME c \in Cases
  PROVE /\ c.maxPages \in Nat /\ c.retry.max_retries \in Nat
        /\ c.retry.base \in Nat /\ c.retry.max \in Nat
        /\ c.limit \in Nat \cup {None} /\ c.maxRows \in Nat \cup {None}
        /\ PerPage \in Nat /\ PerBinding \in Nat
        /\ MaxRows \in Nat \cup {None}
<1>1. /\ c.maxPages \in Nat /\ c.retry.max_retries \in Nat
      /\ c.retry.base \in Nat /\ c.retry.max \in Nat
      /\ c.limit \in Nat \cup {None} /\ c.maxRows \in Nat \cup {None}
  BY CasesAssumption
<1>2. PerPage \in Nat /\ PerBinding \in Nat BY <1>1 DEF PerPage, PerBinding
<1>3. MaxRows \in Nat \cup {None} BY <1>1 DEF MaxRows
<1> QED BY <1>1, <1>2, <1>3

\* The products the request budget is made of.
LEMMA Products ==
  ASSUME NEW R \in Nat, NEW P \in Nat, NEW n \in Nat, NEW b \in Nat, NEW p \in Nat
  PROVE /\ n * (P * R) \in Nat /\ p * R \in Nat /\ (p + 1) * R = p * R + R
        /\ p <= P => p * R <= P * R
        /\ p < P => p * R + R <= P * R
        /\ 1 <= b => (b - 1) * (P * R) + P * R = b * (P * R) /\ (b - 1) * (P * R) \in Nat
        /\ b <= n => b * (P * R) <= n * (P * R)
        /\ 0 * (P * R) = 0 /\ 0 * R = 0 /\ b * (P * R) \in Nat
<1> DEFINE K == P * R
<1>1. K \in Nat OBVIOUS
<1>2. p * R \in Nat /\ (p + 1) * R = p * R + R OBVIOUS
<1>3. p <= P => p * R <= P * R OBVIOUS
<1>4. p < P => p * R + R <= P * R OBVIOUS
<1> HIDE DEF K
<1>5. n * K \in Nat /\ b * K \in Nat /\ 0 * K = 0 BY <1>1
<1>6. 1 <= b => (b - 1) * K + K = b * K /\ (b - 1) * K \in Nat BY <1>1
<1>7. b <= n => b * K <= n * K BY <1>1
<1> QED BY <1>2, <1>3, <1>4, <1>5, <1>6, <1>7 DEF K

\* A scan starts within its bounds.
LEMMA ScanInit == Init => ScanInv
<1> SUFFICES ASSUME Init PROVE ScanInv OBVIOUS
<1>0. IsVec(<<>>) /\ Len(<<>>) = 0 /\ DOMAIN <<>> = {} BY DEF IsVec, Range
<1>1. TypeInv BY <1>0 DEF Init, TypeInv
<1>2. ControlInv BY DEF Init, ControlInv
<1>3. BudgetInv BY DEF Init, BudgetInv
<1>4. TargetInv BY <1>0 DEF Init, TargetInv
<1>5. RowsInv
  <2>1. Len(out) = 0 /\ lim = None BY <1>0 DEF Init
  <2>2. MaxRows \in Nat \cup {None} BY QueryTypes DEF Init
  <2> QED BY <2>1, <2>2 DEF RowsInv
<1>6. PaceInv BY <1>0 DEF Init, PaceInv, PaceHonored
<1> QED BY <1>1, <1>2, <1>3, <1>4, <1>5, <1>6 DEF ScanInv

\* Binding the parameters makes no request.
LEMMA BindKeeps ==
  ASSUME ScanInv, Bind
  PROVE ScanInv'
<1>1. /\ c \in Cases /\ bind = 0 /\ made = 0 /\ out = <<>> /\ calls = <<>> /\ hops = 0
      /\ UNCHANGED <<c, bind, out, fetchVars, sendVars>> /\ lim' = ScanLimit
  BY DEF ScanInv, TypeInv, ControlInv, Bind
<1>2. /\ c' = c /\ bind' = 0 /\ made' = 0 /\ out' = <<>> /\ calls' = <<>> /\ hops' = 0
      /\ page' = page /\ attempt' = attempt /\ clock' = clock /\ rows' = rows
  BY <1>1 DEF fetchVars, sendVars, hopVars
<1>3. IsVec(<<>>) /\ Len(<<>>) = 0 /\ DOMAIN <<>> = {} BY DEF IsVec, Range
<1>4. /\ IsVec(sets')
      /\ \/ pc' = "done"
         \/ pc' = "raw" /\ c.mode = "raw"
         \/ pc' = "union" /\ c.mode # "raw"
  <2>1. pc' \in {"done", "raw", "union"} BY DEF Bind, Finish
  <2>2. pc' = "raw" => c.mode = "raw" BY DEF Bind, Finish
  <2>3. pc' = "union" => c.mode # "raw" BY DEF Bind, Finish
  <2>4. \/ sets' = sets \/ sets' = <<RequestArgs>> \/ sets' = RawRequests(Pushed)
        \/ sets' = ExpandFanout(BoundParams(c.spec, BoundFilters, c.now), Lists(c.spec, BoundFilters, "fanout"))
    BY DEF Bind
  <2>5. IsVec(sets') BY <2>4, <1>1, BindingsVec DEF ScanInv, TypeInv
  <2> QED BY <2>1, <2>2, <2>3, <2>5
<1>5. Len(sets') \in Nat BY <1>4 DEF IsVec
<1>6. lim' \in Nat \cup {None}
  <2>1. c.limit \in Nat \cup {None} BY <1>1, QueryTypes
  <2> QED BY <2>1, <1>1 DEF ScanLimit
<1>7. TypeInv' BY <1>1, <1>2, <1>3, <1>4, <1>6 DEF ScanInv, TypeInv
<1>8. ControlInv' BY <1>2, <1>4, <1>5 DEF ControlInv
<1>9. BudgetInv'
  <2>1. c.maxPages \in Nat /\ c.retry.max_retries + 1 \in Nat BY <1>1, QueryTypes
  <2>2. /\ Len(sets') * (c.maxPages * (c.retry.max_retries + 1)) \in Nat
        /\ 0 * (c.maxPages * (c.retry.max_retries + 1)) = 0
    BY <2>1, <1>5, Products
  <2>3. CallBound' \in Nat BY <1>2, <1>5, <2>2 DEF CallBound
  <2>4. 0 <= bind' * PerBinding' BY <1>2, <2>2 DEF PerBinding, PerPage
  <2> QED BY <1>2, <1>4, <2>3, <2>4 DEF BudgetInv
<1>10. TargetInv' BY <1>2, <1>3, <1>4 DEF TargetInv
<1>11. RowsInv'
  <2>1. MaxRows \in Nat \cup {None} /\ MaxRows' = MaxRows BY <1>1, <1>2, QueryTypes DEF MaxRows
  <2> QED BY <2>1, <1>2, <1>3, <1>6 DEF RowsInv
<1>12. PaceInv' BY <1>2, <1>3, <1>4 DEF PaceInv, PaceHonored
<1> QED BY <1>7, <1>8, <1>9, <1>10, <1>11, <1>12 DEF ScanInv

\* The budget of a scan whose bindings and query stay the same.
LEMMA CallBoundIs ==
  ASSUME c \in Cases, IsVec(sets)
  PROVE /\ CallBound \in Nat
        /\ c.mode = "raw" => CallBound = Len(sets)
        /\ c.mode # "raw" => CallBound = Len(sets) * PerBinding
<1>1. Len(sets) \in Nat BY DEF IsVec
<1>2. c.maxPages \in Nat /\ c.retry.max_retries + 1 \in Nat BY QueryTypes
<1>3. Len(sets) * (c.maxPages * (c.retry.max_retries + 1)) \in Nat BY <1>1, <1>2, Products
<1> QED BY <1>1, <1>3 DEF CallBound, PerBinding, PerPage

\* A binding within the bindings and a page within the pages is within the budget.
LEMMA WithinBudget ==
  ASSUME c \in Cases, IsVec(sets), c.mode # "raw", NEW b \in Nat, b <= Len(sets)
  PROVE /\ b * PerBinding <= CallBound /\ b * PerBinding \in Nat
        /\ 1 <= b => /\ (b - 1) * PerBinding + PerBinding = b * PerBinding
                     /\ (b - 1) * PerBinding \in Nat
        /\ \A p \in Nat : /\ p * PerPage \in Nat /\ (p + 1) * PerPage = p * PerPage + PerPage
                          /\ p <= c.maxPages => p * PerPage <= PerBinding
                          /\ p < c.maxPages => p * PerPage + PerPage <= PerBinding
        /\ 0 * PerPage = 0
<1>1. Len(sets) \in Nat BY DEF IsVec
<1>2. c.maxPages \in Nat /\ PerPage \in Nat BY QueryTypes
<1>3. PerBinding = c.maxPages * PerPage BY DEF PerBinding
<1>4. CallBound = Len(sets) * PerBinding BY CallBoundIs
<1> HIDE DEF PerPage
<1>5. /\ b * PerBinding <= Len(sets) * PerBinding /\ b * PerBinding \in Nat
      /\ 1 <= b => /\ (b - 1) * PerBinding + PerBinding = b * PerBinding
                   /\ (b - 1) * PerBinding \in Nat
      /\ 0 * PerPage = 0
  <2> DEFINE M == c.maxPages
             R == PerPage
             n == Len(sets)
  <2>1. M \in Nat /\ R \in Nat /\ n \in Nat /\ b <= n BY <1>1, <1>2
  <2> HIDE DEF M, R, n
  <2>2. /\ b * (M * R) <= n * (M * R) /\ b * (M * R) \in Nat
        /\ 1 <= b => (b - 1) * (M * R) + M * R = b * (M * R) /\ (b - 1) * (M * R) \in Nat
        /\ 0 * R = 0
    BY <2>1, Products
  <2> QED BY <2>2, <1>3 DEF M, R, n
<1>6. ASSUME NEW p \in Nat
      PROVE /\ p * PerPage \in Nat /\ (p + 1) * PerPage = p * PerPage + PerPage
            /\ p <= c.maxPages => p * PerPage <= PerBinding
            /\ p < c.maxPages => p * PerPage + PerPage <= PerBinding
  BY <1>2, <1>3, Products
<1> QED BY <1>4, <1>5, <1>6

\* Finished bindings, finished pages and the attempts at this one add up.
LEMMA AddUp ==
  ASSUME NEW a \in Nat, NEW b \in Nat, NEW k \in Nat, NEW p \in Nat, NEW q \in Nat, NEW t \in Nat,
         NEW m \in Nat, m <= a + (b + k), k <= p, b + p <= q, a + q <= t
  PROVE m <= t
OBVIOUS

\* Requests made so far never exceed the budget.
LEMMA MadeBounded ==
  ASSUME ScanInv
  PROVE made <= CallBound
<1>1. /\ c \in Cases /\ IsVec(sets) /\ made \in Nat /\ bind \in Nat /\ page \in Nat /\ attempt \in Nat
      /\ pc \in {"bind", "union", "page", "send", "receive", "raw", "raw_send", "done"}
      /\ InFlight \in 0..1
  BY DEF ScanInv, TypeInv, InFlight
<1>2. CallBound \in Nat /\ (c.mode = "raw" => CallBound = Len(sets)) BY <1>1, CallBoundIs
<1>3. PerPage = c.retry.max_retries + 1 /\ PerPage \in Nat /\ PerBinding \in Nat /\ c.retry.max_retries \in Nat
  BY <1>1, QueryTypes DEF PerPage
<1>4. Len(sets) \in Nat BY <1>1 DEF IsVec
<1>5. CASE pc = "bind" BY <1>2, <1>5 DEF ScanInv, ControlInv
<1>6. CASE pc = "done" BY <1>6 DEF ScanInv, BudgetInv
<1>7. CASE pc \in {"raw", "raw_send"}
  <2>1. bind <= Len(sets) /\ c.mode = "raw" BY <1>7 DEF ScanInv, ControlInv
  <2>2. made <= bind BY <1>1, <1>7 DEF ScanInv, BudgetInv
  <2> QED BY <2>1, <2>2, <1>1, <1>2, <1>4
<1>8. CASE pc = "union"
  <2>1. made <= bind * PerBinding /\ bind <= Len(sets) /\ c.mode # "raw"
    BY <1>8 DEF ScanInv, BudgetInv, ControlInv
  <2>2. bind * PerBinding <= CallBound /\ bind * PerBinding \in Nat BY <1>1, <2>1, WithinBudget
  <2> QED BY <1>1, <1>2, <2>1, <2>2
<1>9. CASE pc \in {"page", "send", "receive"}
  <2>1. 1 <= bind /\ bind <= Len(sets) /\ c.mode # "raw" BY <1>9 DEF ScanInv, ControlInv
  <2> DEFINE A == (bind - 1) * PerBinding
             B == page * PerPage
             C == (page + 1) * PerPage
  <2>2. /\ A + PerBinding <= CallBound /\ A \in Nat
        /\ B \in Nat /\ C = B + PerPage
        /\ page <= c.maxPages => B <= PerBinding
        /\ page < c.maxPages => B + PerPage <= PerBinding
    BY <1>1, <2>1, WithinBudget
  <2>3. \/ page <= c.maxPages /\ made <= A + B
        \/ page < c.maxPages /\ attempt <= c.retry.max_retries /\ made <= A + (B + (attempt + InFlight))
        \/ page < c.maxPages /\ made <= A + C
    BY <1>9 DEF ScanInv, BudgetInv
  <2> HIDE DEF A, B, C
  <2>5. CASE page <= c.maxPages /\ made <= A + B BY <1>1, <1>2, <1>3, <2>2, <2>5
  <2>6. CASE page < c.maxPages /\ attempt <= c.retry.max_retries /\ made <= A + (B + (attempt + InFlight))
    <3>1. attempt + InFlight \in Nat /\ attempt + InFlight <= PerPage BY <1>1, <1>3, <2>6
    <3>2. B + PerPage <= PerBinding BY <2>2, <2>6
    <3>3. made <= A + (B + (attempt + InFlight)) /\ A + PerBinding <= CallBound BY <2>2, <2>6
    <3> QED BY <1>1, <1>2, <1>3, <2>2, <3>1, <3>2, <3>3, AddUp
  <2>7. CASE page < c.maxPages /\ made <= A + C
    <3>1. made <= A + (B + PerPage) /\ A + PerBinding <= CallBound BY <2>2, <2>7
    <3>2. B + PerPage <= PerBinding BY <2>2, <2>7
    <3>3. PerPage <= PerPage BY <1>3
    <3>4. A \in Nat /\ B \in Nat /\ PerPage \in Nat /\ PerBinding \in Nat /\ CallBound \in Nat /\ made \in Nat
      BY <1>1, <1>2, <1>3, <2>2
    <3> QED BY <3>1, <3>2, <3>3, <3>4, AddUp
  <2> QED BY <2>3, <2>5, <2>6, <2>7
<1> QED BY <1>1, <1>5, <1>6, <1>7, <1>8, <1>9

\* There is room in the budget for the request about to be sent.
LEMMA SendBudget ==
  ASSUME ScanInv, pc \in {"send", "raw_send"}, InFlight = 0
  PROVE made + 1 <= CallBound
<1>1. /\ c \in Cases /\ IsVec(sets) /\ made \in Nat /\ bind \in Nat /\ page \in Nat /\ attempt \in Nat
      /\ 1 <= bind /\ bind <= Len(sets)
  BY DEF ScanInv, TypeInv, ControlInv
<1>2. CallBound \in Nat /\ Len(sets) \in Nat BY <1>1, CallBoundIs DEF IsVec
<1>3. CASE pc = "raw_send"
  <2>1. made <= bind - 1 /\ CallBound = Len(sets)
    BY <1>1, <1>3, CallBoundIs DEF ScanInv, BudgetInv, ControlInv
  <2> QED BY <1>1, <1>2, <2>1
<1>4. CASE pc = "send"
  <2> DEFINE A == (bind - 1) * PerBinding
             B == page * PerPage
  <2>1. /\ c.mode # "raw" /\ page < c.maxPages /\ attempt <= c.retry.max_retries
        /\ made <= A + (B + (attempt + 0))
    BY <1>4 DEF ScanInv, BudgetInv, ControlInv
  <2>2. A + PerBinding <= CallBound /\ A \in Nat /\ B \in Nat /\ B + PerPage <= PerBinding
    BY <1>1, <2>1, WithinBudget
  <2>3. PerPage \in Nat /\ PerBinding \in Nat /\ attempt + 1 <= PerPage
    <3>1. PerPage \in Nat /\ PerBinding \in Nat /\ c.retry.max_retries \in Nat BY <1>1, QueryTypes
    <3>2. PerPage = c.retry.max_retries + 1 BY DEF PerPage
    <3> DEFINE R == c.retry.max_retries
    <3>3. R \in Nat /\ attempt \in Nat /\ attempt <= R /\ PerPage = R + 1 BY <1>1, <2>1, <3>1, <3>2
    <3> HIDE DEF R
    <3> QED BY <3>1, <3>3
  <2> HIDE DEF A, B
  <2>4. made + 1 <= A + (B + (attempt + 1)) BY <1>1, <2>1, <2>2
  <2> QED BY <1>1, <1>2, <2>2, <2>3, <2>4, AddUp
<1> QED BY <1>3, <1>4

\* The next binding starts with its own budget and no answer to wait for.
LEMMA NextBindingKeeps ==
  ASSUME ScanInv, NextBinding
  PROVE ScanInv'
<1>1. /\ c \in Cases /\ bind \in Nat /\ made \in Nat /\ IsVec(sets) /\ c.mode # "raw" /\ hops = 0
      /\ bind <= Len(sets) /\ made <= bind * PerBinding
  BY DEF ScanInv, TypeInv, ControlInv, BudgetInv, NextBinding
<1>2. /\ c' = c /\ lim' = lim /\ sets' = sets /\ out' = out /\ attempt' = attempt
      /\ clock' = clock /\ calls' = calls /\ made' = made /\ hops' = 0
  BY <1>1 DEF NextBinding, hopVars
<1>3. Len(sets) \in Nat BY <1>1 DEF IsVec
<1>4. PerPage' = PerPage /\ PerBinding' = PerBinding /\ CallBound' = CallBound /\ MaxRows' = MaxRows
  BY <1>2 DEF PerPage, PerBinding, CallBound, MaxRows
<1>5. RowsInv' BY <1>2, <1>4 DEF ScanInv, RowsInv
<1>6. CASE pc' = "done" /\ bind' = bind /\ UNCHANGED fetchVars
  <2>1. page' = page /\ rows' = rows BY <1>6 DEF fetchVars
  <2>2. TypeInv' BY <1>2, <1>6, <2>1 DEF ScanInv, TypeInv
  <2>3. ControlInv' BY <1>2, <1>6 DEF ControlInv
  <2>4. BudgetInv' BY <1>2, <1>4, <1>6, MadeBounded DEF BudgetInv
  <2>5. TargetInv' BY <1>2, <1>6 DEF ScanInv, TargetInv, Allowed
  <2>6. PaceInv' BY <1>2, <1>6 DEF ScanInv, PaceInv, PaceHonored
  <2> QED BY <1>5, <2>2, <2>3, <2>4, <2>5, <2>6 DEF ScanInv
<1>7. CASE pc' = "page" /\ bind' = bind + 1 /\ bind # Len(sets) /\ page' = 0 /\ rows' = <<>> /\ resp' = Absent
  <2>1. bind + 1 \in Nat /\ bind + 1 <= Len(sets) /\ 1 <= bind + 1 BY <1>1, <1>3, <1>7
  <2>2. TypeInv'
    <3>1. IsVec(rows') BY <1>7 DEF IsVec, Range
    <3> QED BY <1>2, <1>7, <2>1, <3>1 DEF ScanInv, TypeInv
  <2>3. ControlInv' BY <1>1, <1>2, <1>7, <2>1 DEF ControlInv
  <2>4. BudgetInv'
    <3>1. (bind + 1) - 1 = bind BY <1>1
    <3>2. 0 * PerPage = 0 /\ bind * PerBinding \in Nat BY <1>1, WithinBudget
    <3>3. made <= (bind' - 1) * PerBinding + page' * PerPage BY <1>1, <1>7, <3>1, <3>2
    <3>4. page' <= c.maxPages BY <1>1, <1>7, QueryTypes
    <3> QED BY <1>2, <1>4, <1>7, <3>3, <3>4 DEF BudgetInv
  <2>5. TargetInv' BY <1>2, <1>7 DEF ScanInv, TargetInv, Allowed
  <2>6. PaceInv'
    <3>1. \A i \in DOMAIN calls : calls[i].bind <= bind /\ calls[i].bind \in Nat
      BY DEF ScanInv, PaceInv, TypeInv
    <3>2. \A i \in DOMAIN calls : calls[i].bind <= bind + 1 /\ calls[i].bind # bind + 1 BY <1>1, <3>1
    <3>3. calls # <<>> => Latest.bind # bind + 1
      <4>1. calls # <<>> => Len(calls) \in DOMAIN calls BY DEF ScanInv, TypeInv, IsVec
      <4> QED BY <3>2, <4>1 DEF Latest, Last
    <3>4. Latest' = Latest BY <1>2 DEF Latest
    <3>5. PaceHonored' BY <1>2 DEF ScanInv, PaceInv, PaceHonored
    <3> QED BY <1>2, <1>7, <3>2, <3>3, <3>4, <3>5 DEF PaceInv
  <2> QED BY <1>5, <2>2, <2>3, <2>4, <2>5, <2>6 DEF ScanInv
<1>8. \/ pc' = "done" /\ bind' = bind /\ UNCHANGED fetchVars
      \/ pc' = "page" /\ bind' = bind + 1 /\ bind # Len(sets) /\ page' = 0 /\ rows' = <<>> /\ resp' = Absent
  BY DEF NextBinding, Finish
<1> QED BY <1>6, <1>7, <1>8

\* A request is prepared only for a page within the cap and a checked target,
\* after the wait the quota asks for.
LEMMA RequestPageKeeps ==
  ASSUME ScanInv, RequestPage
  PROVE ScanInv'
<1>1. /\ c \in Cases /\ IsVec(sets) /\ c.mode # "raw" /\ pc = "page" /\ hops = 0
      /\ bind \in Nat /\ page \in Nat /\ made \in Nat /\ clock \in Nat
  BY DEF ScanInv, TypeInv, ControlInv, RequestPage
<1>2. /\ c' = c /\ lim' = lim /\ sets' = sets /\ out' = out /\ bind' = bind /\ page' = page
      /\ rows' = rows /\ url' = url /\ resp' = resp /\ calls' = calls /\ made' = made /\ attempt' = 0
      /\ hops' = 0
  BY <1>1 DEF RequestPage, fetchVars, hopVars
<1>3. \/ pc' = "done"
      \/ /\ pc' = "send" /\ ~(page >= c.maxPages) /\ CheckTarget(Target) /\ ~AuthRefused(Target)
  BY DEF RequestPage, TooManyPages, Finish
<1>4. PerPage' = PerPage /\ PerBinding' = PerBinding /\ CallBound' = CallBound /\ MaxRows' = MaxRows
      /\ Target' = Target /\ At' = Target /\ InFlight' = 0
  BY <1>2 DEF PerPage, PerBinding, CallBound, MaxRows, Target, RawTarget, At, InFlight
<1>5. c.maxPages \in Nat /\ c.retry.max_retries \in Nat BY <1>1, QueryTypes
<1>6. clock' = clock + (IF resp # Absent /\ page < c.maxPages THEN Throttle(c.rateLimit, resp) ELSE 0)
  BY DEF RequestPage
<1>7. resp # Absent => Throttle(c.rateLimit, resp) \in Nat BY <1>1 DEF ScanInv, PaceInv
<1>8. clock' \in Nat BY <1>1, <1>6, <1>7
<1>9. TypeInv' BY <1>2, <1>3, <1>8 DEF ScanInv, TypeInv
<1>10. ControlInv' BY <1>1, <1>2, <1>3 DEF ScanInv, ControlInv
<1>11. BudgetInv'
  <2>1. CASE pc' = "done" BY <1>2, <1>4, <2>1, MadeBounded DEF BudgetInv
  <2>2. CASE pc' = "send" /\ ~(page >= c.maxPages)
    <3>1. page < c.maxPages /\ 0 <= c.retry.max_retries BY <1>1, <1>5, <2>2
    <3>2. page * PerPage \in Nat
      <4>1. PerPage \in Nat BY <1>1, QueryTypes
      <4> QED BY <4>1, <1>1
    <3>3. made <= (bind - 1) * PerBinding + (page * PerPage + (0 + 0)) BY <1>1, <3>2 DEF ScanInv, BudgetInv
    <3> QED BY <1>2, <1>4, <2>2, <3>1, <3>3 DEF BudgetInv
  <2> QED BY <1>3, <2>1, <2>2
<1>12. TargetInv'
  <2>1. pc' = "send" => Checked(Target) BY <1>3 DEF Checked, AuthRefused
  <2>2. Checked(Target)' = Checked(Target) /\ Checked(At)' = Checked(Target) BY <1>2, <1>4 DEF Checked
  <2>3. (\A i \in DOMAIN calls : Allowed(calls[i]))' BY <1>2 DEF ScanInv, TargetInv, Allowed
  <2> QED BY <1>3, <2>1, <2>2, <2>3 DEF TargetInv
<1>13. RowsInv' BY <1>2, <1>4 DEF ScanInv, RowsInv
<1>14. PaceInv'
  <2>1. Latest' = Latest BY <1>2 DEF Latest
  <2>2. PaceHonored' BY <1>2 DEF ScanInv, PaceInv, PaceHonored
  <2>3. ASSUME pc' = "send", calls # <<>>, Latest.bind = bind, Limited(Latest) <=> Latest.page = page
        PROVE Latest.due <= clock'
    <3>1. /\ resp # Absent /\ Latest.page < page
          /\ ~Limited(Latest) => Latest.due <= clock + Throttle(c.rateLimit, resp)
      BY <1>1, <2>3 DEF ScanInv, PaceInv
    <3>2. Latest.page \in Nat /\ Latest.due \in Nat
      <4>1. Len(calls) \in DOMAIN calls BY <2>3 DEF ScanInv, TypeInv, IsVec
      <4> QED BY <4>1 DEF ScanInv, TypeInv, Latest, Last
    <3>3. ~Limited(Latest) BY <2>3, <3>1, <3>2, <1>1
    <3>4. page < c.maxPages BY <1>1, <1>3, <1>5, <2>3
    <3> QED BY <3>1, <3>3, <3>4, <1>6
  <2>5. \A i \in DOMAIN calls' : calls'[i].bind <= bind' BY <1>2 DEF ScanInv, PaceInv
  <2>6. Limited(Latest)' = Limited(Latest) BY <1>2, <2>1 DEF Limited
  <2> QED BY <1>2, <1>3, <2>1, <2>2, <2>3, <2>5, <2>6 DEF PaceInv
<1> QED BY <1>9, <1>10, <1>11, <1>12, <1>13, <1>14 DEF ScanInv

\* The request that is recorded next.
NewCall(status, due) ==
  [target |-> At, hop |-> hops, bind |-> bind, page |-> page, status |-> status, at |-> clock, due |-> due]

\* Two one-element sequences make a pair.
LEMMA PairConcat ==
  ASSUME NEW a, NEW b
  PROVE <<a>> \o <<b>> = <<a, b>>
<1> DEFINE S == {a, b}
           s == <<a>> \o <<b>>
<1>1. <<a>> \in Seq(S) /\ <<b>> \in Seq(S) /\ <<a, b>> \in Seq(S) OBVIOUS
<1>2. s \in Seq(S) BY <1>1
<1>3. Len(s) = 2 /\ s[1] = a /\ s[2] = b BY <1>1
<1> HIDE DEF s
<1>4. s = <<a, b>> BY <1>2, <1>3
<1> QED BY <1>4 DEF s

\* A recorded request is one more, unless it was redirected, and follows the
\* last one.
LEMMA Recorded ==
  ASSUME ScanInv, NEW status, NEW due \in Nat, Record(status, due)
  PROVE /\ made' = made + (1 - InFlight)
        /\ \/ calls = <<>> /\ calls' = <<NewCall(status, due)>>
           \/ calls # <<>> /\ calls' = <<Latest, NewCall(status, due)>>
        /\ IsVec(calls') /\ Len(calls') \in 1..2 /\ Len(calls') <= 2 /\ DOMAIN calls' = 1..Len(calls')
        /\ calls'[Len(calls')] = NewCall(status, due)
        /\ \A i \in DOMAIN calls' : calls'[i] = NewCall(status, due) \/ (calls # <<>> /\ calls'[i] = Latest)
<1> DEFINE new == NewCall(status, due)
<1>1. made' = made + (1 - InFlight)
  <2>1. hops \in 0..5 /\ made \in Nat /\ c \in Cases /\ IsVec(sets) BY DEF ScanInv, TypeInv
  <2>2. CallBound \in Nat BY <2>1, CallBoundIs
  <2>3. made <= CallBound BY MadeBounded
  <2> QED BY <2>1, <2>2, <2>3 DEF Record, InFlight
<1>2. calls' = (IF calls = <<>> THEN <<>> ELSE <<Latest>>) \o <<new>>
  BY DEF Record, NewCall, Latest
<1> HIDE DEF new
<1>3. CASE calls = <<>>
  <2>1. calls' = <<new>> BY <1>2, <1>3
  <2>2. IsVec(calls') /\ Len(calls') = 1 /\ DOMAIN calls' = 1..1 /\ calls'[1] = new BY <2>1 DEF IsVec, Range
  <2> QED BY <1>1, <1>3, <2>1, <2>2 DEF new
<1>4. CASE calls # <<>>
  <2> DEFINE l == Latest
  <2> HIDE DEF l
  <2>0. calls' = <<l>> \o <<new>> BY <1>2, <1>4 DEF l
  <2>1. calls' = <<l, new>> BY <2>0, PairConcat
  <2>2. /\ IsVec(calls') /\ Len(calls') = 2 /\ DOMAIN calls' = 1..2
        /\ calls'[1] = l /\ calls'[2] = new
    BY <2>1 DEF IsVec, Range
  <2>3. \A i \in DOMAIN calls' : calls'[i] = new \/ calls'[i] = l BY <2>2
  <2> QED BY <1>1, <1>4, <2>1, <2>2, <2>3 DEF new, l
<1> QED BY <1>3, <1>4

\* A request recorded at a checked target keeps the history of requests in
\* order, if the clock is where the last answer asked for it to be.
LEMMA RecordKeeps ==
  ASSUME ScanInv, NEW status, NEW due \in Nat, Record(status, due), c' = c,
         Checked(At),
         status # 0 => Resolved,
         calls # <<>> /\ Latest.bind = bind /\ (Limited(Latest) <=> Latest.page = page)
           => Latest.due <= clock
  PROVE /\ \A i \in DOMAIN calls' : /\ calls'[i].bind \in Nat /\ calls'[i].page \in Nat
                                    /\ calls'[i].at \in Nat /\ calls'[i].due \in Nat
        /\ (\A i \in DOMAIN calls : Allowed(calls[i]))'
        /\ \A i \in DOMAIN calls' : calls'[i].bind <= bind
        /\ PaceHonored'
        /\ calls' # <<>> /\ Latest' = NewCall(status, due)
<1> DEFINE new == NewCall(status, due)
<1>1. /\ new.target = At /\ new.hop = hops /\ new.bind = bind /\ new.page = page
      /\ new.status = status /\ new.at = clock /\ new.due = due
  BY DEF NewCall
<1> HIDE DEF new
<1>2. /\ \/ calls = <<>> /\ calls' = <<new>>
         \/ calls # <<>> /\ calls' = <<Latest, new>>
      /\ IsVec(calls') /\ Len(calls') \in 1..2 /\ DOMAIN calls' = 1..Len(calls')
      /\ calls'[Len(calls')] = new
      /\ \A i \in DOMAIN calls' : calls'[i] = new \/ (calls # <<>> /\ calls'[i] = Latest)
  BY Recorded DEF new
<1>3. bind \in Nat /\ page \in Nat /\ clock \in Nat BY DEF ScanInv, TypeInv
<1>4. calls # <<>> => /\ Latest.bind \in Nat /\ Latest.page \in Nat /\ Latest.at \in Nat /\ Latest.due \in Nat
                      /\ Allowed(Latest) /\ Latest.bind <= bind
  <2>1. calls # <<>> => Len(calls) \in DOMAIN calls BY DEF ScanInv, TypeInv, IsVec
  <2> QED BY <2>1 DEF ScanInv, TypeInv, TargetInv, PaceInv, Latest, Last
<1>5. \A i \in DOMAIN calls' : /\ calls'[i].bind \in Nat /\ calls'[i].page \in Nat
                               /\ calls'[i].at \in Nat /\ calls'[i].due \in Nat
                               /\ calls'[i].bind <= bind
  BY <1>1, <1>2, <1>3, <1>4
<1>6. Allowed(new)
  <2>1. CheckTarget(new.target) /\ (c.auth # "none" => new.target.origin \/ new.target.listed)
    BY <1>1 DEF Checked, IsTrusted
  <2>2. ASSUME status # 0, IsName(new.target)
        PROVE /\ c.resolves \cap {"link_local", "unspecified"} = {}
              /\ "private" \in c.resolves => new.target.named \/ new.target.listed
    <3>1. \A a \in c.resolves : /\ Classify(a) # "AlwaysRefuse"
                                /\ Classify(a) = "Private" => new.target.named \/ new.target.listed
      BY <2>2, <1>1 DEF Resolved, ScreenResolved, NameTrusted
    <3>2. Classify("link_local") = "AlwaysRefuse" /\ Classify("unspecified") = "AlwaysRefuse"
          /\ Classify("private") = "Private"
      BY DEF Classify
    <3> QED BY <3>1, <3>2
  <2>3. new.hop <= 5 BY <1>1 DEF ScanInv, TypeInv
  <2> QED BY <1>1, <2>1, <2>2, <2>3 DEF Allowed
<1>7. (\A i \in DOMAIN calls : Allowed(calls[i]))'
  <2>1. \A i \in DOMAIN calls' : Allowed(calls'[i]) BY <1>2, <1>4, <1>6
  <2> QED BY <2>1 DEF Allowed
<1>8. PaceHonored'
  <2>1. CASE calls = <<>>
    <3>1. ~(Len(calls') = 2) BY <1>2, <2>1
    <3> QED BY <3>1, ZenonT(60) DEF PaceHonored
  <2>2. CASE calls # <<>>
    <3>1. calls'[1] = Latest /\ calls'[2] = new BY <1>2, <2>2
    <3>2. /\ Latest.bind = bind
          /\ IsRateLimit(c.rateLimit, Latest.status) <=> Latest.page = page
          => clock >= Latest.due
      BY <1>3, <1>4, <2>2 DEF Limited
    <3> QED BY <3>1, <3>2, <1>1 DEF PaceHonored
  <2> QED BY <2>1, <2>2
<1>9. calls' # <<>> /\ Latest' = new BY <1>2 DEF Latest, Last
<1> QED BY <1>5, <1>7, <1>8, <1>9 DEF new

\* The waits between requests are what the answer asks for, or more.
LEMMA Waits ==
  ASSUME c \in Cases, clock \in Nat, attempt \in Nat,
         NEW r, r.reset \in Nat, r.retryAfter \in Nat \cup {None}
  PROVE /\ NotBefore(r) \in Nat /\ WaitMs(c.retry, c.rateLimit, r, attempt) \in Nat
        /\ Throttle(c.rateLimit, r) \in Nat /\ BackoffMs(c.retry, attempt) \in Nat
        /\ IsRateLimit(c.rateLimit, r.status) =>
             NotBefore(r) <= clock + WaitMs(c.retry, c.rateLimit, r, attempt)
        /\ ~IsRateLimit(c.rateLimit, r.status) => NotBefore(r) <= clock + Throttle(c.rateLimit, r)
<1>1. BackoffMs(c.retry, attempt) \in Nat
  <2> DEFINE grown == c.retry.base * 2^attempt
  <2>1. BackoffMs(c.retry, attempt) = IF grown \in 0..c.retry.max THEN grown ELSE c.retry.max
    BY DEF BackoffMs
  <2>2. c.retry.max \in Nat BY QueryTypes
  <2> HIDE DEF grown
  <2> QED BY <2>1, <2>2
<1> DEFINE B == BackoffMs(c.retry, attempt)
           L == IsRateLimit(c.rateLimit, r.status)
<1>2. L \in BOOLEAN BY DEF IsRateLimit
<1>3. WaitMs(c.retry, c.rateLimit, r, attempt) =
        CASE L /\ c.rateLimit.reset_header /\ r.reset > 0 -> r.reset
          [] L /\ r.retryAfter # None -> r.retryAfter
          [] OTHER -> B
  BY DEF WaitMs
<1>4. NotBefore(r) =
        CASE c.rateLimit.reset_header /\ r.reset > 0
               /\ (L \/ (c.rateLimit.remaining_header /\ r.remaining = 0)) -> clock + r.reset
          [] L /\ r.retryAfter # None -> clock + r.retryAfter
          [] OTHER -> clock
  BY DEF NotBefore
<1> HIDE DEF B, L
<1>5. WaitMs(c.retry, c.rateLimit, r, attempt) \in Nat BY <1>1, <1>3 DEF B
<1>6. NotBefore(r) \in Nat BY <1>4
<1>7. Throttle(c.rateLimit, r) \in Nat BY DEF Throttle
<1>8. L => NotBefore(r) <= clock + WaitMs(c.retry, c.rateLimit, r, attempt)
  <2>1. SUFFICES ASSUME L PROVE NotBefore(r) <= clock + WaitMs(c.retry, c.rateLimit, r, attempt)
    OBVIOUS
  <2>2. CASE c.rateLimit.reset_header /\ r.reset > 0 BY <1>3, <1>4, <2>1, <2>2
  <2>3. CASE ~(c.rateLimit.reset_header /\ r.reset > 0)
    <3>1. CASE r.retryAfter # None BY <1>3, <1>4, <2>1, <2>3, <3>1
    <3>2. CASE r.retryAfter = None
      <4>1. NotBefore(r) = clock BY <1>4, <2>3, <3>2
      <4> QED BY <1>5, <4>1
    <3> QED BY <3>1, <3>2
  <2> QED BY <2>2, <2>3
<1>9. ~L => NotBefore(r) <= clock + Throttle(c.rateLimit, r)
  <2>1. SUFFICES ASSUME ~L PROVE NotBefore(r) <= clock + Throttle(c.rateLimit, r) OBVIOUS
  <2>2. CASE c.rateLimit.reset_header /\ r.reset > 0 /\ c.rateLimit.remaining_header /\ r.remaining = 0
    <3>1. Throttle(c.rateLimit, r) = r.reset BY <2>2 DEF Throttle
    <3>2. NotBefore(r) = clock + r.reset BY <1>4, <2>1, <2>2
    <3> QED BY <3>1, <3>2
  <2>3. CASE ~(c.rateLimit.reset_header /\ r.reset > 0 /\ c.rateLimit.remaining_header /\ r.remaining = 0)
    <3>1. NotBefore(r) = clock BY <1>4, <2>1, <2>3
    <3> QED BY <1>7, <3>1
  <2> QED BY <2>2, <2>3
<1> QED BY <1>1, <1>5, <1>6, <1>7, <1>8, <1>9 DEF L

\* An answer of the server, whatever it is: typed headers, and a body whose
\* rows are a Vec.
IsAnswer(r) ==
  /\ r # Absent /\ r.reset \in Nat /\ r.retryAfter \in Nat \cup {None}
  /\ IsVec(ExtractRows(r.body, Response))

\* The server's pages and failures are such answers.
LEMMA AnswersTyped ==
  ASSUME c \in Cases, NEW h \in Headers
  PROVE /\ \A call : IsAnswer(PageOf(call, h))
        /\ \A kind : IsAnswer(Failure(kind, h))
<1>1. h.reset \in Nat /\ h.retryAfter \in Nat \cup {None} BY DEF Headers
<1>2. "status" \notin DOMAIN Absent BY DEF Absent
<1>3. IsVec(Response.path)
  <2>1. "path" \in DOMAIN c.spec.response /\ IsVec(c.spec.response.path) BY CasesAssumption
  <2>2. Response.path = ResponsePath BY <2>1 DEF Response
  <2>3. \A x : IsVec(<<x>>) BY DEF IsVec, Range
  <2> QED BY <2>1, <2>2, <2>3 DEF ResponsePath
<1>4. ASSUME NEW call PROVE IsAnswer(PageOf(call, h))
  <2>1. PICK J : IsJson(J) /\ Absent \in J /\ PageOf(call, h).body \in J BY PageBodyJson
  <2>2. IsVec(ExtractRows(PageOf(call, h).body, Response)) BY <1>3, <2>1, ExtractRowsVec
  <2>3. /\ "status" \in DOMAIN PageOf(call, h)
        /\ PageOf(call, h).reset = h.reset /\ PageOf(call, h).retryAfter = h.retryAfter
    BY DEF PageOf, Reply
  <2>4. /\ PageOf(call, h) # Absent /\ PageOf(call, h).reset \in Nat
        /\ PageOf(call, h).retryAfter \in Nat \cup {None}
    BY <1>1, <1>2, <2>3
  <2> QED BY <2>2, <2>4 DEF IsAnswer
<1>5. ASSUME NEW kind PROVE IsAnswer(Failure(kind, h))
  <2>1. PICK J : IsJson(J) /\ Absent \in J /\ Failure(kind, h).body \in J BY FailureBodyJson
  <2>2. IsVec(ExtractRows(Failure(kind, h).body, Response)) BY <1>3, <2>1, ExtractRowsVec
  <2>3. /\ "status" \in DOMAIN Failure(kind, h)
        /\ Failure(kind, h).reset = h.reset /\ Failure(kind, h).retryAfter = h.retryAfter
    BY DEF Failure, Reply
  <2>4. /\ Failure(kind, h) # Absent /\ Failure(kind, h).reset \in Nat
        /\ Failure(kind, h).retryAfter \in Nat \cup {None}
    BY <1>1, <1>2, <2>3
  <2> QED BY <2>2, <2>4 DEF IsAnswer
<1> QED BY <1>4, <1>5

\* Sending: the request is recorded, and the scan goes on from there with the
\* same binding and page.  What is left is where the program and the clock are.
LEMMA SendKeeps ==
  ASSUME ScanInv, pc = "send", NEW status, NEW due \in Nat, Record(status, due), status # 0 => Resolved,
         UNCHANGED <<c, lim, sets, explode, bind, out, fetchVars>>,
         clock' \in Nat, hops' = 0,
         \/ pc' = "done" /\ attempt' = attempt
         \/ /\ pc' = "send" /\ attempt < c.retry.max_retries /\ attempt' = attempt + 1
            /\ IsRateLimit(c.rateLimit, status) => due <= clock'
         \/ /\ pc' = "receive" /\ attempt' = attempt /\ IsAnswer(resp')
            /\ Throttle(c.rateLimit, resp') \in Nat
            /\ ~IsRateLimit(c.rateLimit, status) => due <= clock' + Throttle(c.rateLimit, resp')
  PROVE ScanInv'
<1>1. /\ c \in Cases /\ IsVec(sets) /\ c.mode # "raw" /\ 1 <= bind /\ bind <= Len(sets)
      /\ bind \in Nat /\ page \in Nat /\ made \in Nat /\ clock \in Nat /\ attempt \in Nat
      /\ InFlight \in 0..1
  BY DEF ScanInv, TypeInv, ControlInv, InFlight
<1>2. /\ c' = c /\ lim' = lim /\ sets' = sets /\ out' = out /\ bind' = bind /\ page' = page
      /\ rows' = rows /\ url' = url
  BY DEF fetchVars
<1>3. PerPage' = PerPage /\ PerBinding' = PerBinding /\ CallBound' = CallBound /\ MaxRows' = MaxRows
      /\ Target' = Target /\ At' = Target /\ InFlight' = 0
  BY <1>2 DEF PerPage, PerBinding, CallBound, MaxRows, Target, RawTarget, At, InFlight
<1>4. made' = made + (1 - InFlight) /\ IsVec(calls') /\ Len(calls') <= 2 BY Recorded
<1>5. Checked(Target) /\ Checked(At) BY DEF ScanInv, TargetInv
<1>6. calls # <<>> /\ Latest.bind = bind /\ (Limited(Latest) <=> Latest.page = page) => Latest.due <= clock
  BY DEF ScanInv, PaceInv
<1>7. /\ \A i \in DOMAIN calls' : /\ calls'[i].bind \in Nat /\ calls'[i].page \in Nat
                                  /\ calls'[i].at \in Nat /\ calls'[i].due \in Nat
      /\ (\A i \in DOMAIN calls : Allowed(calls[i]))'
      /\ \A i \in DOMAIN calls' : calls'[i].bind <= bind
      /\ PaceHonored'
      /\ calls' # <<>> /\ Latest' = NewCall(status, due)
  BY <1>2, <1>5, <1>6, RecordKeeps
<1>8. /\ Latest'.bind = bind /\ Latest'.page = page /\ Latest'.status = status /\ Latest'.due = due
      /\ Limited(Latest)' = IsRateLimit(c.rateLimit, status)
  BY <1>2, <1>7 DEF NewCall, Limited
<1>9. pc' \in {"done", "send", "receive"} /\ attempt' \in Nat BY <1>1
<1>10. TypeInv'
  <2>1. made' \in Nat BY <1>1, <1>4
  <2> QED BY <1>2, <1>4, <1>7, <1>9, <2>1 DEF ScanInv, TypeInv
<1>11. ControlInv'
  <2>1. pc' = "receive" => IsVec(PageRows')
    <3>1. PageRows' = ExtractRows(resp'.body, Response) BY <1>2 DEF PageRows, Response, ResponsePath
    <3> QED BY <3>1 DEF IsAnswer
  <2> QED BY <1>1, <1>2, <1>9, <2>1 DEF ControlInv
<1>12. BudgetInv'
  <2> DEFINE A == (bind - 1) * PerBinding
             B == page * PerPage
             C == (page + 1) * PerPage
  <2>1. /\ page < c.maxPages /\ attempt <= c.retry.max_retries /\ made <= A + (B + (attempt + InFlight))
    BY DEF ScanInv, BudgetInv
  <2>2. /\ A + PerBinding <= CallBound /\ A \in Nat
        /\ B \in Nat /\ C = B + PerPage
        /\ B + PerPage <= PerBinding
    BY <1>1, <2>1, WithinBudget
  <2>3. PerPage = c.retry.max_retries + 1 /\ PerPage \in Nat /\ PerBinding \in Nat /\ c.retry.max_retries \in Nat
    BY <1>1, QueryTypes DEF PerPage
  <2>4. CallBound \in Nat BY <1>1, CallBoundIs
  <2> HIDE DEF A, B, C
  <2> DEFINE R == c.retry.max_retries
             F == InFlight
  <2>5. made' <= A + (B + (attempt + 1)) /\ made' <= A + C /\ B + (attempt + 1) <= B + PerPage
    <3>1. attempt \in Nat /\ made \in Nat /\ A \in Nat /\ B \in Nat /\ R \in Nat /\ PerPage = R + 1
          /\ attempt <= R /\ F \in 0..1 /\ made <= A + (B + (attempt + F)) /\ C = B + PerPage
          /\ made' = made + (1 - F)
      BY <1>1, <1>4, <2>1, <2>2, <2>3
    <3> HIDE DEF R, F
    <3> QED BY <3>1
  <2>6. made' <= CallBound
    <3>0. made' \in Nat BY <1>1, <1>4
    <3>1. C \in Nat /\ C <= PerBinding BY <2>2, <2>3
    <3>2. made' <= A + C /\ A + PerBinding <= CallBound BY <2>2, <2>5
    <3> QED BY <2>2, <2>3, <2>4, <3>0, <3>1, <3>2
  <2>7. pc' = "send" => attempt' <= c.retry.max_retries /\ attempt' = attempt + 1
    BY <1>1, <2>3
  <2>8. pc' = "send" => made' <= A + (B + (attempt' + 0)) BY <1>1, <2>5, <2>7
  <2> QED BY <1>2, <1>3, <1>9, <2>1, <2>5, <2>6, <2>7, <2>8 DEF BudgetInv, A, B, C
<1>13. TargetInv'
  <2>1. Checked(Target)' /\ Checked(At)' BY <1>2, <1>3, <1>5 DEF Checked
  <2> QED BY <1>7, <2>1 DEF TargetInv
<1>14. RowsInv' BY <1>2, <1>3 DEF ScanInv, RowsInv
<1>15. PaceInv'
  <2>1. \A i \in DOMAIN calls' : calls'[i].bind <= bind' BY <1>2, <1>7
  <2>2. pc' = "receive" => resp' # Absent BY DEF IsAnswer
  <2> QED BY <1>2, <1>7, <1>8, <1>9, <2>1, <2>2 DEF PaceInv
<1> QED BY <1>10, <1>11, <1>12, <1>13, <1>14, <1>15 DEF ScanInv

\* An answer is kept, or the request goes round again after the wait.
LEMMA AnsweredKeeps ==
  ASSUME ScanInv, pc = "send", Resolved, NEW r, IsAnswer(r), Answered(r),
         UNCHANGED <<c, lim, sets, explode, bind, out, fetchVars>>
  PROVE ScanInv'
<1>1. c \in Cases /\ clock \in Nat /\ attempt \in Nat BY DEF ScanInv, TypeInv
<1>2. r.reset \in Nat /\ r.retryAfter \in Nat \cup {None} BY DEF IsAnswer
<1>3. /\ NotBefore(r) \in Nat /\ WaitMs(c.retry, c.rateLimit, r, attempt) \in Nat
      /\ Throttle(c.rateLimit, r) \in Nat
      /\ IsRateLimit(c.rateLimit, r.status) =>
           NotBefore(r) <= clock + WaitMs(c.retry, c.rateLimit, r, attempt)
      /\ ~IsRateLimit(c.rateLimit, r.status) => NotBefore(r) <= clock + Throttle(c.rateLimit, r)
  BY <1>1, <1>2, Waits
<1>4. Record(r.status, NotBefore(r)) /\ hops' = 0 BY DEF Answered, Landed
<1>5. CASE Retryable(c.rateLimit, r.status) /\ attempt < c.retry.max_retries
  <2>1. /\ attempt' = attempt + 1 /\ pc' = "send"
        /\ clock' = clock + WaitMs(c.retry, c.rateLimit, r, attempt)
    BY <1>5 DEF Answered
  <2>2. clock' \in Nat BY <1>1, <1>3, <2>1
  <2>3. IsRateLimit(c.rateLimit, r.status) => NotBefore(r) <= clock' BY <1>3, <2>1
  <2> QED BY <1>3, <1>4, <1>5, <2>1, <2>2, <2>3, SendKeeps
<1>6. CASE ~(Retryable(c.rateLimit, r.status) /\ attempt < c.retry.max_retries)
  <2>1. resp' = r /\ pc' = "receive" /\ attempt' = attempt /\ clock' = clock BY <1>6 DEF Answered
  <2>2. /\ clock' \in Nat /\ IsAnswer(resp') /\ Throttle(c.rateLimit, resp') \in Nat
        /\ ~IsRateLimit(c.rateLimit, r.status) => NotBefore(r) <= clock' + Throttle(c.rateLimit, resp')
    BY <1>1, <1>3, <2>1
  <2> QED BY <1>3, <1>4, <2>1, <2>2, SendKeeps
<1> QED BY <1>5, <1>6

\* A page.
LEMMA SendAnsweredKeeps ==
  ASSUME ScanInv, SendAnswered
  PROVE ScanInv'
<1>1. c \in Cases BY DEF ScanInv, TypeInv
<1>2. /\ pc = "send" /\ Resolved
      /\ \E r \in {PageOf(call, h) : call \in {Call}, h \in Headers} : Answered(r)
      /\ UNCHANGED <<c, lim, sets, explode, bind, out, fetchVars>>
  BY DEF SendAnswered
<1>3. PICK h \in Headers : Answered(PageOf(Call, h)) BY <1>2
<1>4. IsAnswer(PageOf(Call, h)) BY <1>1, AnswersTyped
<1> QED BY <1>2, <1>3, <1>4, AnsweredKeeps

\* A failing answer.
LEMMA SendRefusedKeeps ==
  ASSUME ScanInv, SendRefused
  PROVE ScanInv'
<1>1. c \in Cases BY DEF ScanInv, TypeInv
<1>2. /\ pc = "send" /\ Resolved
      /\ \E r \in {Failure(kind, h) : kind \in FaultKinds \cap {"json", "html"}, h \in Headers} : Answered(r)
      /\ UNCHANGED <<c, lim, sets, explode, bind, out, fetchVars>>
  BY DEF SendRefused
<1>3. PICK kind \in FaultKinds \cap {"json", "html"}, h \in Headers : Answered(Failure(kind, h)) BY <1>2
<1>4. IsAnswer(Failure(kind, h)) BY <1>1, AnswersTyped
<1> QED BY <1>2, <1>3, <1>4, AnsweredKeeps

\* No answer at all.
LEMMA SendFailsKeeps ==
  ASSUME ScanInv, SendFails
  PROVE ScanInv'
<1>1. c \in Cases /\ clock \in Nat /\ attempt \in Nat BY DEF ScanInv, TypeInv
<1>2. /\ pc = "send" /\ Record(0, clock) /\ hops' = 0
      /\ UNCHANGED <<c, lim, sets, explode, bind, out, fetchVars>>
  BY DEF SendFails, Landed
<1>3. BackoffMs(c.retry, attempt) \in Nat
  <2> DEFINE r == [reset |-> 0, retryAfter |-> None]
  <2>1. r.reset \in Nat /\ r.retryAfter \in Nat \cup {None} OBVIOUS
  <2> HIDE DEF r
  <2> QED BY <1>1, <2>1, Waits
<1>4. \/ pc' = "done" /\ attempt' = attempt /\ clock' = clock
      \/ /\ pc' = "send" /\ attempt < c.retry.max_retries /\ attempt' = attempt + 1
         /\ clock' = clock + BackoffMs(c.retry, attempt)
  BY <1>2 DEF SendFails, Finish
<1>5. clock' \in Nat /\ clock <= clock' BY <1>1, <1>3, <1>4
<1> QED BY <1>1, <1>2, <1>4, <1>5, SendKeeps

\* A request is redirected to a target the policy allows, or ends the scan; a
\* redirected request stays the one request it was.
LEMMA SendRedirectedKeeps ==
  ASSUME ScanInv, SendRedirected
  PROVE ScanInv'
<1>1. /\ c \in Cases /\ IsVec(sets) /\ 1 <= bind /\ bind <= Len(sets) /\ pc \in {"send", "raw_send"}
      /\ bind \in Nat /\ page \in Nat /\ made \in Nat /\ clock \in Nat /\ attempt \in Nat /\ hops \in 0..5
  BY DEF ScanInv, TypeInv, ControlInv, SendRedirected
<1>2. /\ c' = c /\ lim' = lim /\ sets' = sets /\ out' = out /\ bind' = bind /\ page' = page
      /\ rows' = rows /\ url' = url /\ attempt' = attempt /\ resp' = resp /\ clock' = clock
  BY DEF SendRedirected, fetchVars
<1>3. /\ PerPage' = PerPage /\ PerBinding' = PerBinding /\ CallBound' = CallBound /\ MaxRows' = MaxRows
      /\ Target' = Target
  BY <1>2 DEF PerPage, PerBinding, CallBound, MaxRows, Target, RawTarget
<1>4. PICK to \in c.redirects :
        /\ Record(302, clock)
        /\ \/ /\ FollowsRedirect(c.targets[to], hops + 1, c.auth # "none")
              /\ hops' = hops + 1 /\ via' = to /\ pc' = pc
           \/ pc' = "done" /\ hops' = 0
  BY DEF SendRedirected, Finish, Landed
<1>5. made' = made + (1 - InFlight) /\ IsVec(calls') /\ Len(calls') <= 2 BY <1>1, <1>4, Recorded
<1>6. Checked(Target) /\ Checked(At) BY <1>1 DEF ScanInv, TargetInv
<1>7. /\ \A i \in DOMAIN calls' : /\ calls'[i].bind \in Nat /\ calls'[i].page \in Nat
                                  /\ calls'[i].at \in Nat /\ calls'[i].due \in Nat
      /\ (\A i \in DOMAIN calls : Allowed(calls[i]))'
      /\ \A i \in DOMAIN calls' : calls'[i].bind <= bind
      /\ PaceHonored'
      /\ calls' # <<>> /\ Latest' = NewCall(302, clock)
  <2>1. calls # <<>> /\ Latest.bind = bind /\ (Limited(Latest) <=> Latest.page = page) => Latest.due <= clock
    BY <1>1 DEF ScanInv, PaceInv
  <2>2. Resolved BY DEF SendRedirected
  <2> QED BY <1>1, <1>2, <1>4, <1>6, <2>1, <2>2, RecordKeeps
<1>8. InFlight \in 0..1 /\ made' \in Nat BY <1>1, <1>5 DEF InFlight
<1>9. RowsInv' BY <1>2, <1>3 DEF ScanInv, RowsInv
<1>10. Latest'.due <= clock' BY <1>1, <1>2, <1>7 DEF NewCall
<1>11. \A i \in DOMAIN calls' : calls'[i].bind <= bind' BY <1>2, <1>7
<1>12. CASE pc' = "done" /\ hops' = 0
  <2>1. TypeInv' BY <1>2, <1>5, <1>7, <1>8, <1>12 DEF ScanInv, TypeInv
  <2>2. ControlInv' BY <1>12 DEF ControlInv
  <2>3. BudgetInv'
    <3>1. made' <= CallBound
      <4>1. CASE InFlight = 1
        <5>1. made' = made BY <1>1, <1>5, <4>1
        <5> QED BY <5>1, MadeBounded
      <4>2. CASE InFlight = 0 /\ pc = "send" BY <1>1, <1>5, <4>2, SendBudget
      <4>3. CASE InFlight = 0 /\ pc = "raw_send" BY <1>1, <1>5, <4>3, SendBudget
      <4> QED BY <1>1, <1>8, <4>1, <4>2, <4>3
    <3> QED BY <1>3, <1>12, <3>1 DEF BudgetInv
  <2>4. TargetInv' BY <1>7, <1>12 DEF TargetInv
  <2>5. PaceInv' BY <1>7, <1>11, <1>12 DEF PaceInv
  <2> QED BY <1>9, <2>1, <2>2, <2>3, <2>4, <2>5 DEF ScanInv
<1>13. CASE /\ FollowsRedirect(c.targets[to], hops + 1, c.auth # "none")
            /\ hops' = hops + 1 /\ via' = to /\ pc' = pc
  <2>1. hops' \in 0..5 /\ hops' # 0 BY <1>1, <1>13 DEF FollowsRedirect
  <2>2. InFlight' = 1 /\ At' = c.targets[to] BY <1>2, <2>1, <1>13 DEF InFlight, At
  <2>3. TypeInv' BY <1>2, <1>5, <1>7, <1>8, <1>13, <2>1 DEF ScanInv, TypeInv
  <2>4. ControlInv' BY <1>1, <1>2, <1>13 DEF ScanInv, ControlInv
  <2>5. BudgetInv'
    <3> DEFINE A == (bind - 1) * PerBinding
               B == page * PerPage
    <3>1. CASE pc = "send"
      <4>1. /\ page < c.maxPages /\ attempt <= c.retry.max_retries /\ c.mode # "raw"
            /\ made <= A + (B + (attempt + InFlight))
        BY <3>1 DEF ScanInv, BudgetInv, ControlInv
      <4>2. A \in Nat /\ B \in Nat BY <1>1, <4>1, WithinBudget
      <4> HIDE DEF A, B
      <4>3. made' <= A + (B + (attempt + 1)) BY <1>1, <1>5, <1>8, <4>1, <4>2
      <4> QED BY <1>2, <1>3, <1>13, <2>2, <3>1, <4>1, <4>3 DEF BudgetInv, A, B
    <3>2. CASE pc = "raw_send"
      <4>1. made <= (bind - 1) + InFlight BY <3>2 DEF ScanInv, BudgetInv
      <4>2. made' <= (bind - 1) + 1 BY <1>1, <1>5, <1>8, <4>1
      <4> QED BY <1>2, <1>13, <2>2, <3>2, <4>2 DEF BudgetInv
    <3> QED BY <1>1, <3>1, <3>2
  <2>6. TargetInv'
    <3>1. Checked(c.targets[to]) BY <1>13 DEF FollowsRedirect, Checked
    <3>2. Checked(Target)' /\ Checked(At)' BY <1>2, <1>3, <1>6, <2>2, <3>1 DEF Checked
    <3> QED BY <1>7, <3>2 DEF TargetInv
  <2>7. PaceInv' BY <1>1, <1>7, <1>10, <1>11, <1>13 DEF PaceInv
  <2> QED BY <1>9, <2>3, <2>4, <2>5, <2>6, <2>7 DEF ScanInv
<1> QED BY <1>4, <1>12, <1>13

\* The next pair of the raw table is checked as a page is.
LEMMA NextRawKeeps ==
  ASSUME ScanInv, NextRaw
  PROVE ScanInv'
<1>1. /\ c \in Cases /\ IsVec(sets) /\ c.mode = "raw" /\ bind <= Len(sets) /\ made <= bind
      /\ bind \in Nat /\ made \in Nat /\ pc = "raw" /\ hops = 0
  BY DEF ScanInv, TypeInv, ControlInv, BudgetInv, NextRaw
<1>2. /\ c' = c /\ lim' = lim /\ sets' = sets /\ out' = out /\ page' = page /\ rows' = rows
      /\ attempt' = attempt /\ resp' = resp /\ clock' = clock /\ calls' = calls /\ made' = made /\ hops' = 0
  BY <1>1 DEF NextRaw, fetchVars, sendVars, hopVars
<1>3. Len(sets) \in Nat BY <1>1 DEF IsVec
<1>4. CallBound' = CallBound /\ MaxRows' = MaxRows /\ Latest' = Latest /\ InFlight' = 0 BY <1>2 DEF CallBound, MaxRows, Latest, InFlight
<1>5. RowsInv' BY <1>2, <1>4 DEF ScanInv, RowsInv
<1>6. /\ (\A i \in DOMAIN calls : Allowed(calls[i]))' /\ PaceHonored'
      /\ \A i \in DOMAIN calls : calls[i].bind <= bind /\ calls[i].bind \in Nat
  BY <1>2 DEF ScanInv, TargetInv, Allowed, PaceInv, PaceHonored, TypeInv
<1>7. \/ pc' = "done" /\ bind' \in {bind, bind + 1}
      \/ /\ pc' = "raw_send" /\ bind' = bind + 1 /\ bind # Len(sets)
         /\ CheckTarget(RawTarget(bind + 1)) /\ ~AuthRefused(RawTarget(bind + 1))
  BY DEF NextRaw, Finish
<1>8. bind' \in Nat /\ TypeInv' BY <1>1, <1>2, <1>7 DEF ScanInv, TypeInv
<1>9. \A i \in DOMAIN calls' : calls'[i].bind <= bind' BY <1>1, <1>2, <1>6, <1>7
<1>10. CASE pc' = "done"
  <2>1. ControlInv' BY <1>2, <1>10 DEF ControlInv
  <2>2. BudgetInv' BY <1>2, <1>4, <1>10, MadeBounded DEF BudgetInv
  <2>3. TargetInv' BY <1>6, <1>10 DEF TargetInv
  <2>4. PaceInv' BY <1>6, <1>9, <1>10 DEF PaceInv
  <2> QED BY <1>5, <1>8, <2>1, <2>2, <2>3, <2>4 DEF ScanInv
<1>11. CASE /\ pc' = "raw_send" /\ bind' = bind + 1 /\ bind # Len(sets)
            /\ CheckTarget(RawTarget(bind + 1)) /\ ~AuthRefused(RawTarget(bind + 1))
  <2>1. bind + 1 \in Nat /\ bind + 1 <= Len(sets) /\ 1 <= bind + 1 BY <1>1, <1>3, <1>11
  <2>2. ControlInv' BY <1>1, <1>2, <1>11, <2>1 DEF ControlInv
  <2>3. BudgetInv'
    <3>1. made' <= (bind' - 1) + InFlight' BY <1>1, <1>2, <1>4, <1>11
    <3> QED BY <1>11, <3>1 DEF BudgetInv
  <2>4. TargetInv'
    <3>1. Target' = RawTarget(bind + 1) /\ At' = Target' BY <1>1, <1>2, <1>11 DEF Target, RawTarget, At
    <3>2. Checked(RawTarget(bind + 1)) BY <1>11 DEF Checked, AuthRefused
    <3>3. Checked(Target)' /\ Checked(At)' BY <1>2, <3>1, <3>2 DEF Checked
    <3> QED BY <1>6, <3>3 DEF TargetInv
  <2>5. PaceInv'
    <3>1. calls # <<>> => Latest.bind # bind + 1
      <4>1. calls # <<>> => Len(calls) \in DOMAIN calls BY DEF ScanInv, TypeInv, IsVec
      <4>2. \A i \in DOMAIN calls : calls[i].bind # bind + 1 BY <1>1, <1>6
      <4> QED BY <4>1, <4>2 DEF Latest, Last
    <3> QED BY <1>2, <1>4, <1>6, <1>9, <1>11, <3>1 DEF PaceInv
  <2> QED BY <1>5, <1>8, <2>2, <2>3, <2>4, <2>5 DEF ScanInv
<1> QED BY <1>7, <1>10, <1>11

\* A request of the raw table: one for each pair.
LEMMA SendRawKeeps ==
  ASSUME ScanInv, SendRaw
  PROVE ScanInv'
<1>1. /\ c \in Cases /\ IsVec(sets) /\ IsVec(out) /\ c.mode = "raw" /\ bind <= Len(sets) /\ 1 <= bind
      /\ made <= (bind - 1) + InFlight /\ InFlight \in 0..1
      /\ bind \in Nat /\ page \in Nat /\ made \in Nat /\ clock \in Nat /\ pc = "raw_send"
  BY DEF ScanInv, TypeInv, ControlInv, BudgetInv, SendRaw, InFlight
<1>2. /\ c' = c /\ lim' = lim /\ sets' = sets /\ page' = page /\ rows' = rows /\ attempt' = attempt
      /\ resp' = resp /\ clock' = clock /\ bind' = bind /\ hops' = 0
  BY DEF SendRaw, fetchVars, Landed
<1>3. Len(sets) \in Nat BY <1>1 DEF IsVec
<1>4. CallBound' = CallBound /\ MaxRows' = MaxRows /\ CallBound = Len(sets) /\ MaxRows = None
  BY <1>1, <1>2, CallBoundIs DEF CallBound, MaxRows
<1>5. RowsInv' BY <1>1, <1>2, <1>4 DEF RowsInv
<1>6. PICK status : /\ Record(status, clock) /\ (status # 0 => Resolved)
                    /\ \/ /\ pc' = "raw" /\ \E x : out' = Append(out, x)
                       \/ pc' = "done" /\ out' = out
  BY DEF SendRaw, Finish
<1>7. pc' \in {"raw", "done"} /\ IsVec(out')
  <2>1. \A x : IsVec(Append(out, x))
    <3> SUFFICES ASSUME NEW x PROVE IsVec(Append(out, x)) OBVIOUS
    <3> DEFINE S == Range(out) \cup {x}
    <3>1. out \in Seq(S) /\ x \in S BY <1>1 DEF IsVec
    <3> HIDE DEF S
    <3>2. Append(out, x) \in Seq(S) BY <3>1
    <3> QED BY <3>2, SeqVec
  <2> QED BY <1>1, <1>6, <2>1
<1>8. made' = made + (1 - InFlight) /\ IsVec(calls') /\ Len(calls') <= 2 BY <1>1, <1>6, Recorded
<1>9. /\ \A i \in DOMAIN calls' : /\ calls'[i].bind \in Nat /\ calls'[i].page \in Nat
                                  /\ calls'[i].at \in Nat /\ calls'[i].due \in Nat
      /\ (\A i \in DOMAIN calls : Allowed(calls[i]))'
      /\ \A i \in DOMAIN calls' : calls'[i].bind <= bind
      /\ PaceHonored'
  <2>1. Checked(At) BY <1>1 DEF ScanInv, TargetInv
  <2>2. calls # <<>> /\ Latest.bind = bind /\ (Limited(Latest) <=> Latest.page = page) => Latest.due <= clock
    BY <1>1 DEF ScanInv, PaceInv
  <2> QED BY <1>1, <1>2, <1>6, <2>1, <2>2, RecordKeeps
<1>10. TypeInv'
  <2>1. made' \in Nat BY <1>1, <1>8
  <2> QED BY <1>2, <1>7, <1>8, <1>9, <2>1 DEF ScanInv, TypeInv
<1>11. ControlInv' BY <1>1, <1>2, <1>7 DEF ControlInv
<1>12. BudgetInv'
  <2>1. made' <= bind' /\ made' <= CallBound' BY <1>1, <1>2, <1>3, <1>4, <1>8
  <2> QED BY <1>7, <2>1 DEF BudgetInv
<1>13. TargetInv' BY <1>7, <1>9 DEF TargetInv
<1>14. PaceInv'
  <2>1. \A i \in DOMAIN calls' : calls'[i].bind <= bind' BY <1>2, <1>9
  <2> QED BY <1>7, <1>9, <2>1 DEF PaceInv
<1> QED BY <1>5, <1>10, <1>11, <1>12, <1>13, <1>14 DEF ScanInv

\* The end of a binding: its rows are cut to the limit, checked against the
\* cap and added, or the scan fails.
LEMMA EndFetchRows ==
  ASSUME ScanInv, c.mode # "raw", NEW fetched, IsVec(fetched), EndFetch(fetched)
  PROVE \/ pc' = "done" /\ out' = out
        \/ /\ pc' = "union" /\ IsVec(out')
           /\ MaxRows # None => Len(out') <= MaxRows
           /\ lim # None => Len(out') <= lim
<1>1. /\ c \in Cases /\ IsVec(out) /\ lim \in Nat \cup {None} /\ (lim # None => Len(out) <= lim)
  BY DEF ScanInv, TypeInv, RowsInv
<1>2. MaxRows \in Nat \cup {None} BY <1>1, QueryTypes
<1>3. Len(out) \in Nat /\ Len(fetched) \in Nat BY <1>1 DEF IsVec
<1> DEFINE got == IF Remaining # None /\ Len(fetched) > Remaining
                  THEN SubSeq(fetched, 1, Remaining) ELSE fetched
           columns == EffectiveColumns(c.spec)
           batch == BuildBatch(columns, got, sets[bind])
<1>4. /\ IsVec(got) /\ Len(got) \in Nat
      /\ lim # None => Len(out) + Len(got) <= lim
  <2>1. CASE lim = None
    <3>1. got = fetched BY <2>1 DEF Remaining
    <3> QED BY <2>1, <3>1, <1>3
  <2>2. CASE lim # None
    <3>1. lim \in Nat /\ Remaining = lim - Len(out) /\ Remaining \in Nat
      BY <1>1, <1>3, <2>2 DEF Remaining
    <3>2. CASE Len(fetched) > Remaining
      <4>1. Remaining # None BY <3>1 DEF None
      <4>2. got = SubSeq(fetched, 1, Remaining) BY <3>2, <4>1
      <4>3. fetched \in Seq(Range(fetched)) BY DEF IsVec
      <4>4. Remaining <= Len(fetched) BY <1>3, <3>1, <3>2
      <4> DEFINE T == Range(fetched)
                 N == Remaining
      <4> HIDE DEF T, N
      <4>5. SubSeq(fetched, 1, N) \in Seq(T) /\ Len(SubSeq(fetched, 1, N)) = N
        BY <3>1, <4>3, <4>4 DEF T, N
      <4>6. IsVec(SubSeq(fetched, 1, N)) BY <4>5, SeqVec
      <4>7. IsVec(got) /\ Len(got) = Remaining BY <4>2, <4>5, <4>6 DEF N
      <4> QED BY <1>3, <3>1, <4>7
    <3>3. CASE ~(Len(fetched) > Remaining)
      <4>1. got = fetched BY <3>3
      <4>2. Len(fetched) <= Remaining BY <1>3, <3>1, <3>3
      <4> QED BY <1>3, <3>1, <4>1, <4>2
    <3> QED BY <3>2, <3>3
  <2> QED BY <2>1, <2>2
<1>5. \/ pc' = "done" /\ out' = out
      \/ /\ ~(MaxRows # None /\ Len(out) + Len(got) > MaxRows)
         /\ out' = out \o batch /\ pc' = "union"
  BY DEF EndFetch, Finish
<1> HIDE DEF got, columns
<1>6. IsVec(batch) /\ Len(batch) = Len(got)
  <2>1. DOMAIN got = 1..Len(got) BY <1>4 DEF IsVec
  <2>2. batch = [r \in 1..Len(got) |->
                   [i \in DOMAIN columns |-> Cell(columns[i].type, PullValue(got[r], columns[i], sets[bind]))]]
    BY <2>1 DEF BuildBatch
  <2>3. batch = [r \in 1..Len(got) |-> batch[r]] BY <2>2
  <2> HIDE DEF batch
  <2> QED BY <1>4, <2>3, VecOver
<1> HIDE DEF batch
<1>7. IsVec(out \o batch) /\ Len(out \o batch) = Len(out) + Len(got) BY <1>1, <1>6, VecConcat
<1>8. CASE /\ ~(MaxRows # None /\ Len(out) + Len(got) > MaxRows)
           /\ out' = out \o batch /\ pc' = "union"
  <2>1. MaxRows # None => Len(out) + Len(got) <= MaxRows BY <1>2, <1>3, <1>4, <1>8
  <2> QED BY <1>4, <1>7, <1>8, <2>1
<1> QED BY <1>5, <1>8

\* A page's answer ends the scan, the binding or the page.
LEMMA ReceiveCases ==
  ASSUME ScanInv, Receive
  PROVE \/ pc' = "done" /\ out' = out /\ UNCHANGED fetchVars
        \/ /\ pc' = "union" /\ IsVec(out') /\ UNCHANGED fetchVars
           /\ MaxRows # None => Len(out') <= MaxRows
           /\ lim # None => Len(out') <= lim
        \/ pc' = "page" /\ out' = out /\ page' = page + 1 /\ IsVec(rows')
<1>1. pc = "receive" /\ c.mode # "raw" /\ IsVec(rows) /\ IsVec(PageRows)
  BY DEF ScanInv, TypeInv, ControlInv, Receive
<1> DEFINE all == rows \o PageRows
<1>2. IsVec(all) BY <1>1, VecConcat
<1>3. \/ pc' = "done" /\ out' = out /\ UNCHANGED fetchVars
      \/ EndFetch(rows) /\ UNCHANGED fetchVars
      \/ EndFetch(all) /\ UNCHANGED fetchVars
      \/ pc' = "page" /\ out' = out /\ page' = page + 1 /\ rows' = all
  BY DEF Receive, Finish
<1> HIDE DEF all
<1>4. CASE EndFetch(rows) /\ UNCHANGED fetchVars BY <1>1, <1>4, EndFetchRows
<1>5. CASE EndFetch(all) /\ UNCHANGED fetchVars BY <1>1, <1>2, <1>5, EndFetchRows
<1> QED BY <1>2, <1>3, <1>4, <1>5

\* Reading an answer spends what its page was given, and keeps the rows within
\* the cap and the limit.
LEMMA ReceiveKeeps ==
  ASSUME ScanInv, Receive
  PROVE ScanInv'
<1>1. /\ c \in Cases /\ IsVec(sets) /\ c.mode # "raw" /\ 1 <= bind /\ bind <= Len(sets) /\ pc = "receive"
      /\ bind \in Nat /\ page \in Nat /\ made \in Nat /\ clock \in Nat /\ attempt \in Nat /\ hops = 0
  BY DEF ScanInv, TypeInv, ControlInv, Receive
<1>2. /\ c' = c /\ lim' = lim /\ sets' = sets /\ bind' = bind /\ attempt' = attempt /\ resp' = resp
      /\ clock' = clock /\ calls' = calls /\ made' = made /\ hops' = 0
  BY <1>1 DEF Receive, sendVars, hopVars
<1>3. PerPage' = PerPage /\ PerBinding' = PerBinding /\ CallBound' = CallBound /\ MaxRows' = MaxRows
  BY <1>2 DEF PerPage, PerBinding, CallBound, MaxRows
<1>4. TargetInv' /\ Latest' = Latest /\ PaceHonored' /\ \A i \in DOMAIN calls' : calls'[i].bind <= bind'
  <2>1. pc' \notin {"send", "raw_send"} BY ReceiveCases
  <2>2. TargetInv' BY <1>2, <2>1 DEF ScanInv, TargetInv, Allowed
  <2>3. Latest' = Latest BY <1>2 DEF Latest
  <2>4. PaceHonored' BY <1>2 DEF ScanInv, PaceInv, PaceHonored
  <2>5. \A i \in DOMAIN calls' : calls'[i].bind <= bind' BY <1>2 DEF ScanInv, PaceInv
  <2> QED BY <2>2, <2>3, <2>4, <2>5
<1>5. made <= CallBound BY MadeBounded
<1> DEFINE A == (bind - 1) * PerBinding
           C == (page + 1) * PerPage
<1>6. /\ page < c.maxPages /\ made <= A + C
      /\ A \in Nat /\ A + PerBinding = bind * PerBinding
      /\ C = page * PerPage + PerPage /\ C <= PerBinding /\ page * PerPage \in Nat
  <2>1. page < c.maxPages /\ made <= A + C BY <1>1 DEF ScanInv, BudgetInv
  <2> QED BY <1>1, <2>1, WithinBudget
<1>7. PerPage \in Nat /\ PerBinding \in Nat /\ c.maxPages \in Nat BY <1>1, QueryTypes
<1>8. CASE pc' = "done" /\ out' = out /\ UNCHANGED fetchVars
  <2>1. page' = page /\ rows' = rows BY <1>8 DEF fetchVars
  <2>2. TypeInv' BY <1>2, <1>8, <2>1 DEF ScanInv, TypeInv
  <2>3. ControlInv' BY <1>2, <1>8 DEF ControlInv
  <2>4. BudgetInv' BY <1>2, <1>3, <1>5, <1>8 DEF BudgetInv
  <2>5. RowsInv' BY <1>2, <1>3, <1>8 DEF ScanInv, RowsInv
  <2>6. PaceInv' BY <1>4, <1>8 DEF PaceInv
  <2> QED BY <1>4, <2>2, <2>3, <2>4, <2>5, <2>6 DEF ScanInv
<1>9. CASE /\ pc' = "union" /\ IsVec(out') /\ UNCHANGED fetchVars
           /\ MaxRows # None => Len(out') <= MaxRows
           /\ lim # None => Len(out') <= lim
  <2>1. page' = page /\ rows' = rows BY <1>9 DEF fetchVars
  <2>2. TypeInv' BY <1>2, <1>9, <2>1 DEF ScanInv, TypeInv
  <2>3. ControlInv' BY <1>1, <1>2, <1>9 DEF ControlInv
  <2>4. BudgetInv'
    <3>1. C \in Nat BY <1>6, <1>7
    <3> HIDE DEF A, C
    <3>2. made <= bind * PerBinding
      <4> DEFINE K == bind * PerBinding
      <4>1. A + PerBinding = K BY <1>6
      <4> HIDE DEF K
      <4>2. made <= K BY <1>1, <1>6, <1>7, <3>1, <4>1
      <4> QED BY <4>2 DEF K
    <3> QED BY <1>2, <1>3, <1>9, <3>2 DEF BudgetInv
  <2>5. RowsInv' BY <1>2, <1>3, <1>9 DEF RowsInv
  <2>6. PaceInv' BY <1>4, <1>9 DEF PaceInv
  <2> QED BY <1>4, <2>2, <2>3, <2>4, <2>5, <2>6 DEF ScanInv
<1>10. CASE pc' = "page" /\ out' = out /\ page' = page + 1 /\ IsVec(rows')
  <2>1. page + 1 \in Nat /\ page + 1 <= c.maxPages BY <1>1, <1>6, <1>7
  <2>2. TypeInv' BY <1>2, <1>10, <2>1 DEF ScanInv, TypeInv
  <2>3. ControlInv' BY <1>1, <1>2, <1>10 DEF ControlInv
  <2>4. BudgetInv' BY <1>2, <1>3, <1>6, <1>10, <2>1 DEF BudgetInv
  <2>5. RowsInv' BY <1>2, <1>3, <1>10 DEF ScanInv, RowsInv
  <2>6. PaceInv'
    <3>1. /\ calls # <<>> /\ resp # Absent /\ Latest.bind = bind /\ Latest.page = page
          /\ ~Limited(Latest) => Latest.due <= clock + Throttle(c.rateLimit, resp)
          /\ Throttle(c.rateLimit, resp) \in Nat
      BY <1>1 DEF ScanInv, PaceInv
    <3>2. Latest.page < page + 1 BY <1>1, <3>1
    <3>3. Limited(Latest)' = Limited(Latest) BY <1>2, <1>4 DEF Limited
    <3> QED BY <1>2, <1>4, <1>10, <3>1, <3>2, <3>3 DEF PaceInv
  <2> QED BY <1>4, <2>2, <2>3, <2>4, <2>5, <2>6 DEF ScanInv
<1> QED BY <1>8, <1>9, <1>10, ReceiveCases

\* Every step of a scan keeps the invariant.
LEMMA ScanStep == ScanInv /\ [Next]_vars => ScanInv'
<1> SUFFICES ASSUME ScanInv, [Next]_vars PROVE ScanInv' OBVIOUS
<1>1. CASE Bind BY <1>1, BindKeeps
<1>2. CASE NextBinding BY <1>2, NextBindingKeeps
<1>3. CASE RequestPage BY <1>3, RequestPageKeeps
<1>4. CASE SendAnswered BY <1>4, SendAnsweredKeeps
<1>5. CASE SendRefused BY <1>5, SendRefusedKeeps
<1>6. CASE SendFails BY <1>6, SendFailsKeeps
<1>7. CASE SendRaw BY <1>7, SendRawKeeps
<1>8. CASE Receive BY <1>8, ReceiveKeeps
<1>10. CASE SendRedirected BY <1>10, SendRedirectedKeeps
<1>11. CASE NextRaw BY <1>11, NextRawKeeps
<1>9. CASE UNCHANGED vars
  <2>1. /\ c' = c /\ pc' = pc /\ lim' = lim /\ sets' = sets /\ out' = out /\ bind' = bind /\ page' = page
        /\ rows' = rows /\ url' = url /\ resp' = resp /\ calls' = calls /\ made' = made
        /\ attempt' = attempt /\ clock' = clock /\ hops' = hops /\ via' = via
    BY <1>9 DEF vars, hopVars
  <2>2. /\ PerPage' = PerPage /\ PerBinding' = PerBinding /\ CallBound' = CallBound /\ MaxRows' = MaxRows
        /\ Target' = Target /\ At' = At /\ InFlight' = InFlight
        /\ Latest' = Latest /\ Limited(Latest)' = Limited(Latest)
    BY <2>1 DEF PerPage, PerBinding, CallBound, MaxRows, Target, RawTarget, At, InFlight, Latest, Limited
  <2>3. PageRows' = PageRows BY <2>1 DEF PageRows, Response, ResponsePath
  <2>4. TypeInv' BY <2>1 DEF ScanInv, TypeInv
  <2>5. ControlInv' BY <2>1, <2>3 DEF ScanInv, ControlInv
  <2>6. BudgetInv' BY <2>1, <2>2 DEF ScanInv, BudgetInv
  <2>7. TargetInv' BY <2>1, <2>2 DEF ScanInv, TargetInv, Allowed, Checked
  <2>8. RowsInv' BY <2>1, <2>2 DEF ScanInv, RowsInv
  <2>9. PaceInv' BY <2>1, <2>2 DEF ScanInv, PaceInv, PaceHonored
  <2> QED BY <2>4, <2>5, <2>6, <2>7, <2>8, <2>9 DEF ScanInv
<1> QED BY <1>1, <1>2, <1>3, <1>4, <1>5, <1>6, <1>7, <1>8, <1>9, <1>10, <1>11 DEF Next, Step, Done

(* The invariant holds throughout a scan: the requests made so far are      *)
(* within what the bindings, pages and attempts used up allow, targets were *)
(* checked, and the clock has passed what the last answer asked for.        *)
THEOREM ScanInvariant == Spec => []ScanInv
<1> QED BY ScanInit, ScanStep, PTL DEF Spec

(* Whatever the server answers, for any page cap, retry policy, number of   *)
(* bindings and limit: the number of requests a scan sends and of the       *)
(* redirects each follows is bounded; they go only to allowed targets and   *)
(* addresses, wherever the raw table's paths, links and redirects point,    *)
(* credentials only to trusted ones; and the rows kept stay within max_rows *)
(* and the limit (fetch_rows, scan_bound, guard.rs).                        *)
THEOREM BoundedScanHolds == Spec => []BoundedScan
<1>1. ScanInv => BoundedScan
  <2> SUFFICES ASSUME ScanInv PROVE BoundedScan OBVIOUS
  <2>1. made <= CallBound BY MadeBounded
  <2>2. \A i \in DOMAIN calls : Allowed(calls[i]) BY DEF ScanInv, TargetInv
  <2>3. RowsInv BY DEF ScanInv
  <2> QED BY <2>1, <2>2, <2>3 DEF BoundedScan, Allowed, RowsInv
<1> QED BY <1>1, ScanInvariant, PTL

(* The server's Retry-After and quota reset are honoured: the retry of a    *)
(* rate-limited request and the page after one that used up the quota are   *)
(* not sent earlier (send_with_retry, compute_throttle).                    *)
THEOREM PaceHonoredHolds == Spec => []PaceHonored
<1>1. ScanInv => PaceHonored BY DEF ScanInv, PaceInv
<1> QED BY <1>1, ScanInvariant, PTL

=============================================================================
