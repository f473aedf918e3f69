----------------------------- MODULE HttpValues -----------------------------
(***************************************************************************)
(* From the body of an HTTP response to the cells of a record batch        *)
(* (pawrly-sources/http: typed.rs, paginate.rs, expr.rs, source.rs).       *)
(*                                                                         *)
(* A JSON value is a record [t, v].  Numbers are "num" (an integer that    *)
(* serde keeps as such) or "flt" (written as a float, v is its integer     *)
(* part); strings are "str" (the text of the number v) or "txt" (any other *)
(* text), or "joined" (a comma-separated list of texts).  An absent value  *)
(* is Rust's None.                                                         *)
(* Widths are parameters: TLC's integers are narrower than an i64.         *)
(***************************************************************************)
EXTENDS Integers, Sequences, SequencesExt, Functions, FiniteSets

CONSTANTS Max32, Max64        \* i32::MAX and i64::MAX

ASSUME WidthAssumption == Max32 \in Nat /\ Max64 \in Nat /\ Max32 < Max64

\* A Vec of anything.
IsVec(s) == s \in Seq(Range(s))

Absent == [t |-> "absent", v |-> 0]
JNull == [t |-> "null", v |-> 0]
JNum(n) == [t |-> "num", v |-> n]
JFlt(n) == [t |-> "flt", v |-> n]
JBool(b) == [t |-> "bool", v |-> b]
JStr(n) == [t |-> "str", v |-> n]
JTxt(s) == [t |-> "txt", v |-> s]
JArr(s) == [t |-> "arr", v |-> s]
JObj(f) == [t |-> "obj", v |-> f]

\* serde_json::Value: a set of JSON values, with what is in each of them.
IsJson(J) ==
  \A j \in J : /\ j.t = "arr" => j.v \in Seq(J)
               /\ j.t = "obj" => IsFiniteSet(DOMAIN j.v) /\ \A k \in DOMAIN j.v : j.v[k] \in J

\* The elements of a sequence at the positions of a set.
Pick(s, at) ==
  LET kept[i \in 0..Len(s)] == IF i = 0 THEN <<>>
                              ELSE IF i \in at THEN Append(kept[i - 1], s[i]) ELSE kept[i - 1]
  IN kept[Len(s)]

IsString(j) == j.t \in {"str", "txt", "joined"}
Present(j) == j.t \notin {"absent", "null"}

\* A path segment: an object key, or an array index (a bare number is both).
Key(n) == [key |-> n, idx |-> -1]
\* get_key_or_index and the index loop of segment_get.
SegmentGet(j, seg) ==
  IF j.t = "obj" /\ seg.key \in DOMAIN j.v THEN j.v[seg.key]
  ELSE IF j.t = "arr" /\ seg.idx + 1 \in DOMAIN j.v THEN j.v[seg.idx + 1]
  ELSE Absent

JsonAtPath(body, path) ==
  LET at[i \in 0..Len(path)] == IF i = 0 THEN body ELSE SegmentGet(at[i - 1], path[i])
  IN at[Len(path)]

\* set_json_at_path with a path of one key: a body that is no object is left alone.
SetAtPath(body, key, leaf) ==
  IF body.t = "obj" THEN JObj([k \in DOMAIN body.v \cup {key} |->
                                 IF k = key THEN leaf ELSE body.v[k]])
  ELSE body

\* A cursor: a number or a string that is not empty.
ValueToCursor(j) == IF j.t \in {"str", "num"} \/ (j.t = "txt" /\ j.v # "") THEN JStr(j.v) ELSE Absent

CursorAtPath(body, path) == ValueToCursor(JsonAtPath(body, path))

\* walk: object keys only.
Member(j, seg) == IF j.t = "obj" /\ seg.key \in DOMAIN j.v THEN j.v[seg.key] ELSE Absent
Walk(row, path) == FoldLeft(Member, row, path)

-----------------------------------------------------------------------------
(* Errors and rows of a response. *)

\* StatusMatcher: an exact code, a class "5xx", or a comparison.
StatusMatches(m, status) ==
  CASE m.op = "class" -> status \in (m.code * 100)..(m.code * 100 + 99)
    [] m.op = ">=" -> status >= m.code
    [] m.op = "<=" -> status <= m.code
    [] m.op = ">" -> status > m.code
    [] m.op = "<" -> status < m.code
    [] OTHER -> status = m.code

\* A status the table lists, or a value at the error path that is neither null
\* nor an empty string.
DetectError(spec, status, body) ==
  \/ \E m \in spec.status : StatusMatches(m, status)
  \/ /\ spec.path # <<>>
     /\ LET j == JsonAtPath(body, spec.path) IN Present(j) /\ j # JTxt("")

\* reshape_dict_entries: a row per entry, its key added as "_key".
DictEntries(j) ==
  IF j.t # "obj" THEN <<>>
  ELSE LET keys == SetToSeq(DOMAIN j.v) IN
       [i \in DOMAIN keys |->
          IF j.v[keys[i]].t = "obj" THEN SetAtPath(j.v[keys[i]], "_key", JTxt(keys[i]))
          ELSE JObj([_key |-> JTxt(keys[i]), _value |-> j.v[keys[i]]])]

\* reshape_series_points: a row per point that is a pair, with its series' fields.
SeriesPoints(j, series, points) ==
  LET arr == SegmentGet(j, Key(series))
      Pairs(s) == LET p == SegmentGet(s, Key(points)) IN
                  IF p.t # "arr" THEN <<>>
                  ELSE Pick(p.v, {i \in DOMAIN p.v : p.v[i].t = "arr" /\ Len(p.v[i].v) >= 2})
      Row(s, x) == JObj([k \in (DOMAIN s.v \ {points}) \cup {"timestamp", "value"} |->
                           IF k = "timestamp" THEN x.v[1]
                           ELSE IF k = "value" THEN x.v[2] ELSE s.v[k]])
      rows[n \in 0..Len(arr.v)] ==
        IF n = 0 THEN <<>>
        ELSE rows[n - 1] \o [i \in DOMAIN Pairs(arr.v[n]) |-> Row(arr.v[n], Pairs(arr.v[n])[i])]
  IN IF arr.t # "arr" THEN <<>> ELSE rows[Len(arr.v)]

\* The rows of a body; <<Absent>> stands for "expected array or object".
ExtractRows(body, response) ==
  LET at == JsonAtPath(body, response.path) IN
  CASE at.t = "absent" -> <<>>
    [] response.reshape = "dict_entries" -> DictEntries(at)
    [] response.reshape = "series_points" -> SeriesPoints(at, "series", "points")
    [] at.t = "arr" -> at.v
    [] at.t = "obj" -> <<at>>
    [] at.t = "null" -> <<>>
    [] OTHER -> <<Absent>>

-----------------------------------------------------------------------------
(* Computed columns (ColumnExpr). *)

\* The decoder is the base64 crate's: from an encoded text to its text.
Base64Text == [cGF3 |-> "paw"]

\* join: the texts of the values, separated by commas; null as an empty one.
\* The text of a single number is that number's.
Joined(s) ==
  IF Len(s) = 1 /\ s[1].t \in {"num", "str"} THEN JStr(s[1].v)
  ELSE [t |-> "joined",
        v |-> [i \in DOMAIN s |-> IF s[i].t = "null" THEN "" ELSE ToString(s[i].v)]]

\* An expression is the sequence of its nodes, operands before what they are
\* operands of; a node names its operands by their positions.
Eval(nodes, row, params) ==
  LET Elements(e) == LET a == Walk(row, e.path) IN IF a.t = "arr" THEN a ELSE Absent
      Matching(e) == SelectSeq(Elements(e).v, LAMBDA x : Member(x, Key("key")) = JTxt(e.key))
      Items(s, path) == SelectSeq([i \in DOMAIN s |-> Walk(s[i], path)],
                                  LAMBDA x : x # Absent)
      value[n \in DOMAIN nodes] ==
       LET e == nodes[n] IN
       CASE e.kind = "path" -> Walk(row, e.path)
       [] e.kind = "current_row" -> row
       [] e.kind = "null" -> Absent
       [] e.kind = "from_filter" ->
            IF e.filter \in DOMAIN params THEN JStr(params[e.filter]) ELSE Absent
       [] e.kind = "coalesce" ->
            LET found == SelectSeq([i \in DOMAIN e.exprs |-> value[e.exprs[i]]], Present)
            IN IF found = <<>> THEN Absent ELSE Head(found)
       [] e.kind = "to_timestamp" ->
            LET j == value[e.expr] IN
            IF IsString(j) THEN j
            ELSE IF j.t \notin {"num", "flt"} THEN Absent
            ELSE JStr(IF e.unit = "millis" THEN j.v ELSE 1000 * j.v)
       [] e.kind = "join" -> IF Elements(e) = Absent THEN Absent ELSE Joined(Elements(e).v)
       [] e.kind = "map_join" ->
            IF Elements(e) = Absent THEN Absent ELSE Joined(Items(Elements(e).v, e.item_path))
       [] e.kind = "first_of" ->
            IF Elements(e) = Absent \/ Elements(e).v = <<>> THEN Absent
            ELSE Walk(Head(Elements(e).v), e.item_path)
       [] e.kind = "lookup" ->
            IF Elements(e) = Absent \/ Matching(e) = <<>> THEN Absent
            ELSE Member(Head(Matching(e)), Key("value"))
       [] e.kind = "lookup_join" ->
            IF Elements(e) = Absent THEN Absent ELSE Joined(Items(Matching(e), <<Key("value")>>))
       [] e.kind = "pick" ->
            IF e.by \notin DOMAIN params THEN Absent
            ELSE Walk(row, e.path \o <<Key(ToString(params[e.by]))>> \o e.item_path)
       [] e.kind = "literal" -> e.value
       [] e.kind = "if_present" ->
            IF Present(value[e.check]) THEN e.value ELSE Absent
       [] e.kind = "from_base64" ->
            LET j == value[e.expr] IN
            IF j.t = "txt" /\ j.v \in DOMAIN Base64Text THEN JTxt(Base64Text[j.v]) ELSE Absent
       [] e.kind = "replace" ->
            LET j == value[e.expr] IN
            IF ~IsString(j) THEN Absent
            ELSE IF j = JTxt(e.from) THEN JTxt(e.to) ELSE j
  IN value[Len(nodes)]

-----------------------------------------------------------------------------
(* Cells and batches. *)

\* pull_value: the expression, the column of that name, the bound parameter,
\* the whole row, or a path.
PullValue(row, col, params) ==
  CASE col.source = "expr" -> Eval(col.expr, row, params)
    [] col.source = "name" -> Member(row, Key(col.name))
    [] col.source = "param" ->
         IF col.name \in DOMAIN params THEN JStr(params[col.name]) ELSE Absent
    [] col.source = "$" -> row
    [] col.source = "path" -> Walk(row, col.path)

\* as_i64, or the float as an i64, which saturates; a text parses or is null.
AsI64(j) ==
  CASE j.t \in {"num", "flt"} -> JNum(IF j.v > Max64 THEN Max64 ELSE j.v)
    [] j.t = "str" /\ j.v <= Max64 -> JNum(j.v)
    [] OTHER -> JNull

\* The cell of a value in a column of a type (a row of build_batch).
Cell(type, j) ==
  CASE ~Present(j) -> JNull
    [] type = "json" -> j
    [] type = "varchar" -> IF j.t = "num" THEN JStr(j.v)
                           ELSE IF j.t = "flt" THEN [t |-> "flttxt", v |-> j.v]
                           ELSE IF j.t = "bool" THEN JTxt(IF j.v THEN "true" ELSE "false") ELSE j
    [] type = "bigint" -> AsI64(j)
    [] type = "int" -> IF AsI64(j).t = "num" /\ AsI64(j).v <= Max32 THEN AsI64(j) ELSE JNull
    [] type = "double" -> IF j.t \in {"num", "flt", "str"} THEN JFlt(j.v) ELSE JNull
    [] type = "boolean" -> IF j.t = "bool" THEN j
                           ELSE IF j \in {JTxt("true"), JTxt("false")} THEN JBool(j.v = "true")
                           ELSE JNull
    [] type \in {"timestamp", "date"} -> IF j.t = "str" THEN j ELSE JNull
    [] OTHER -> JNull

\* build_batch: a batch has the declared columns, or RecordBatch::try_new
\* refuses an array that has not the field's type, which is so for a Float32
\* column: the fallback builds strings.
BatchFails(columns) == \E i \in DOMAIN columns : columns[i].type = "float"

BuildBatch(columns, rows, params) ==
  [r \in DOMAIN rows |->
     [i \in DOMAIN columns |-> Cell(columns[i].type, PullValue(rows[r], columns[i], params))]]

\* effective_columns: the response's columns, and the filterable parameters
\* that are not among them.
EffectiveColumns(spec) ==
  spec.columns \o
  LET extra == SelectSeq(spec.params, LAMBDA p : /\ p.filterable
                  /\ \A i \in DOMAIN spec.columns : spec.columns[i].name # p.name)
  IN [i \in DOMAIN extra |-> [name |-> extra[i].name, type |-> extra[i].type, source |-> "param"]]

=============================================================================
