----------------------------- MODULE SemanticSql -----------------------------
(***************************************************************************)
(* What the SQL of a compiled plan returns (the query engine, external).   *)
(* A table is a sequence of rows, a row a function from columns to         *)
(* integers or Null; an answer is a set of tuples, dimensions first, for   *)
(* every grouped relation holds each key once.                             *)
(*                                                                         *)
(* Time runs in hours of a small calendar: a day has two hours, a week two *)
(* days, a month three days, a quarter two months, a year two quarters.    *)
(***************************************************************************)
EXTENDS SemanticCompile

Null == -1000
HoursIn(g) ==
  CASE g = "hour" -> 1 [] g = "day" -> 2 [] g = "week" -> 4 [] g = "month" -> 6 [] g = "quarter" -> 12 [] g = "year" -> 24
DateTrunc(g, t) == IF t = Null \/ g = "" THEN t ELSE (t \div HoursIn(g)) * HoursIn(g)
\* A time-zone name is an offset of the local clock.
AtZone(g, t, tz) == IF t = Null \/ g = "" THEN t ELSE DateTrunc(g, t + tz)

\* Three-valued logic: a comparison with NULL holds nowhere.
Holds(v, op, values) ==
  CASE op = "is_null" -> v = Null
    [] op = "is_not_null" -> v # Null
    [] op = "equals" -> v # Null /\ v = values[1]
    [] op = "not_equals" -> v # Null /\ v # values[1]
    [] op = "gt" -> v # Null /\ v > values[1]
    [] op = "gte" -> v # Null /\ v >= values[1]
    [] op = "lt" -> v # Null /\ v < values[1]
    [] op = "lte" -> v # Null /\ v <= values[1]
    [] op = "in" -> v # Null /\ v \in Range(values)
    [] op = "not_in" -> v # Null /\ v \notin Range(values)
    [] OTHER -> v # Null /\ v >= values[1] /\ v <= values[2]

Total(s) == FoldLeft(LAMBDA a, b : a + b, 0, s)
Extreme(s, Better(_, _)) == FoldLeft(LAMBDA a, b : IF a = Null \/ Better(b, a) THEN b ELSE a, Null, s)

\* An aggregate over the values of its rows, which it reads without the NULLs.
Aggregate(agg, values) ==
  LET s == SelectSeq(values, LAMBDA v : v # Null) IN
  CASE agg = "count" -> Len(s)
    [] agg = "count_distinct" -> Cardinality(Range(s))
    [] agg = "sum" /\ s # <<>> -> Total(s)
    [] agg = "avg" /\ s # <<>> -> Total(s) \div Len(s)
    [] agg = "min" -> Extreme(s, LAMBDA a, b : a < b)
    [] agg = "max" -> Extreme(s, LAMBDA a, b : a > b)
    [] OTHER -> Null

-----------------------------------------------------------------------------
(* Joins.  A joined row maps each model to a row of its table, <<>> where  *)
(* an outer join found none.                                               *)

Value(joined, model, col) == IF joined[model] = <<>> THEN Null ELSE joined[model][col]

Join(db, rows, j) ==
  LET \* `on` is <<model, column, model, column>>
      Fits(r, t) == LET a == j.on
                        Side(m, c) == IF m = j.model THEN t[c] ELSE Value(r, m, c)
                    IN Side(a[1], a[2]) # Null /\ Side(a[1], a[2]) = Side(a[3], a[4])
      With(r, t) == [m \in DOMAIN r \cup {j.model} |-> IF m = j.model THEN t ELSE r[m]]
      One(r) == LET hits == SelectSeq(db[j.table], LAMBDA t : Fits(r, t))
                IN IF hits = <<>> THEN (IF j.kind = "LEFT" THEN <<With(r, <<>>)>> ELSE <<>>)
                   ELSE [i \in DOMAIN hits |-> With(r, hits[i])]
  IN Flatten([i \in DOMAIN rows |-> One(rows[i])])

FromRows(db, from) ==
  FoldLeft(LAMBDA rows, j : Join(db, rows, j),
           [i \in DOMAIN db[from.table] |-> [m \in {from.root} |-> db[from.table][i]]], from.joins)

DimValue(d, r) == AtZone(d.grain, Value(r, d.model, d.col), d.tz)
MeasureValue(x, rows) ==
  LET kept == SelectSeq(rows, LAMBDA r : \A i \in DOMAIN x.filters :
                 Holds(Value(r, x.model, x.filters[i].col), x.filters[i].op, x.filters[i].values))
  IN Aggregate(x.agg, [i \in DOMAIN kept |-> Value(kept[i], x.model, x.col)])

\* [key, rows] groups of a block; without dimensions the one group of everything.
Groups(db, b) ==
  LET rows == SelectSeq(FromRows(db, b.from), LAMBDA r : \A i \in DOMAIN b.where :
                 Holds(DimValue(b.where[i].expr, r), b.where[i].op, b.where[i].values))
      Key(r) == [i \in DOMAIN b.dims |-> DimValue(b.dims[i], r)]
      keys == IF b.dims = <<>> THEN {<<>>} ELSE {Key(rows[i]) : i \in DOMAIN rows}
  IN {[key |-> k, rows |-> SelectSeq(rows, LAMBDA r : Key(r) = k)] : k \in keys}

\* A LIMIT without a total order keeps some of the rows.
Limited(rel, limit) ==
  {s \in SUBSET rel : \A n \in limit : Cardinality(s) = (IF Cardinality(rel) < n THEN Cardinality(rel) ELSE n)}
Uncut(rel, limit) == IF limit = {} THEN {rel} ELSE Limited(rel, limit)

BlockRelation(db, b, having) ==
  {g.key \o [i \in DOMAIN b.measures |-> MeasureValue(b.measures[i], g.rows)] :
     g \in {h \in Groups(db, b) : \A i \in DOMAIN having :
                Holds(MeasureValue(having[i].expr, h.rows), having[i].op, having[i].values)}}

\* The facts joined FULL OUTER on their keys: a fact without a key has NULLs.
Outer(p, n, rel) ==
  LET Cell(k, c) == LET hits == {t \in rel[c[1]] : SubSeq(t, 1, n) = k}
                    IN IF hits = {} THEN Null ELSE (CHOOSE t \in hits : TRUE)[n + c[2]]
      rows == {k \o [i \in DOMAIN p.columns |-> Cell(k, p.columns[i])] :
                 k \in UNION {{SubSeq(t, 1, n) : t \in rel[i]} : i \in DOMAIN rel}}
  IN {t \in rows : \A i \in DOMAIN p.where : Holds(t[n + p.where[i].column], p.where[i].op, p.where[i].values)}
FactsRelation(db, p) ==
  Outer(p, Len(p.blocks[1].dims), [i \in DOMAIN p.blocks |-> BlockRelation(db, p.blocks[i], <<>>)])

-----------------------------------------------------------------------------
(* Metrics over the aggregated relation.                                   *)

Divide(a, b) == IF a = Null \/ b \in {Null, 0} THEN Null ELSE (a * 100) \div b
Less(a, b) == IF a = Null \/ b = Null THEN Null ELSE a - b
Plus(a, b) == IF a = Null \/ b = Null THEN Null ELSE a + b
Compared(output, now, then) ==
  CASE output = "value" -> then [] output = "delta" -> Less(now, then) [] OTHER -> Divide(Less(now, then), then)
OrZero(v) == IF v = Null THEN 0 ELSE v

\* The dense axis: every step from the least to the greatest bucket, or the
\* calendar's buckets in that range, for every combination of the other keys.
Axis(db, p, agg) ==
  LET a == CHOOSE i \in p.axis : TRUE
      g == CHOOSE x \in p.grain : TRUE
      times == {t[a] : t \in agg} \ {Null}
      lo == CHOOSE x \in times : \A y \in times : x <= y
      hi == CHOOSE x \in times : \A y \in times : y <= x
      steps == IF times = {} THEN {}
               ELSE IF p.calendar = {} THEN {lo + k * HoursIn(g) : k \in 0..((hi - lo) \div HoursIn(g))}
               ELSE UNION {{DateTrunc(g, db[c.source][i][c.column]) : i \in DOMAIN db[c.source]} : c \in p.calendar} \cap lo..hi
  IN {[i \in 1..p.dims |-> IF i = a THEN s ELSE t[i]] : s \in steps, t \in agg}

OverKeys(p, agg, keys) ==
  LET n == p.dims
      Col(k, col) == LET hits == {t \in agg : SubSeq(t, 1, n) = k}
                     IN IF hits = {} THEN Null
                        ELSE (CHOOSE t \in hits : TRUE)[n + SelectInSeq(p.leaves, LAMBDA l : l = col)]
      Time(k) == k[CHOOSE i \in p.axis : TRUE]
      Same(k, j) == \A i \in p.partition : k[i] = j[i]
      InOrder(ks) == SetToSortSeq(ks, LAMBDA a, b : Time(a) < Time(b))
      Before(k, reset) == InOrder({j \in keys : Same(k, j) /\ Time(j) <= Time(k)
                                                  /\ DateTrunc(reset, IF reset = "" THEN 0 ELSE Time(j))
                                                       = DateTrunc(reset, IF reset = "" THEN 0 ELSE Time(k))})
      Read(k, col, fill) == IF fill THEN OrZero(Col(k, col)) ELSE Col(k, col)
      Lag(k, e) == LET s == Before(k, "") IN IF Len(s) <= e.periods THEN Null ELSE OrZero(Col(s[Len(s) - e.periods], e.col))
      RECURSIVE Ev(_, _)
      Ev(e, k) ==
        CASE e.is = "col" -> Col(k, e.col)
          [] e.is = "ratio" -> Divide(Ev(e.args[1], k), Ev(e.args[2], k))
          [] e.is = "minus" -> Less(Ev(e.args[1], k), Ev(e.args[2], k))
          [] e.is = "plus" -> Plus(Ev(e.args[1], k), Ev(e.args[2], k))
          [] e.is = "window" ->
               LET s == Before(k, e.reset)
                   frame == IF e.rows = {} THEN s
                            ELSE LET w == CHOOSE x \in e.rows : TRUE
                                 IN SubSeq(s, IF Len(s) <= w THEN 1 ELSE Len(s) - w + 1, Len(s))
               IN Aggregate(e.agg, [i \in DOMAIN frame |-> Read(frame[i], e.col, e.fill)])
          [] e.is = "lag" -> Compared(e.output, OrZero(Col(k, e.col)), Lag(k, e))
          [] OTHER ->
               LET peers == SetToSeq({j \in keys : \A i \in e.over : k[i] = j[i]})
               IN Divide(Col(k, e.col), Aggregate(e.agg, [i \in DOMAIN peers |-> Col(peers[i], e.col)]))
  IN {k \o [i \in DOMAIN p.exprs |-> Ev(p.exprs[i], k)] : k \in keys}
MetricRelation(db, p, agg) ==
  OverKeys(p, agg, IF p.spine THEN Axis(db, p, agg) ELSE {SubSeq(t, 1, p.dims) : t \in agg})

-----------------------------------------------------------------------------
\* The answers a plan may give: more than one when a LIMIT cuts.
InnerAnswers(db, p) ==
  Uncut(IF p.form = "single" THEN BlockRelation(db, p.block, p.having) ELSE FactsRelation(db, p), p.limit)

Execute(db, p) ==
  UNION {IF p.form = "metric" THEN Uncut(MetricRelation(db, p, agg), p.limit) ELSE {agg} :
           agg \in InnerAnswers(db, IF p.form = "metric" THEN p.inner ELSE p)}
=============================================================================
