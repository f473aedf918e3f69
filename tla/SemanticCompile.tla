--------------------------- MODULE SemanticCompile ---------------------------
(***************************************************************************)
(* The semantic compiler (pawrly-semantic/lib.rs, rollup.rs, metric.rs): a *)
(* structured query becomes the plan of the SQL it stands for, or an error.*)
(*                                                                         *)
(* A catalog holds the models and metrics by name.  A plan keeps what the  *)
(* text of the SQL decides: the joins in order, the grouped expressions,   *)
(* the aggregates, the predicates and the limit.  A result is              *)
(* [err, plan], err "" when there is a plan.                               *)
(***************************************************************************)
EXTENDS ConfigRules

CONSTANT NameOrder         \* every model name, sorted

None == {}
Ok(p) == [err |-> "", plan |-> p]
Err(e) == [err |-> e, plan |-> <<>>]
FirstError(s) == LET bad == SelectSeq(s, LAMBDA e : e # "") IN IF bad = <<>> THEN "" ELSE bad[1]
MapErr(s, Op(_)) == FirstError([i \in DOMAIN s |-> Op(s[i])])
Distinct(s) == FoldLeft(LAMBDA acc, x : IF x \in Range(acc) THEN acc ELSE Append(acc, x), <<>>, s)
Flatten(s) == FoldLeft(LAMBDA acc, x : acc \o x, <<>>, s)

\* The catalog of an accepted `semantic:` block.
NewWithMetrics(semantic) ==
  [models |-> [n \in Names(semantic.models) |-> ModelNamed(semantic.models, n)],
   metrics |-> [n \in Names(semantic.metrics) |-> ModelNamed(semantic.metrics, n)],
   time_spine |-> semantic.time_spine]
EmptyCatalog == NewWithMetrics([models |-> <<>>, metrics |-> <<>>, time_spine |-> {}])

-----------------------------------------------------------------------------
(* Members, filters and safety. *)

IsMetric(member) == Len(member) = 1
Find(s, name) == s[SelectInSeq(s, LAMBDA x : x.name = name)]
MemberIsMeasure(cat, member) == Len(member) = 2 /\ HasMea(cat.models[member[1]], member[2])

GrainOk(d, g) == IsGrain(g) /\ d.type = "time" /\ (d.grains = <<>> \/ g \in Range(d.grains))

DimErr(cat, member) ==
  LET m == cat.models[member[1]] IN
  IF Len(member) \notin {2, 3} \/ ~HasDim(m, member[2]) THEN "unknown member"
  ELSE IF Len(member) = 3 /\ ~GrainOk(Find(m.dimensions, member[2]), member[3]) THEN "invalid grain" ELSE ""

\* The column, the grain it is truncated to ("" for none) and the time zone.
ResolveDimensionExpr(cat, member, tz) ==
  [model |-> member[1], col |-> Find(cat.models[member[1]].dimensions, member[2]).expr,
   grain |-> IF Len(member) = 3 THEN member[3] ELSE "", tz |-> tz]

MeaErr(cat, member) ==
  IF Len(member) # 2 \/ ~HasMea(cat.models[member[1]], member[2]) THEN "unknown member" ELSE ""

ResolveMeasureExpr(cat, member) ==
  LET x == Find(cat.models[member[1]].measures, member[2])
  IN [model |-> member[1], agg |-> x.agg, col |-> x.expr, filters |-> x.filters]

ApplyOpErr(f) ==
  CASE f.op \in {"is_null", "is_not_null"} -> ""
    [] f.op = "in_range" -> IF Len(f.values) < 2 THEN "compile" ELSE ""
    [] OTHER -> IF f.values = <<>> THEN "compile" ELSE ""

FilterErr(cat, f) ==
  FirstError(<<IF MemberIsMeasure(cat, f.member) THEN "" ELSE DimErr(cat, f.member), ApplyOpErr(f)>>)

ResolveFilter(cat, f, tz) ==
  [expr |-> ResolveDimensionExpr(cat, f.member, tz), op |-> f.op, values |-> f.values]
ResolveMeasureFilter(cat, f) ==
  [expr |-> ResolveMeasureExpr(cat, f.member), op |-> f.op, values |-> f.values]

\* ${param:NAME} placeholders become literals; an unbound one is refused.
BindErr(p, params) ==
  IF p.text = "unterminated" THEN "predicate unsatisfied"
  ELSE IF ~(Range(p.params) \subseteq DOMAIN params) THEN "unbound param" ELSE ""
BindParams(model, p, params) ==
  [expr |-> [model |-> model, col |-> p.col, grain |-> "", tz |-> 0], op |-> "equals",
   values |-> p.values \o [i \in DOMAIN p.params |-> params[p.params[i]]]]

\* The predicates of a sequence of models, each with its model.
RequiredPredicates(cat, models) ==
  Flatten([i \in DOMAIN models |->
    Flatten([j \in 1..Cardinality(cat.models[models[i]].safety) |->
       LET s == CHOOSE x \in cat.models[models[i]].safety : TRUE
       IN [k \in DOMAIN s.required_predicates |-> <<models[i], s.required_predicates[k]>>]])])

EnforceFilterSafety(cat, root, q) ==
  LET Missing(s, c) == ~\E i \in DOMAIN q.filters :
                          q.filters[i].member[1] = root /\ Len(q.filters[i].member) > 1 /\ q.filters[i].member[2] = c
  IN IF \E s \in cat.models[root].safety : s.require_at_least_one_filter /\ q.filters = <<>> THEN "no filters"
     ELSE IF \E s \in cat.models[root].safety : \E c \in Range(s.require_filters_on) : Missing(s, c)
          THEN "missing required filter" ELSE ""

MaxRows(cat, root) == UNION {s.max_rows : s \in cat.models[root].safety}
Least(caps) == IF caps = {} THEN None ELSE {CHOOSE c \in caps : \A d \in caps : c <= d}
EffectiveLimit(requested, cap) == Least(requested \cup cap)

ResolveOrders(q) ==
  MapErr(q.order_by, LAMBDA o : IF o \in Range(q.dimensions \o q.measures) THEN "" ELSE "unknown member")

\* Segments are replaced by their filters.
ExpandSegments(cat, q) ==
  LET One(s) == IF Len(s) = 1 THEN "unknown segment"
                ELSE IF s[1] \notin DOMAIN cat.models THEN "unknown model"
                ELSE IF s[2] \notin Names(cat.models[s[1]].segments) THEN "unknown segment" ELSE ""
      bad == MapErr(q.segments, One)
  IN IF bad # "" THEN Err(bad)
     ELSE Ok([q EXCEPT !.segments = <<>>,
                       !.filters = @ \o Flatten([i \in DOMAIN q.segments |->
                          Find(cat.models[q.segments[i][1]].segments, q.segments[i][2]).filters])])

-----------------------------------------------------------------------------
(* The join graph. *)

InvertKind(k) == CASE k = "one_to_many" -> "many_to_one" [] k = "many_to_one" -> "one_to_many" [] OTHER -> k
JoinKind(k) == IF k = "one_to_many" THEN "LEFT" ELSE "INNER"

PushEdge(adj, from, e) ==
  IF \E i \in DOMAIN adj[from] : adj[from][i].target = e.target THEN adj
  ELSE [adj EXCEPT ![from] = Append(@, e)]

\* Every relationship, walked both ways; one edge per pair of models.
Adjacency(cat) ==
  LET names == SelectSeq(NameOrder, LAMBDA n : n \in DOMAIN cat.models)
      rels == Flatten([i \in DOMAIN names |->
                LET r == cat.models[names[i]].relationships IN [j \in DOMAIN r |-> <<names[i], r[j]>>]])
      Add(adj, x) ==
        IF x[2].target \notin DOMAIN cat.models THEN adj
        ELSE PushEdge(PushEdge(adj, x[1], [target |-> x[2].target, kind |-> x[2].kind, on |-> x[2].on]),
                      x[2].target, [target |-> x[1], kind |-> InvertKind(x[2].kind), on |-> x[2].on])
  IN FoldLeft(Add, [n \in DOMAIN cat.models |-> <<>>], rels)

\* Mutant: only the last edge of a path counts as fanning out.
FansOut_LastEdge(parent, e) == e.kind = "one_to_many"
FansOut(parent, e) == parent.fans_out \/ e.kind = "one_to_many"

\* Breadth first: a new model gets its node, a second path of the same length
\* from another model makes the node ambiguous.
ReachEdge(cur, s, e) ==
  LET parent == s.nodes[cur] IN
  IF e.target \notin DOMAIN s.nodes
  THEN [nodes |-> [n \in DOMAIN s.nodes \cup {e.target} |->
                     IF n = e.target
                     THEN [depth |-> parent.depth + 1, fans_out |-> FansOut(parent, e), parent |-> cur,
                           kind |-> e.kind, on |-> e.on, ambiguous |-> FALSE]
                     ELSE s.nodes[n]],
        queue |-> Append(s.queue, e.target)]
  ELSE IF s.nodes[e.target].depth = parent.depth + 1 /\ s.nodes[e.target].parent # cur
       THEN [s EXCEPT !.nodes[e.target].ambiguous = TRUE] ELSE s

RECURSIVE Walk(_, _)
Walk(adj, s) ==
  IF s.queue = <<>> THEN s.nodes
  ELSE LET cur == Head(s.queue)
       IN Walk(adj, FoldLeft(LAMBDA acc, e : ReachEdge(cur, acc, e), [s EXCEPT !.queue = Tail(@)], adj[cur]))

Reachability(cat, root) ==
  Walk(Adjacency(cat),
       [queue |-> <<root>>,
        nodes |-> [n \in {root} |-> [depth |-> 0, fans_out |-> FALSE, parent |-> "", kind |-> "",
                                     on |-> <<>>, ambiguous |-> FALSE]]])

JoinErr(reach, root, m, aggregating) ==
  IF m = root THEN ""
  ELSE IF m \notin DOMAIN reach THEN "disconnected"
  ELSE IF reach[m].ambiguous THEN "ambiguous path"
  ELSE IF aggregating /\ reach[m].fans_out THEN "fan out" ELSE ""

RECURSIVE PathTo(_, _)
PathTo(reach, m) == IF reach[m].depth = 0 THEN {} ELSE {m} \cup PathTo(reach, reach[m].parent)

\* The models to join, parents before children.
NeededModels(reach, models) ==
  LET all == UNION {PathTo(reach, m) : m \in Range(models)}
  IN Flatten([d \in 1..Cardinality(all) |-> SetToSeq({m \in all : reach[m].depth = d})])

RenderFrom(cat, root, reach, models) ==
  LET needed == NeededModels(reach, models)
  IN [root |-> root, table |-> cat.models[root].source,
      joins |-> [i \in DOMAIN needed |-> [model |-> needed[i], table |-> cat.models[needed[i]].source,
                                          kind |-> JoinKind(reach[needed[i]].kind), on |-> reach[needed[i]].on]]]

SourceErr(cat, models) ==
  IF \E m \in Range(models) : cat.models[m].source = <<>> THEN "invalid source" ELSE ""

-----------------------------------------------------------------------------
(* The two forms of a measure query. *)

MeasureRoots(q) == Distinct([i \in DOMAIN q.measures |-> q.measures[i][1]])
Members(q) == q.measures \o q.dimensions \o [i \in DOMAIN q.filters |-> q.filters[i].member]
ReferencedModels(q) == LET all == Members(q) IN Distinct([i \in DOMAIN all |-> all[i][1]])
UnknownModel(cat, models) == IF Range(models) \subseteq DOMAIN cat.models THEN "" ELSE "unknown model"
RowFilters(cat, q) == SelectSeq(q.filters, LAMBDA f : ~MemberIsMeasure(cat, f.member))
MeasureFilters(cat, q) == SelectSeq(q.filters, LAMBDA f : MemberIsMeasure(cat, f.member))

\* One SELECT ... FROM ... WHERE ... GROUP BY over a root and its lookups.
Block(cat, q, root, reach, models, measures) ==
  LET preds == RequiredPredicates(cat, models)
      rows == RowFilters(cat, q)
  IN [from |-> RenderFrom(cat, root, reach, models),
      dims |-> [i \in DOMAIN q.dimensions |-> ResolveDimensionExpr(cat, q.dimensions[i], q.time_zone)],
      measures |-> [i \in DOMAIN measures |-> ResolveMeasureExpr(cat, measures[i])],
      where |-> [i \in DOMAIN rows |-> ResolveFilter(cat, rows[i], q.time_zone)]
                  \o [i \in DOMAIN preds |-> BindParams(preds[i][1], preds[i][2], q.params)]]

BlockErr(cat, q, root, reach, models, aggregating) ==
  LET joins == MapErr(models, LAMBDA m : JoinErr(reach, root, m, aggregating))
  IN IF joins # "" THEN joins
     ELSE FirstError(<<MapErr(q.dimensions, LAMBDA d : DimErr(cat, d)),
                       MapErr(q.measures, LAMBDA d : MeaErr(cat, d)),
                       SourceErr(cat, <<root>> \o NeededModels(reach, models)),
                       EnforceFilterSafety(cat, root, q),
                       MapErr(q.filters, LAMBDA f : FilterErr(cat, f)),
                       MapErr(RequiredPredicates(cat, models), LAMBDA p : BindErr(p[2], q.params)),
                       ResolveOrders(q)>>)

CompileSingle(cat, q, root) ==
  LET models == ReferencedModels(q)
      reach == Reachability(cat, root)
      having == MeasureFilters(cat, q)
      bad == IF UnknownModel(cat, models) # "" THEN "unknown model"
             ELSE BlockErr(cat, q, root, reach, models, q.measures # <<>>)
  IN IF bad # "" THEN Err(bad)
     ELSE Ok([form |-> "single", block |-> Block(cat, q, root, reach, models, q.measures),
              having |-> [i \in DOMAIN having |-> ResolveMeasureFilter(cat, having[i])],
              limit |-> EffectiveLimit(q.limit, MaxRows(cat, root))])

\* The models a fact's own subquery touches: its dimensions and row filters.
FactModels(cat, q, root) ==
  LET rows == RowFilters(cat, q)
  IN Distinct(<<root>> \o [i \in DOMAIN q.dimensions |-> q.dimensions[i][1]]
                \o [i \in DOMAIN rows |-> rows[i].member[1]])

OwnMeasures(q, root) == SelectSeq(q.measures, LAMBDA m : m[1] = root)

\* Aggregate locality: each fact is grouped by the shared dimensions on its own
\* and the results are full-outer-joined on them.
CompileAggregateLocality(cat, q, roots) ==
  LET Own(r) == [q EXCEPT !.measures = OwnMeasures(q, r)]
      filters == MeasureFilters(cat, q)
      bad == IF UnknownModel(cat, ReferencedModels(q)) # "" THEN "unknown model"
             ELSE MapErr(roots, LAMBDA r :
                    BlockErr(cat, Own(r), r, Reachability(cat, r), FactModels(cat, q, r), TRUE))
  IN IF bad # "" THEN Err(bad)
     ELSE Ok([form |-> "facts",
              blocks |-> [i \in DOMAIN roots |->
                 Block(cat, q, roots[i], Reachability(cat, roots[i]), FactModels(cat, q, roots[i]),
                       OwnMeasures(q, roots[i]))],
              columns |-> [i \in DOMAIN q.measures |->
                 <<SelectInSeq(roots, LAMBDA r : r = q.measures[i][1]),
                   SelectInSeq(OwnMeasures(q, q.measures[i][1]), LAMBDA m : m = q.measures[i])>>],
              where |-> [i \in DOMAIN filters |->
                 [column |-> SelectInSeq(q.measures, LAMBDA m : m = filters[i].member),
                  op |-> filters[i].op, values |-> filters[i].values]],
              limit |-> EffectiveLimit(q.limit, Least(UNION {MaxRows(cat, r) : r \in Range(roots)}))])

CompileMeasures(cat, q) ==
  LET roots == MeasureRoots(q) IN
  IF UnknownModel(cat, roots) # "" THEN Err("unknown model")
  ELSE IF Len(roots) >= 2 THEN CompileAggregateLocality(cat, q, roots)
  ELSE CompileSingle(cat, q, IF roots = <<>> THEN q.dimensions[1][1] ELSE roots[1])

-----------------------------------------------------------------------------
(* Pre-aggregations.  A pre-aggregation's dimension is <<name>> or         *)
(* <<name, grain>>.                                                        *)

CanRollUpTo(fine, coarse) ==
  \/ fine = coarse
  \/ fine = "hour"
  \/ fine = "day" /\ coarse \in {"week", "month", "quarter", "year"}
  \/ fine = "month" /\ coarse \in {"quarter", "year"}
  \/ fine = "quarter" /\ coarse = "year"

IsRollupSafe(agg) == agg \in {"sum", "count", "min", "max"}

GrainOf(ref) == IF Len(ref) = 2 /\ IsGrain(ref[2]) THEN ref[2] ELSE ""
GrainCovers(pre, want) ==
  CASE pre = "" -> TRUE [] pre # "" /\ want = "" -> FALSE [] OTHER -> CanRollUpTo(pre, want)

Covers(pre, q) ==
  LET Has(name, Fits(_)) == \E i \in DOMAIN pre.dimensions : pre.dimensions[i][1] = name /\ Fits(pre.dimensions[i])
  IN /\ \A i \in DOMAIN q.dimensions :
          Has(q.dimensions[i][2], LAMBDA d : GrainCovers(GrainOf(d), GrainOf(Tail(q.dimensions[i]))))
     /\ \A i \in DOMAIN q.filters : Has(q.filters[i].member[2], LAMBDA d : TRUE)
     /\ \A i \in DOMAIN q.measures : Last(q.measures[i]) \in Range(pre.measures)

\* The covering pre-aggregation with the fewest dimensions, the first of those.
MatchRollup(m, q) ==
  LET fit == SelectSeq(m.pre_aggregations, LAMBDA p : Covers(p, q))
  IN IF fit = <<>> THEN None
     ELSE {fit[CHOOSE i \in DOMAIN fit :
                 \A j \in DOMAIN fit : Len(fit[i].dimensions) < Len(fit[j].dimensions)
                                         \/ (Len(fit[i].dimensions) = Len(fit[j].dimensions) /\ i <= j)]}

RollupSafeQuery(cat, q) ==
  \A i \in DOMAIN q.measures :
    MeaErr(cat, q.measures[i]) = "" /\ IsRollupSafe(ResolveMeasureExpr(cat, q.measures[i]).agg)

\* For a query without metrics or segments.
CandidateOf(cat, q) ==
  LET roots == MeasureRoots(q) IN
  IF q.time_zone # 0 \/ Len(roots) # 1 \/ ~(Range(ReferencedModels(q)) \subseteq Range(roots) \cap DOMAIN cat.models)
  THEN None
  ELSE IF \E s \in cat.models[roots[1]].safety : s.required_predicates # <<>> THEN None
  ELSE IF ~RollupSafeQuery(cat, q) THEN None
  ELSE {[model |-> roots[1], preagg |-> p.name] : p \in MatchRollup(cat.models[roots[1]], q)}

\* The table a pre-aggregation stores: the base grouped at its own grain.
CompilePreaggSql(cat, model, pre) ==
  LET m == cat.models[model]
      Member(d) == <<model>> \o d
      bad == FirstError(<<MapErr(pre.dimensions, LAMBDA d : DimErr(cat, Member(d))),
                          MapErr(pre.measures, LAMBDA x : MeaErr(cat, <<model, x>>)), SourceErr(cat, <<model>>)>>)
  IN IF bad # "" THEN Err(bad)
     ELSE Ok([form |-> "single", having |-> <<>>, limit |-> None,
              block |-> [from |-> [root |-> model, table |-> m.source, joins |-> <<>>], where |-> <<>>,
                         dims |-> [i \in DOMAIN pre.dimensions |-> ResolveDimensionExpr(cat, Member(pre.dimensions[i]), 0)],
                         measures |-> [i \in DOMAIN pre.measures |-> ResolveMeasureExpr(cat, <<model, pre.measures[i]>>)]]])

CombineSql(agg) == IF agg \in {"min", "max"} THEN agg ELSE "sum"

RollupDimErr(member) ==
  IF Len(member) \notin {2, 3} THEN "unknown member"
  ELSE IF Len(member) = 3 /\ ~IsGrain(member[3]) THEN "invalid grain" ELSE ""
RollupDimExpr(r, member) ==
  [model |-> r.model, col |-> member[2], grain |-> IF Len(member) = 3 THEN member[3] ELSE "", tz |-> 0]
RollupMeasure(cat, r, member) ==
  [model |-> r.model, agg |-> CombineSql(ResolveMeasureExpr(cat, member).agg), col |-> member[2], filters |-> <<>>]

\* A query without metrics over the stored table instead of the base.
RollupMeasureSql(cat, q, r) ==
  LET rows == RowFilters(cat, q)
      having == MeasureFilters(cat, q)
      bad == FirstError(<<MapErr(q.dimensions, RollupDimErr),
                          MapErr(q.measures, LAMBDA m : MeaErr(cat, m)),
                          EnforceFilterSafety(cat, r.model, q),
                          MapErr(q.filters, ApplyOpErr), ResolveOrders(q)>>)
  IN IF bad # "" THEN Err(bad)
     ELSE Ok([form |-> "single",
              block |-> [from |-> [root |-> r.model, table |-> <<"semantic", r.model, r.preagg>>, joins |-> <<>>],
                         dims |-> [i \in DOMAIN q.dimensions |-> RollupDimExpr(r, q.dimensions[i])],
                         measures |-> [i \in DOMAIN q.measures |-> RollupMeasure(cat, r, q.measures[i])],
                         where |-> [i \in DOMAIN rows |-> [expr |-> RollupDimExpr(r, rows[i].member),
                                                           op |-> rows[i].op, values |-> rows[i].values]]],
              having |-> [i \in DOMAIN having |-> [expr |-> RollupMeasure(cat, r, having[i].member),
                                                   op |-> having[i].op, values |-> having[i].values]],
              limit |-> EffectiveLimit(q.limit, MaxRows(cat, r.model))])

\* Every declared pre-aggregation, <<model, pre-aggregation>>.
Rollups(cat) ==
  UNION {{<<m, p>> : p \in Range(cat.models[m].pre_aggregations)} : m \in DOMAIN cat.models}

-----------------------------------------------------------------------------
(***************************************************************************)
(* The metric pass (metric.rs) and the entry points of the compiler.  A    *)
(* metric is expanded into leaf measures and an expression over their      *)
(* columns; a leaf under filters is a synthetic measure grafted on a copy  *)
(* of its model.                                                           *)
(*                                                                         *)
(* An expansion is [leaves, index, synthetic, err]: the members of the     *)
(* inner query in order, which member carries which <<member, filters>>,   *)
(* the synthetic measures as <<model, measure>>, and the first error.      *)
(***************************************************************************)
NoExpansion == [leaves |-> <<>>, index |-> {}, synthetic |-> <<>>, err |-> ""]
Fail(x, e) == IF x.err = "" THEN [x EXCEPT !.err = e] ELSE x

\* Cumulative and offset metrics need the dense time axis.
RECURSIVE HasWindow(_, _, _)
HasWindow(cat, name, visited) ==
  /\ name \in DOMAIN cat.metrics \ visited
  /\ LET m == cat.metrics[name] IN
     \/ m.kind.is \in {"cumulative", "offset"}
     \/ /\ m.kind.is \in {"ratio", "derived"}
        /\ \E i \in DOMAIN References(m).refs :
             LET r == References(m).refs[i].member
             IN Len(r) = 1 /\ HasWindow(cat, r[1], visited \cup {name})

SpineMode(cat, q) == \E i \in DOMAIN q.measures : IsMetric(q.measures[i]) /\ HasWindow(cat, q.measures[i][1], {})

\* The positions of the time-grained dimensions among the query's.
TimeDims(q) == {i \in DOMAIN q.dimensions : Len(q.dimensions[i]) = 3 /\ IsGrain(q.dimensions[i][3])}

WindowAxisErr(q) ==
  CASE TimeDims(q) = {} -> "needs time grain" [] Cardinality(TimeDims(q)) > 1 -> "several time grains" [] OTHER -> ""
WindowPartition(q) == DOMAIN q.dimensions \ TimeDims(q)

\* The member that carries `member` under `filters`, registered if it is new.
Leaf(cat, x, member, filters) ==
  LET known == {p \in x.index : p.member = member /\ p.filters = filters}
      Register(as, extra) ==
        [x EXCEPT !.leaves = Append(@, as), !.synthetic = @ \o extra,
                  !.index = @ \cup {[member |-> member, filters |-> filters, as |-> as]}]
  IN IF known # {} THEN [x |-> x, col |-> (CHOOSE p \in known : TRUE).as]
     ELSE IF filters = {} THEN [x |-> Register(member, <<>>), col |-> member]
     ELSE IF member[1] \notin DOMAIN cat.models THEN [x |-> Fail(x, "unknown model"), col |-> member]
     ELSE IF ~HasMea(cat.models[member[1]], member[2]) THEN [x |-> Fail(x, "unknown member"), col |-> member]
     ELSE LET base == Find(cat.models[member[1]].measures, member[2])
              name == "__mf" \o ToString(Cardinality(x.index)) \o "_" \o member[2]
              as == <<member[1], name>>
          IN [x |-> Register(as, <<<<member[1], [base EXCEPT !.name = name, !.filters = @ \o SetToSeq(filters)]>>>>),
              col |-> as]

\* Expressions: a column, an operator over expressions, a function of one leaf.
Column(leaf) == [x |-> leaf.x, e |-> [is |-> "col", col |-> leaf.col]]
Grown(s, r) == [x |-> r.x, exprs |-> Append(s.exprs, r.e)]
Applied(is, s) == [x |-> s.x, e |-> [is |-> is, args |-> s.exprs]]
OnLeaf(e, err, leaf) == [x |-> IF err = "" THEN leaf.x ELSE Fail(leaf.x, err), e |-> [e EXCEPT !.col = leaf.col]]

\* A metric as an expression over the columns of the aggregated relation.
RECURSIVE MetricExpr(_, _, _, _, _, _)
MetricExpr(cat, q, x, name, inherited, visiting) ==
  LET metric == cat.metrics[name]
      k == metric.kind
      base == inherited \cup metric.filter
      Sub(y, ref) ==                   \* member_expr
        IF Len(ref.member) > 1
        THEN Column(Leaf(cat, y, ref.member, base \cup ref.filter))
        ELSE MetricExpr(cat, q, y, ref.member[1], base \cup ref.filter, visiting \cup {name})
      Of(is, refs) == Applied(is, FoldLeft(LAMBDA y, ref : Grown(y, Sub(y.x, ref)), [x |-> x, exprs |-> <<>>], refs))
      Over(e, err) == OnLeaf(e, err, Leaf(cat, x, k.measure, base))
  IN CASE x.err # "" -> [x |-> x, e |-> <<>>]
       [] x.err = "" /\ name \notin DOMAIN cat.metrics -> [x |-> Fail(x, "unknown metric"), e |-> <<>>]
       [] x.err = "" /\ name \in DOMAIN cat.metrics /\ name \in visiting -> [x |-> Fail(x, "metric cycle"), e |-> <<>>]
       [] OTHER ->
          CASE k.is = "ratio" -> Of("ratio", <<k.numerator, k.denominator>>)
            [] k.is = "derived" ->
                 IF References(metric).err # "" THEN [x |-> Fail(x, "compile"), e |-> <<>>] ELSE Of(k.op, k.tokens)
            [] k.is = "cumulative" ->
                 Over([is |-> "window", col |-> <<>>, agg |-> k.agg, fill |-> k.agg \in {"sum", "avg"},
                       reset |-> IF k.window.is = "grain_to_date" THEN k.window.grain ELSE "",
                       rows |-> IF k.window.is = "trailing" THEN {k.window.periods} ELSE {}], WindowAxisErr(q))
            [] k.is = "offset" ->
                 Over([is |-> "lag", col |-> <<>>, periods |-> k.periods, output |-> k.output], WindowAxisErr(q))
            [] OTHER ->
                 IF ~(Range(k.over) \subseteq Range(q.dimensions)) THEN [x |-> Fail(x, "share not grouped"), e |-> <<>>]
                 ELSE Over([is |-> "share", col |-> <<>>, agg |-> k.agg,
                            over |-> {i \in DOMAIN q.dimensions : q.dimensions[i] \in Range(k.over)}], "")

\* Every selected measure, in order: [x, exprs].
Expand(cat, q) ==
  LET Selected(x, m) == IF IsMetric(m) THEN MetricExpr(cat, q, x, m[1], {}, {}) ELSE Column(Leaf(cat, x, m, {}))
  IN FoldLeft(LAMBDA s, m : Grown(s, Selected(s.x, m)), [x |-> NoExpansion, exprs |-> <<>>], q.measures)

AugmentedCatalog(cat, x) ==
  [models |-> [n \in DOMAIN cat.models |->
      LET extra == SelectSeq(x.synthetic, LAMBDA s : s[1] = n)
      IN [cat.models[n] EXCEPT !.measures = @ \o [i \in DOMAIN extra |-> extra[i][2]]]],
   metrics |-> <<>>, time_spine |-> {}]

LeafQuery(q, x) == [q EXCEPT !.measures = x.leaves, !.order_by = <<>>, !.limit = None]

\* The leaf query a rollup could serve, if any.
RollupLeafQuery(cat, q) ==
  {LeafQuery(q, x) : x \in {x \in {Expand(cat, q).x} : ~SpineMode(cat, q) /\ x.err = "" /\ x.synthetic = <<>>}}

\* The window query around the leaves.
Windowed(cat, q, ex, inner) ==
  LET spine == SpineMode(cat, q)
      bad == FirstError(<<inner.err,
                          IF spine /\ \E t \in cat.time_spine : t.source = <<>> THEN "compile" ELSE "",
                          ResolveOrders(q)>>)
  IN IF bad # "" THEN Err(bad)
     ELSE Ok([form |-> "metric", inner |-> inner.plan, leaves |-> ex.x.leaves, dims |-> Len(q.dimensions),
              exprs |-> ex.exprs, spine |-> spine, calendar |-> cat.time_spine, partition |-> WindowPartition(q),
              axis |-> TimeDims(q), grain |-> {q.dimensions[i][3] : i \in TimeDims(q)}, limit |-> q.limit])
\* The leaves come from the base tables, or from the rollup in via.
CompileLeaves(cat, q, x, via) ==
  IF via = None THEN CompileMeasures(AugmentedCatalog(cat, x), LeafQuery(q, x))
  ELSE RollupMeasureSql(cat, LeafQuery(q, x), CHOOSE r \in via : TRUE)
CompileExpanded(cat, q, ex, via) ==
  Windowed(cat, q, ex, IF ex.x.err # "" THEN Err(ex.x.err) ELSE CompileLeaves(cat, q, ex.x, via))
CompileWithMetricsVia(cat, q, via) == CompileExpanded(cat, q, Expand(cat, q), via)

HasMetrics(q) == \E i \in DOMAIN q.measures : IsMetric(q.measures[i])

CompileSql(cat, query) ==
  LET r == ExpandSegments(cat, query)
      q == r.plan
  IN IF r.err # "" THEN r
     ELSE IF q.measures = <<>> /\ q.dimensions = <<>> THEN Err("empty query")
     ELSE IF HasMetrics(q) THEN CompileWithMetricsVia(cat, q, None)
     ELSE CompileMeasures(cat, q)

CandidateRollup(cat, query) ==
  LET r == ExpandSegments(cat, query)
  IN IF r.err # "" THEN None
     ELSE UNION {CandidateOf(cat, q) : q \in IF HasMetrics(r.plan) THEN RollupLeafQuery(cat, r.plan) ELSE {r.plan}}

CompileRollupSql(cat, query, rollup) ==
  LET r == ExpandSegments(cat, query)
  IN IF r.err # "" THEN r
     ELSE IF HasMetrics(r.plan)
          THEN CompileWithMetricsVia(cat, r.plan, {rollup})
          ELSE RollupMeasureSql(cat, r.plan, rollup)
=============================================================================
