---------------------------- MODULE SemanticLayer ----------------------------
(***************************************************************************)
(* The semantic layer at run time: a configuration is validated and its    *)
(* models loaded, pre-aggregations are registered as cached tables, and    *)
(* semantic queries are compiled - against a stored rollup when one covers *)
(* the query and is fresh - and executed.  The cache outlives the process. *)
(*                                                                         *)
(* A stored rollup is remembered by what it was built from, the            *)
(* configuration and the base rows; its rows follow from these.  Between a *)
(* query's answer and its being read nothing else is interleaved: the      *)
(* answer is a value by then and nothing can change it.                    *)
(***************************************************************************)
EXTENDS SemanticSql

CONSTANTS Configs,         \* the configurations the engine may be started with
          Queries,         \* the semantic queries
          Tables,          \* base tables: table name -> rows always there
          Late,            \* rows inserted later, a sequence of <<table, row>>
          RollupKeys       \* <<model, pre-aggregation>> pairs

VARIABLES loaded,          \* index of the running configuration, 0 when stopped
          data,            \* the late rows inserted so far
          registered,      \* the rollup tables the engine knows
          refreshers,      \* the ones with a background refresher
          stored,          \* RollupKeys -> {} or the build [cfg, data]
          last             \* the last query: [q, err, answer, from]

vars == <<loaded, registered, refreshers, data, stored, last>>

NoQuery == [q |-> 0, err |-> "", answer |-> {}, from |-> {}]

Catalog(i) ==
  IF i = 0 \/ Configs[i].semantic = {} THEN EmptyCatalog
  ELSE NewWithMetrics(CHOOSE s \in Configs[i].semantic : TRUE)

Database(d) ==
  [t \in DOMAIN Tables |->
     Tables[t] \o LET mine == SelectSeq([i \in DOMAIN Late |-> <<i, Late[i]>>],
                                        LAMBDA x : x[1] \in d /\ x[2][1] = t)
                  IN [i \in DOMAIN mine |-> mine[i][2][2]]]

\* The rows of a stored rollup: its own SQL over the base rows of its build.
Columned(cols, rel) ==
  [i \in DOMAIN rel |-> [c \in Range(cols) |-> rel[i][SelectInSeq(cols, LAMBDA x : x = c)]]]
RowsOf(cat, db, model, pre) ==
  Columned([i \in DOMAIN pre.dimensions |-> pre.dimensions[i][1]] \o pre.measures,
           SetToSeq(CHOOSE r \in Execute(db, CompilePreaggSql(cat, model, pre).plan) : TRUE))
RollupIn(cat, db, key) == RowsOf(cat, db, key[1], Find(cat.models[key[1]].pre_aggregations, key[2]))
RollupRows(key, build) == RollupIn(Catalog(build.cfg), Database(build.data), key)

\* The base tables and the stored rollups, as a query sees them.
VisibleWith(base, builds) ==
  LET held == {k \in RollupKeys : builds[k] # {}}
  IN [t \in DOMAIN base \cup {<<"semantic", k[1], k[2]>> : k \in held} |->
        IF t \in DOMAIN base THEN base[t]
        ELSE RollupRows(<<t[2], t[3]>>, CHOOSE b \in builds[<<t[2], t[3]>>] : TRUE)]
Visible(d, builds) == VisibleWith(Database(d), builds)

\* A pre-aggregation that does not compile is skipped, never fatal.
RegisterRollups(cat) ==
  {<<r[1], r[2].name>> : r \in {x \in Rollups(cat) : CompilePreaggSql(cat, x[1], x[2]).err = ""}}

\* Mutant: the refresher of the other pre-aggregations.
Refreshed_Swapped(cat) ==
  {k \in RegisterRollups(cat) : ~Find(cat.models[k[1]].pre_aggregations, k[2]).refresh}
\* The ones with `refresh:` have a background refresher.
Refreshed(cat) ==
  {k \in RegisterRollups(cat) : Find(cat.models[k[1]].pre_aggregations, k[2]).refresh}

IsFresh(builds, key) == builds[key] # {}

-----------------------------------------------------------------------------
Load ==
  /\ loaded = 0
  /\ loaded' \in {i \in DOMAIN Configs : Validate(Configs[i]) = {}}
  /\ registered' = RegisterRollups(Catalog(loaded'))
  /\ refreshers' = Refreshed(Catalog(loaded'))
  /\ UNCHANGED <<data, stored, last>>

Restart ==
  /\ loaded # 0 /\ last = NoQuery
  /\ loaded' = 0 /\ registered' = {} /\ refreshers' = {}
  /\ UNCHANGED <<data, stored, last>>

Insert(i) ==
  /\ i \notin data /\ last = NoQuery
  /\ data' = data \cup {i}
  /\ UNCHANGED <<loaded, registered, refreshers, stored, last>>

Build == {[cfg |-> loaded, data |-> data]}

\* A refresher's turn.
Tick(key) ==
  /\ key \in refreshers /\ last = NoQuery
  /\ stored' = [stored EXCEPT ![key] = Build]
  /\ UNCHANGED <<loaded, registered, refreshers, data, last>>

Invalidate(key) ==
  /\ loaded # 0 /\ stored[key] # {} /\ last = NoQuery
  /\ stored' = [stored EXCEPT ![key] = {}]
  /\ UNCHANGED <<loaded, registered, refreshers, data, last>>

\* compile_semantic: the plan, what it reads, and the rollups after it.  A
\* rollup that is not fresh is built first; a failure falls back to the base.
CompileVia(cat, q, builds, works, cand) ==
  LET key == LET r == CHOOSE x \in cand : TRUE IN <<r.model, r.preagg>>
      after == IF cand # {} /\ ~IsFresh(builds, key) /\ works /\ key \in registered
               THEN [builds EXCEPT ![key] = Build] ELSE builds
  IN IF cand # {} /\ IsFresh(after, key)
     THEN [res |-> CompileRollupSql(cat, q, CHOOSE r \in cand : TRUE), from |-> after[key], stored |-> after,
           found |-> key \in registered]
     ELSE [res |-> CompileSql(cat, q), from |-> Build, stored |-> after, found |-> TRUE]
CompileIn(cat, q, builds, works) == CompileVia(cat, q, builds, works, CandidateRollup(cat, q))
CompileSemantic(q, builds, works) == CompileIn(Catalog(loaded), q, builds, works)

\* A term over a column the query does not select does not plan, nor does a
\* table that is not registered.
Plans(p) == p.form # "facts" \/ \A i \in DOMAIN p.where : p.where[i].column # 0
SqlErr(c) ==
  CASE c.res.err # "" -> c.res.err
    [] c.res.err = "" /\ ~c.found -> "invalid sql"
    [] OTHER -> IF Plans(IF c.res.plan.form = "metric" THEN c.res.plan.inner ELSE c.res.plan) THEN "" ELSE "invalid sql"

SemanticQuery ==
  /\ loaded # 0 /\ last = NoQuery
  /\ \E n \in DOMAIN Queries, works \in BOOLEAN : \E c \in {CompileSemantic(Queries[n], stored, works)} :
       /\ stored' = c.stored
       /\ IF SqlErr(c) # ""
          THEN last' = [q |-> n, err |-> SqlErr(c), answer |-> {}, from |-> {}]
          ELSE \E a \in Execute(Visible(data, c.stored), c.res.plan) :
                 last' = [q |-> n, err |-> "", answer |-> a, from |-> c.from]
  /\ UNCHANGED <<loaded, registered, refreshers, data>>

\* The caller has read the answer.
Answered == last # NoQuery /\ last' = NoQuery /\ UNCHANGED <<loaded, registered, refreshers, data, stored>>

Init == loaded = 0 /\ registered = {} /\ refreshers = {} /\ data = {} /\ stored = [k \in RollupKeys |-> {}] /\ last = NoQuery

Next ==
  \/ Load
  \/ Restart
  \/ \E i \in DOMAIN Late : Insert(i)
  \/ \E k \in RollupKeys : Tick(k) \/ Invalidate(k)
  \/ SemanticQuery
  \/ Answered

\* A refresher keeps ticking while the engine runs and an answer is read in the
\* end.
Spec == Init /\ [][Next]_vars /\ WF_vars(Answered) /\ \A k \in RollupKeys : SF_vars(Tick(k))

-----------------------------------------------------------------------------
(* What a query means, stated on the base rows: a fact row is looked up    *)
(* through the shortest chain of relationships, counts once in each group  *)
(* it belongs to, and a measure aggregates the rows of its own fact.       *)

Linked(cat, a, b) ==
  {r.on : r \in {x \in Range(cat.models[a].relationships) : x.target = b}}
    \cup {r.on : r \in {x \in Range(cat.models[b].relationships) : x.target = a}}

Chains(cat, a, b) ==
  {s \in UNION {[1..n -> DOMAIN cat.models] : n \in 1..Cardinality(DOMAIN cat.models)} :
     s[1] = a /\ s[Len(s)] = b /\ \A i \in 1..(Len(s) - 1) : Linked(cat, s[i], s[i + 1]) # {}}
Shortest(cat, a, b) ==
  LET all == Chains(cat, a, b) IN {s \in all : \A t \in all : Len(s) <= Len(t)}

Matches(on, a, ra, b, rb) ==
  IF on[1] = a THEN ra[on[2]] # Null /\ ra[on[2]] = rb[on[4]] ELSE ra[on[4]] # Null /\ ra[on[4]] = rb[on[2]]

\* The rows of model b that a row of model a leads to.
LooksUp(cat, db, a, row, b) ==
  LET chain == CHOOSE s \in Shortest(cat, a, b) : TRUE
      Rows(m) == Range(db[cat.models[m].source])
      Step(at, i) == {t \in Rows(chain[i + 1]) : \E u \in at : \E on \in Linked(cat, chain[i], chain[i + 1]) :
                        Matches(on, chain[i], u, chain[i + 1], t)}
  IN IF a = b THEN {row} ELSE FoldLeft(Step, {row}, [i \in 1..(Len(chain) - 1) |-> i])

\* The values of a dimension member for a fact row.
Seen(cat, db, fact, row, member, tz) ==
  LET d == Find(cat.models[member[1]].dimensions, member[2])
  IN {AtZone(IF Len(member) = 3 THEN member[3] ELSE "", t[d.expr], tz) : t \in LooksUp(cat, db, fact, row, member[1])}

\* The fact rows of a group: those the filters and the predicates admit.
Admitted(cat, db, q, fact, key) ==
  LET RowOk(row) ==
        /\ \A i \in DOMAIN q.dimensions : key[i] \in Seen(cat, db, fact, row, q.dimensions[i], q.time_zone)
        /\ \A i \in DOMAIN q.filters : MemberIsMeasure(cat, q.filters[i].member)
             \/ \E v \in Seen(cat, db, fact, row, q.filters[i].member, q.time_zone) :
                  Holds(v, q.filters[i].op, q.filters[i].values)
        /\ \A m \in {fact} \cup {q.dimensions[i][1] : i \in DOMAIN q.dimensions}
                     \cup {q.filters[i].member[1] : i \in {j \in DOMAIN q.filters : ~MemberIsMeasure(cat, q.filters[j].member)}} :
             \A s \in cat.models[m].safety : \A p \in Range(s.required_predicates) :
               \E t \in LooksUp(cat, db, fact, row, m) : t[p.col] \in Range(p.values) \cup {q.params[x] : x \in Range(p.params)}
  IN SelectSeq(db[cat.models[fact].source], RowOk)

\* A measure of a group under further filters on its fact.
Measured(cat, db, q, member, filters, key) ==
  LET x == Find(cat.models[member[1]].measures, member[2])
      rows == Admitted(cat, db, q, member[1], key)
      kept == SelectSeq(rows, LAMBDA r : \A f \in filters \cup Range(x.filters) : Holds(r[f.col], f.op, f.values))
  IN IF rows = <<>> /\ key # <<>> THEN Null
     ELSE Aggregate(x.agg, [i \in DOMAIN kept |-> kept[i][x.expr]])

\* The facts a member reads.
RECURSIVE FactsOf(_, _)
FactsOf(cat, member) ==
  IF ~IsMetric(member) THEN {member[1]}
  ELSE UNION {FactsOf(cat, References(cat.metrics[member[1]]).refs[i].member) :
                i \in DOMAIN References(cat.metrics[member[1]]).refs}

\* The groups with a row of some fact that the measure filters admit.
GroupKeys(cat, db, q) ==
  LET facts == UNION {FactsOf(cat, q.measures[i]) : i \in DOMAIN q.measures}
      All == UNION {UNION {UNION {Seen(cat, db, f, db[cat.models[f].source][n], q.dimensions[i], q.time_zone) :
                                    i \in DOMAIN q.dimensions} : n \in DOMAIN db[cat.models[f].source]} : f \in facts}
      live == IF q.dimensions = <<>> THEN {<<>>}
              ELSE {k \in [DOMAIN q.dimensions -> All] : \E f \in facts : Admitted(cat, db, q, f, k) # <<>>}
  IN {k \in live : \A i \in DOMAIN q.filters : MemberIsMeasure(cat, q.filters[i].member) =>
        Holds(Measured(cat, db, q, q.filters[i].member, {}, k), q.filters[i].op, q.filters[i].values)}

\* The buckets of the time axis, and the group of a key in another bucket.
AxisAt(q) == CHOOSE i \in TimeDims(q) : TRUE
StepOf(q) == HoursIn(q.dimensions[AxisAt(q)][3])
First(keys, q) == LET ts == {k[AxisAt(q)] : k \in keys} IN CHOOSE t \in ts : \A u \in ts : t <= u
LastOf(keys, q) == LET ts == {k[AxisAt(q)] : k \in keys} IN CHOOSE t \in ts : \A u \in ts : u <= t
Dense(keys, q) ==
  IF keys = {} THEN {}
  ELSE {[k EXCEPT ![AxisAt(q)] = First(keys, q) + n * StepOf(q)] :
          k \in keys, n \in 0..((LastOf(keys, q) - First(keys, q)) \div StepOf(q))}

\* A member's value in a group.  A window is a range of buckets of the axis.
RECURSIVE Meaning(_, _, _, _, _, _, _)
Meaning(cat, db, q, keys, member, inherited, key) ==
  IF ~IsMetric(member) THEN Measured(cat, db, q, member, inherited, key)
  ELSE LET x == cat.metrics[member[1]]
           k == x.kind
           fs == inherited \cup x.filter
           Of(ref) == Meaning(cat, db, q, keys, ref.member, fs \cup ref.filter, key)
           In(j) == Meaning(cat, db, q, keys, k.measure, fs, j)
           At(t) == In([key EXCEPT ![AxisAt(q)] = t])
           now == key[AxisAt(q)]
           Back(n) == now - n * StepOf(q)
           Behind(n) == IF Back(n) < First(keys, q) THEN Null ELSE OrZero(At(Back(n)))
       IN CASE k.is = "ratio" -> Divide(Of(k.numerator), Of(k.denominator))
            [] k.is = "derived" /\ k.op = "minus" -> Less(Of(k.tokens[1]), Of(k.tokens[2]))
            [] k.is = "derived" /\ k.op = "plus" -> Plus(Of(k.tokens[1]), Of(k.tokens[2]))
            [] k.is = "cumulative" ->
                 LET w == k.window
                     ts == {t \in First(keys, q)..now :
                              /\ (now - t) % StepOf(q) = 0
                              /\ w.is = "trailing" => now - t < w.periods * StepOf(q)
                              /\ w.is = "grain_to_date" => DateTrunc(w.grain, t) = DateTrunc(w.grain, now)}
                     vs == LET s == SetToSeq(ts) IN [i \in DOMAIN s |-> At(s[i])]
                 IN Aggregate(k.agg, IF k.agg \in {"sum", "avg"} THEN [i \in DOMAIN vs |-> OrZero(vs[i])] ELSE vs)
            [] k.is = "offset" ->
                 Compared(k.output, OrZero(At(now)), Behind(k.periods))
            [] OTHER ->
                 LET peers == SetToSeq({j \in keys : \A i \in DOMAIN q.dimensions :
                                          q.dimensions[i] \in Range(k.over) => j[i] = key[i]})
                 IN Divide(In(key), Aggregate(k.agg, [i \in DOMAIN peers |-> In(peers[i])]))

Spread(cat, q, keys) == IF SpineMode(cat, q) THEN Dense(keys, q) ELSE keys
Tabulated(cat, db, q, rows) ==
  {k \o [i \in DOMAIN q.measures |-> Meaning(cat, db, q, rows, q.measures[i], {}, k)] : k \in rows}
ExpectedOf(cat, db, q) == Tabulated(cat, db, q, Spread(cat, q, GroupKeys(cat, db, q)))
Expected(cat, db, query) == ExpectedOf(cat, db, ExpandSegments(cat, query).plan)

Cap(cat, query) ==
  LET q == ExpandSegments(cat, query).plan
  IN Least(query.limit \cup UNION {MaxRows(cat, f) : f \in UNION {FactsOf(cat, q.measures[i]) : i \in DOMAIN q.measures}})

\* A filter on a time dimension at a grain the stored rows no longer have.
LosesGrain(q) == \E i \in DOMAIN q.filters : Len(q.filters[i].member) = 2 /\ q.filters[i].member[2] = "at"

AnswerIs(cat, db, q, answer) == answer \in Uncut(Expected(cat, db, q), Cap(cat, q))

\* compile_sql's promise that nothing silently wrong is compiled: an accepted
\* query of measures and metrics returns exactly what the base rows say - no
\* fact row counted twice through a join, no fact inflating another, a metric
\* over the right leaves, a window aligned on every bucket - and a rollup
\* returns what the base rows it was built from say.  Filters on the raw value
\* of a truncated time are left out: a rollup answers them wrongly (README).
AnswersExact ==
  last.q # 0 /\ last.err = "" /\ Queries[last.q].measures # <<>> /\ ~LosesGrain(Queries[last.q]) =>
    \E b \in last.from : AnswerIs(Catalog(b.cfg), Database(b.data), Queries[last.q], last.answer)

Probe(n, dims) == [measures |-> <<<<n>>>>, dimensions |-> dims, filters |-> <<>>, segments |-> <<>>,
                   order_by |-> <<>>, limit |-> {}, time_zone |-> 0, params |-> <<>>]
Groupings(cat) ==
  {<<>>} \cup UNION {UNION {{<<<<m, d.name, g>>>> : g \in Range(d.grains)} :
                        d \in Range(cat.models[m].dimensions)} : m \in DOMAIN cat.models}
AllExpand(cat) ==
  \A n \in DOMAIN cat.metrics :
    \E dims \in IF cat.metrics[n].kind.is = "share" THEN {cat.metrics[n].kind.over} ELSE Groupings(cat) :
      CompileSql(cat, Probe(n, dims)).err
        \notin {"unknown member", "unknown metric", "metric cycle", "needs time grain", "invalid grain", "compile"}

\* What the validator accepts the compiler can compile: every metric of a
\* loaded configuration expands for some grouping, with no unknown member or
\* metric, no cycle and no missing time axis.
LoadedCompiles == AllExpand(Catalog(loaded))

\* A pre-aggregation with `refresh:` catches up with the base rows while the
\* engine runs.
RollupCatchesUp ==
  \A k \in RollupKeys :
    (k \in registered
       /\ Find(Catalog(loaded).models[k[1]].pre_aggregations, k[2]).refresh
       /\ stored[k] # {[cfg |-> loaded, data |-> data]})
      ~> (loaded = 0 \/ stored[k] = {[cfg |-> loaded, data |-> data]})
=============================================================================
