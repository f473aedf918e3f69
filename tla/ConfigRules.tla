----------------------------- MODULE ConfigRules -----------------------------
(***************************************************************************)
(* The validation rules of a configuration (pawrly-config/validator.rs).   *)
(* Each rule contributes the errors it finds, <<subject, rule>> pairs; a   *)
(* configuration is accepted when there are none.                          *)
(*                                                                         *)
(* A name is a string; which names are identifiers is read off three small *)
(* sets.  A dotted member is the sequence of its parts, an Option the set  *)
(* of its value, a `config:` mapping a function on the keys it sets.       *)
(***************************************************************************)
EXTENDS Naturals, Sequences, FiniteSets, SequencesExt

BadIdents == {"", "2nd", "a-b"}      \* not SQL identifiers
Mangled == {"a__b"}                  \* identifiers holding the UDTF separator
NotText == "#7"                      \* a value that is not a string
Blank == " "                         \* a string of white space

Rule(broken, who, what) == IF broken THEN {<<who, what>>} ELSE {}
Repeats(s, i) == \E j \in 1..(i - 1) : s[j].name = s[i].name
Names(s) == {s[i].name : i \in DOMAIN s}
Each(s, Op(_)) == UNION {Op(i) : i \in DOMAIN s}
Text(m, k) == k \in DOMAIN m /\ m[k] # NotText
Filled(m, k) == Text(m, k) /\ m[k] \notin {"", Blank}

IsValidIdentifier(n) == n \notin BadIdents
IsValidFunctionIdent(n) == IsValidIdentifier(n) /\ n \notin Mangled
IsKnownColumnType(t) ==
  t \in {"varchar", "string", "text", "char", "int", "integer", "int32", "int64", "bigint", "long",
         "smallint", "double", "float", "float32", "float64", "real", "decimal", "numeric", "bool",
         "boolean", "timestamp", "datetime", "date"}

-----------------------------------------------------------------------------
(* Sources. *)

\* A stdio command: a string, or a list whose first entry counts.
HasCommand(c) == Filled(c, "command")

IsLoopback(url) == url.host \in {"localhost", "127.0.0.1", "[::1]"}

ValidateMcp(src) ==
  LET t == IF Text(src.config, "transport") THEN src.config.transport ELSE "none"
  IN CASE t = "stdio" -> Rule(~HasCommand(src.config), src.name, "command")
       [] t = "streamable_http" ->
            IF src.url = {} THEN {<<src.name, "url">>}
            ELSE UNION {IF ~u.parses THEN {<<src.name, "url invalid">>}
                        ELSE Rule(u.scheme = "http" /\ ~IsLoopback(u), src.name, "https")
                               \cup Rule(u.scheme \notin {"http", "https"}, src.name, "scheme")
                               \cup Rule(u.userinfo, src.name, "credentials") : u \in src.url}
       [] OTHER -> {<<src.name, "transport">>}

AnyTablePath(src) == \E i \in DOMAIN src.tables : "path" \in DOMAIN src.tables[i].body

ValidateKind(src) ==
  LET c == src.config
      Needs(broken) == Rule(broken, src.name, src.kind)
  IN CASE src.kind = "file" /\ "storage" \in DOMAIN c ->
            Needs(c.storage \notin {"s3", "gcs", "azure"}) \cup Needs(~AnyTablePath(src))
       [] src.kind = "file" /\ "storage" \notin DOMAIN c ->
            Needs(~Text(c, "path") /\ ~AnyTablePath(src))
       [] src.kind = "duckdb" -> Needs(~Text(c, "path"))
       [] src.kind = "ducklake" -> Needs(~Text(c, "catalog"))
       [] src.kind \in {"postgres", "mysql"} ->
            LET db == IF "database" \in DOMAIN c THEN "database" ELSE "dbname"
            IN Needs(~(Text(c, "dsn") \/ (Text(c, "host") /\ Text(c, db))))
       [] src.kind = "snowflake" -> Needs(\E k \in {"account", "user", "password"} : ~Text(c, k))
       [] src.kind \in {"iceberg", "delta"} ->
            Needs(src.tables = <<>>)
              \cup Each(src.tables, LAMBDA i :
                     LET b == src.tables[i].body
                     IN Rule(~Text(b, IF "path" \in DOMAIN b THEN "path" ELSE "location"),
                             src.tables[i].name, "location"))
       [] src.kind = "mcp" -> ValidateMcp(src)
       [] OTHER -> {}

ValidateSource(src) ==
  Rule(~IsValidIdentifier(src.name), src.name, "name")
    \cup Rule(src.raw_table /\ src.kind # "http", src.name, "raw_table")
    \cup Each(src.tables, LAMBDA i :
           Rule(Repeats(src.tables, i), src.tables[i].name, "duplicate table")
             \cup Rule(~IsValidIdentifier(src.tables[i].name), src.tables[i].name, "table name"))
    \cup ValidateKind(src)

\* A source added at run time may not spawn a process.
ValidateEngineSource(src) ==
  ValidateSource(src)
    \cup Rule(src.kind = "mcp" /\ Text(src.config, "transport") /\ src.config.transport = "stdio",
              src.name, "stdio at runtime")

-----------------------------------------------------------------------------
(* The semantic layer.  `source:` is the parsed table name, <<>> when it   *)
(* does not parse.                                                         *)

Grains == <<"hour", "day", "week", "month", "quarter", "year">>
GrainRank(g) == CHOOSE i \in DOMAIN Grains : Grains[i] = g
IsGrain(g) == g \in Range(Grains)

SourceKnown(table, names) == table # <<>> /\ table[1] \in names
Dim(m, name) == SelectInSeq(m.dimensions, LAMBDA d : d.name = name)
Mea(m, name) == SelectInSeq(m.measures, LAMBDA x : x.name = name)
HasDim(m, name) == Dim(m, name) # 0
HasMea(m, name) == Mea(m, name) # 0

DimensionRules(m) ==
  Each(m.dimensions, LAMBDA i :
    LET d == m.dimensions[i]
    IN Rule(~IsValidIdentifier(d.name), m.name, "dimension name")
         \cup Rule(Repeats(m.dimensions, i), m.name, "duplicate dimension")
         \cup Rule(d.grains # <<>> /\ d.type # "time", m.name, "grains"))

MeasureRules(m) ==
  Each(m.measures, LAMBDA i :
    LET x == m.measures[i]
    IN Rule(~IsValidIdentifier(x.name), m.name, "measure name")
         \cup Rule(Repeats(m.measures, i), m.name, "duplicate measure")
         \cup Rule(HasDim(m, x.name), m.name, "dimension and measure")
         \cup Rule(x.agg = "custom" /\ x.expr \in {"", Blank}, m.name, "empty custom"))

RelationshipRules(m, models) ==
  Each(m.relationships, LAMBDA i :
    LET r == m.relationships[i]
    IN Rule(Repeats(m.relationships, i), m.name, "duplicate relationship")
         \cup Rule(r.target \notin models, m.name, "relationship target")
         \cup Rule(r.on = <<>>, m.name, "empty on"))

\* A grain may not be finer than the finest the dimension declares.
TooFine(d, g) == d.grains # <<>> /\ \A i \in DOMAIN d.grains : GrainRank(g) < GrainRank(d.grains[i])

PreAggRules(m) ==
  Each(m.pre_aggregations, LAMBDA i :
    LET p == m.pre_aggregations[i]
    IN Rule(Repeats(m.pre_aggregations, i), m.name, "duplicate pre-aggregation")
         \cup Each(p.dimensions, LAMBDA j :
                LET ref == p.dimensions[j] IN
                CASE ~HasDim(m, ref[1]) -> {<<m.name, "pre-aggregation dimension">>}
                  [] HasDim(m, ref[1]) /\ Len(ref) = 1 -> {}
                  [] OTHER -> Rule(~IsGrain(ref[2]) \/ TooFine(m.dimensions[Dim(m, ref[1])], ref[2]),
                                   m.name, "pre-aggregation grain"))
         \cup Each(p.measures, LAMBDA j : Rule(~HasMea(m, p.measures[j]), m.name, "pre-aggregation measure"))
         \cup UNION {Rule(~HasDim(m, ref[1]), m.name, "partition_by") : ref \in p.partition_by})

\* A predicate is its placeholders, or says what is wrong with its text.
CheckPredicateParams(p) ==
  p.text = "ok" /\ \A i \in DOMAIN p.params : IsValidIdentifier(p.params[i])

SafetyRules(m) ==
  UNION {Each(s.require_filters_on, LAMBDA i :
           Rule(~HasDim(m, s.require_filters_on[i]), m.name, "require_filters_on"))
           \cup Each(s.required_predicates, LAMBDA i :
                  Rule(~CheckPredicateParams(s.required_predicates[i]), m.name, "required_predicates"))
         : s \in m.safety}

SegmentRules(m) ==
  Each(m.segments, LAMBDA i :
    LET s == m.segments[i]
    IN Rule(~IsValidIdentifier(s.name), m.name, "segment name")
         \cup Rule(Repeats(m.segments, i), m.name, "duplicate segment")
         \cup Rule(s.filters = <<>>, m.name, "segment has no filters")
         \cup Each(s.filters, LAMBDA j :
                LET f == s.filters[j].member
                IN Rule(Len(f) = 1 \/ (f[1] = m.name /\ ~HasDim(m, f[2]) /\ ~HasMea(m, f[2])),
                        m.name, "segment member")))

ValidateSemantic(models, sources) ==
  Each(models, LAMBDA i :
    LET m == models[i]
    IN Rule(~IsValidIdentifier(m.name), m.name, "model name")
         \cup Rule(Repeats(models, i), m.name, "duplicate model")
         \cup Rule(~SourceKnown(m.source, sources), m.name, "source")
         \cup DimensionRules(m) \cup MeasureRules(m) \cup RelationshipRules(m, Names(models))
         \cup PreAggRules(m) \cup SafetyRules(m) \cup SegmentRules(m))

-----------------------------------------------------------------------------
(* Metrics. *)

\* derived_tokens: the references of an expression, or what is wrong with it.
DerivedTokens(k) ==
  IF k.text # "ok" \/ k.tokens = <<>> THEN [err |-> "derived", refs |-> <<>>]
  ELSE IF \E i \in DOMAIN k.tokens : k.tokens[i].member = <<>> THEN [err |-> "derived", refs |-> <<>>]
  ELSE [err |-> "", refs |-> k.tokens]

References(metric) ==
  LET k == metric.kind
  IN CASE k.is = "ratio" -> [err |-> "", refs |-> <<k.numerator, k.denominator>>]
       [] k.is = "derived" -> DerivedTokens(k)
       [] OTHER -> [err |-> "", refs |-> <<[member |-> k.measure, filter |-> {}]>>]

ModelNamed(models, n) == models[SelectInSeq(models, LAMBDA m : m.name = n)]

\* The last model of a name is the one a lookup finds; names repeat only in a
\* configuration that is refused.
CheckMember(member, semantic) ==
  IF Len(member) = 1 THEN member[1] \in Names(semantic.metrics)
  ELSE member[1] \in Names(semantic.models) /\ HasMea(ModelNamed(semantic.models, member[1]), member[2])

HasTimeAxis(m) == \E i \in DOMAIN m.dimensions : m.dimensions[i].type = "time" /\ m.dimensions[i].grains # <<>>

CheckWindowBase(metric, measure, models) ==
  Rule(Len(measure) = 1, metric, "window base")
    \cup Rule(Len(measure) > 1 /\ measure[1] \in Names(models)
                /\ ~HasTimeAxis(ModelNamed(models, measure[1])), metric, "no time dimension")

KindRules(x, semantic) ==
  LET k == x.kind IN
  CASE k.is = "cumulative" ->
         Rule(k.window.is = "trailing" /\ k.window.periods = 0, x.name, "trailing.periods")
           \cup CheckWindowBase(x.name, k.measure, semantic.models)
    [] k.is = "offset" ->
         Rule(k.periods = 0, x.name, "offset.periods")
           \cup CheckWindowBase(x.name, k.measure, semantic.models)
    [] k.is = "share" ->
         Rule(Len(k.measure) = 1, x.name, "share base")
           \cup Each(k.over, LAMBDA i :
                  LET d == k.over[i]
                  IN Rule(Len(d) = 1 \/ d[1] \notin Names(semantic.models)
                            \/ ~HasDim(ModelNamed(semantic.models, d[1]), d[2]), x.name, "share over"))
    [] OTHER -> {}

\* The metric -> metric edges: the references that name a metric.
MetricEdges(metrics) ==
  [n \in Names(metrics) |->
     LET m == ModelNamed(metrics, n)
     IN {References(m).refs[i].member[1] : i \in {j \in DOMAIN References(m).refs :
                                                    Len(References(m).refs[j].member) = 1}}
          \cap Names(metrics)]

\* A depth-first walk.  s holds the nodes done and the ones found on a cycle; a
\* node met again while it is being visited closes one.
RECURSIVE VisitMetric(_, _, _, _)
VisitMetric(edges, visiting, s, n) ==
  IF n \in s.done THEN s
  ELSE IF n \in visiting THEN [s EXCEPT !.cyclic = @ \cup {n}]
  ELSE LET below == FoldSet(LAMBDA next, acc : VisitMetric(edges, visiting \cup {n}, acc, next), s, edges[n])
       IN [below EXCEPT !.done = @ \cup {n}]

\* Mutant: only a metric that refers to itself counts as a cycle.
FindMetricCycles_SelfOnly(metrics) ==
  LET edges == MetricEdges(metrics) IN {n \in DOMAIN edges : n \in edges[n]}

FindMetricCycles(metrics) ==
  LET edges == MetricEdges(metrics)
  IN FoldSet(LAMBDA n, acc : VisitMetric(edges, {}, acc, n), [done |-> {}, cyclic |-> {}], DOMAIN edges).cyclic

ValidateMetrics(semantic, sources) ==
  UNION {Rule(~SourceKnown(t.source, sources), "time_spine", "source")
           \cup Rule(~IsValidIdentifier(t.column), "time_spine", "column") : t \in semantic.time_spine}
    \cup Each(semantic.metrics, LAMBDA i :
           LET x == semantic.metrics[i]
               r == References(x)
           IN Rule(~IsValidIdentifier(x.name), x.name, "metric name")
                \cup Rule(x.name \in Names(semantic.models), x.name, "collides with a model")
                \cup Rule(Repeats(semantic.metrics, i), x.name, "duplicate metric")
                \cup Rule(r.err # "", x.name, "references")
                \cup Each(r.refs, LAMBDA j :
                       Rule(~CheckMember(r.refs[j].member, semantic), x.name, "unknown member"))
                \cup Rule(x.filter = {<<>>}, x.name, "empty filter")
                \cup KindRules(x, semantic))
    \cup {<<n, "cycle">> : n \in FindMetricCycles(semantic.metrics)}

-----------------------------------------------------------------------------
(* Functions.  A body is the endpoint, tool or path it sets with the       *)
(* placeholders of its templates.                                          *)

FunctionKinds == {"http", "mcp", "file"}
ReservedNamespaces == {"http", "file", "mcp", "materialized"}
Builtins == {<<"http", "get">>, <<"file", "glob">>, <<"file", "grep">>}

ArgRules(who, args) ==
  Each(args, LAMBDA i :
    LET a == args[i]
    IN Rule(~IsValidFunctionIdent(a.name), who, "argument name")
         \cup Rule(Repeats(args, i), who, "duplicate argument")
         \cup Rule(~IsKnownColumnType(a.type), who, "argument type")
         \cup Rule(a.required /\ a.default # {}, who, "required and default")
         \cup Rule(a.required /\ \E j \in 1..(i - 1) : ~args[j].required, who, "required after optional"))

ReturnRules(who, f) ==
  Rule(f.returns = <<>>, who, "no returns")
    \cup Each(f.returns, LAMBDA i :
           LET c == f.returns[i]
           IN Rule(~IsValidFunctionIdent(c.name), who, "column name")
                \cup Rule(Repeats(f.returns, i), who, "duplicate column")
                \cup Rule(~IsKnownColumnType(c.type), who, "column type")
                \cup Rule(c.source = "arg" /\ c.name \notin Names(f.args), who, "source: arg"))

ValidateHttpFunction(who, standalone, f) ==
  IF ~Filled(f.body, "endpoint") THEN {<<who, "endpoint">>}
  ELSE Rule(~(f.placeholders \subseteq Names(f.args)), who, "placeholder")
         \cup Rule(standalone /\ ~f.absolute /\ ~Filled(f.config, "base_url"), who, "base_url")

ValidateMcpFunction(who, standalone, f) ==
  LET t == IF Text(f.config, "transport") THEN f.config.transport ELSE "none"
  IN Rule(~Filled(f.body, "tool"), who, "tool")
       \cup (IF ~standalone THEN {}
             ELSE Rule(t \notin {"stdio", "streamable_http"}, who, "transport")
                    \cup Rule(t = "stdio" /\ ~HasCommand(f.config), who, "command")
                    \cup Rule(t = "streamable_http" /\ ~Text(f.config, "url"), who, "url"))

ValidateFileFunction(who, f) ==
  IF ~Filled(f.body, "path") THEN {<<who, "path">>}
  ELSE Rule(~(f.placeholders \subseteq Names(f.args)), who, "placeholder")
         \cup Rule(Text(f.body, "format")
                     /\ f.body.format \notin {"csv", "tsv", "json", "jsonl", "ndjson", "parquet"}, who, "format")

ValidateOneFunction(ns, kind, standalone, f) ==
  LET who == f.name
  IN Rule(~IsValidFunctionIdent(f.name), who, "name")
       \cup Rule(~IsValidFunctionIdent(ns), who, "namespace")
       \cup ArgRules(who, f.args) \cup ReturnRules(who, f)
       \cup CASE kind = "http" -> ValidateHttpFunction(who, standalone, f)
              [] kind = "mcp" -> ValidateMcpFunction(who, standalone, f)
              [] OTHER -> ValidateFileFunction(who, f)

\* Attached to a source: its namespace, kind and connection are the source's.
AttachedRules(src, f) ==
  LET who == f.name
  IN Rule(f.namespace # {}, who, "namespace set")
       \cup Rule(DOMAIN f.config # {}, who, "config set")
       \cup (IF src.kind \notin FunctionKinds THEN {<<who, "source kind">>}
             ELSE Rule(f.kind # {} /\ f.kind # {src.kind}, who, "kind")
                    \cup Rule(f.name \in Names(src.tables), who, "collides with a table")
                    \cup ValidateOneFunction(src.name, src.kind, FALSE, f))

StandaloneRules(f, sources) ==
  IF f.namespace = {} THEN {<<f.name, "namespace">>}
  ELSE UNION {IF f.kind = {} THEN {<<f.name, "kind">>}
              ELSE Rule(ns \in ReservedNamespaces, f.name, "reserved")
                     \cup Rule(ns \in sources, f.name, "shadows a source")
                     \cup UNION {ValidateOneFunction(ns, k, TRUE, f) : k \in f.kind}
              : ns \in f.namespace}

\* The qualified names that reach the duplicate check, in declaration order.
Declared(cfg) ==
  FoldLeft(LAMBDA acc, s : acc \o (IF s.kind \in FunctionKinds
                                   THEN [i \in DOMAIN s.functions |-> <<s.name, s.functions[i].name>>]
                                   ELSE <<>>), <<>>, cfg.sources)
    \o LET whole == SelectSeq(cfg.functions, LAMBDA f : f.namespace # {} /\ f.kind # {})
       IN [i \in DOMAIN whole |-> <<CHOOSE n \in whole[i].namespace : TRUE, whole[i].name>>]

ValidateFunctions(cfg, sources) ==
  LET all == Declared(cfg)
  IN Each(cfg.sources, LAMBDA i :
            Each(cfg.sources[i].functions, LAMBDA j : AttachedRules(cfg.sources[i], cfg.sources[i].functions[j])))
       \cup Each(cfg.functions, LAMBDA i : StandaloneRules(cfg.functions[i], sources))
       \cup Each(all, LAMBDA i : Rule(all[i] \in Builtins \/ \E j \in 1..(i - 1) : all[j] = all[i],
                                      all[i][2], "duplicate function"))

-----------------------------------------------------------------------------
Validate(cfg) ==
  LET sources == Names(cfg.sources)
  IN Rule(cfg.version # 1, "config", "version")
       \cup Each(cfg.sources, LAMBDA i :
              LET s == cfg.sources[i]
              IN Rule(s.name \in {"materialized", "system"}, s.name, "reserved")
                   \cup Rule(Repeats(cfg.sources, i), s.name, "duplicate source")
                   \cup ValidateSource(s))
       \cup UNION {ValidateSemantic(m.models, sources) \cup ValidateMetrics(m, sources) : m \in cfg.semantic}
       \cup ValidateFunctions(cfg, sources)
=============================================================================
