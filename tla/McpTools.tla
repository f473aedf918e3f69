------------------------------ MODULE McpTools ------------------------------
(***************************************************************************)
(* The tools of the MCP server: the engine calls that a tools/call makes    *)
(* and the payload it answers with (crates/pawrly-mcp/src/tools.rs), and    *)
(* the JSON-RPC envelopes around them (dispatch.rs).  Most tools make one   *)
(* engine call.  search_tables ranks what list_tables returns, list_columns *)
(* describes one table after another, and call_function looks up the        *)
(* function's declaration before it builds the SQL that calls it.           *)
(*                                                                          *)
(* A request is [tool, args]; args is a record of options, None for an      *)
(* argument that was left out.  cancel_query and query ids are the subject  *)
(* of McpQueries.                                                           *)
(***************************************************************************)
EXTENDS WireCalls, TLC

NoArg == [none |-> TRUE]

\* Payloads are read by an agent, which tells three outcomes apart: a result,
\* a tool error, whose text is that of the engine's error, and a JSON-RPC
\* error.
ToolError(message) == [v |-> "Tool", text |-> message, of |-> <<>>]
RpcError(code, text) == [v |-> code, text |-> text, of |-> <<>>]
BadArgs(text) == Err(RpcError("InvalidParams", text))
ToolResponse(a) == IF a.ok THEN Ok(a.v) ELSE Err(ToolError(Display(a.e)))

-----------------------------------------------------------------------------
\* Arguments.

Required(args, name) == IF args[name] = None THEN BadArgs(name) ELSE Ok(args[name][1])

\* A text of the form <schema>.<table>, or <namespace>.<name>.
TableNameArg(args) ==
    AndThen(Required(args, "table"),
            LAMBDA s : IF TableParse(s) = None THEN BadArgs("table") ELSE Ok(TableParse(s)[1]))
SplitFunctionArg(args) ==
    AndThen(Required(args, "function"),
            LAMBDA s : IF Len(s) < 2 \/ s[1] = "" \/ Tail(s) = <<"">> THEN BadArgs("function")
                       ELSE Ok(Plain(s)))

FormatOfText ==
    [parquet |-> "Parquet", csv |-> "Csv", json |-> "Json", ndjson |-> "Json", jsonl |-> "Json"]
ParseFormat(f) ==
    IF f = None THEN Ok(None)
    ELSE IF f[1] \in DOMAIN FormatOfText THEN Ok(Some(FormatOfText[f[1]])) ELSE BadArgs("format")

\* The rows a tool may return.  The defaults of the tools (50 tables, 500
\* columns, 1000 rows) are one constant here.
MaxRows(args) == IF args.max_rows = None THEN DefaultLimit ELSE args.max_rows[1]

-----------------------------------------------------------------------------
\* Catalog tools.

SourceFilter(args) ==
    IF args.source = None THEN None ELSE Some([source |-> args.source, name_glob |-> None])
ListTables(args) == Ok(Call("list_tables", Plain(<<>>), None, SourceFilter(args)))

Simple(op) == Ok(Call(op, Plain(<<>>), None, NoArg))
ListSources(args) == Simple("list_sources")
DescribeTable(args) ==
    AndThen(TableNameArg(args), LAMBDA t : Ok(Call("describe_table", t, None, NoArg)))

\* null and a missing list mean every source.
GetSchema(args) ==
    Ok(Call("schema_snapshot", Plain(<<>>), None,
            [sources |-> args.sources,
             compact |-> IF args.compact = None THEN TRUE ELSE args.compact[1]]))

\* search_tables: a term is found in a name or in a description; only
\* neighbouring repetitions of a term are dropped.
SearchTerms(query) ==
    LET kept == {i \in DOMAIN query : i = 1 \/ query[i] # query[i - 1]}
    IN  [i \in 1..Cardinality(kept) |->
            query[CHOOSE k \in kept : Cardinality({j \in kept : j <= k}) = i]]
InName(term, t) == term \in Range(TableDisplay(t.name))
InDescription(term, t) == t.description = Some(term)
Matches(terms, t) ==
    \A i \in DOMAIN terms : InName(terms[i], t) \/ InDescription(terms[i], t)
TableMatchScore(terms, t) ==
    LET named == {i \in DOMAIN terms : InName(terms[i], t)}
    IN  10 * Cardinality(named) + Cardinality(DOMAIN terms \ named)

SearchTables(args) ==
    AndThen(Required(args, "query"),
            LAMBDA q : IF SearchTerms(q) = <<>> THEN BadArgs("query") ELSE ListTables(args))

\* Ties are broken by name, which the model's names have no order for.
SearchPayload(args, tables) ==
    LET terms == SearchTerms(args.query[1])
        limit == IF args.limit = None THEN DefaultLimit ELSE args.limit[1]
        found == SelectSeq(tables, LAMBDA t : Matches(terms, t))
    IN  [tables |-> UpTo(SortSeq(found, LAMBDA s, t : TableMatchScore(terms, s)
                                                        > TableMatchScore(terms, t)), limit),
         match_count |-> Len(found), truncated |-> Len(found) > limit]

\* list_columns: the target tables, described in turn until a column too many
\* is found.
ListColumns(args) ==
    IF args.table # None THEN DescribeTable(args) ELSE ListTables(args)
ColumnLimit(args) == IF args.limit = None THEN DefaultLimit ELSE args.limit[1]
ColumnRows(args, targets, seen) ==
    LET wanted(col) == args.name = None \/ args.name[1] \in {col.name} \cup Range(col.description)
        rows(i) == MapAll(SelectSeq(seen[i].columns, wanted),
                          LAMBDA col : [table |-> targets[i], column |-> col])
    IN  FlattenSeq([i \in DOMAIN seen |-> rows(i)])
NextColumns(args, targets, seen) ==
    IF \/ Len(ColumnRows(args, targets, seen)) > ColumnLimit(args)
       \/ Len(seen) = Len(targets)
    THEN None
    ELSE Some(Call("describe_table", targets[Len(seen) + 1], None, NoArg))
ColumnsPayload(args, targets, seen) ==
    [columns |-> UpTo(ColumnRows(args, targets, seen), ColumnLimit(args)),
     truncated |-> Len(ColumnRows(args, targets, seen)) > ColumnLimit(args)]

-----------------------------------------------------------------------------
\* Tools that run a query.  cap is the LIMIT around the SQL.

QueryArg(sql, cap) ==
    [sql |-> sql, params |-> "none", max_rows |-> 0, timeout |-> None, trace_id |-> None,
     context |-> "InProcess", format |-> None, cap |-> cap]

\* Only SELECT and WITH can be wrapped; "show" stands for every other
\* statement.
RowBoundedSql(sql, limit) == QueryArg(sql, IF sql = "show" THEN None ELSE Some(limit))

Query(args) ==
    AndThen(Required(args, "sql"),
            LAMBDA sql : Ok(Call("query", Plain(<<>>), None, RowBoundedSql(sql, MaxRows(args) + 1))))

\* The arguments are a superset of a SemanticQuery, which serde reads.
SemanticQuery(args) ==
    IF \E i \in DOMAIN args.filters : args.filters[i].op \notin DOMAIN FilterOpWire
    THEN BadArgs("filters")
    ELSE Ok(Call("semantic_query", Plain(<<>>), None,
                 [limit |-> args.limit, filters |-> args.filters, order_by |-> args.order_by]))

ListFunctions(args) == Simple("list_functions")
DescribeFunction(args) ==
    AndThen(SplitFunctionArg(args), LAMBDA n : Ok(Call("describe_function", n, None, NoArg)))

\* Named arguments in the declared order, up to the last that was given;
\* defaults fill the gaps, and names that are not declared are ignored.
OrderFunctionArgs(decl, named) ==
    LET given == {i \in DOMAIN decl.args : decl.args[i].name \in DOMAIN named}
        value(i) == IF i \in given THEN Some(named[decl.args[i].name]) ELSE decl.args[i].default
        last == IF given = {} THEN 0 ELSE Max(given)
    IN  IF \E i \in 1..last : value(i) = None THEN BadArgs("args")
        ELSE Ok([i \in 1..last |-> value(i)[1]])

\* call_function, once the declaration is known.
CallFunction(args, decl) ==
    AndThen(OrderFunctionArgs(decl, args.args),
            LAMBDA values : Ok(Call("query", Plain(<<>>), None,
                                    QueryArg([function |-> args.function[1], args |-> values],
                                             Some(MaxRows(args))))))

\* The batches of a query's result; an error in it is the tool's.
RowsPayload(items, max) ==
    IF \E i \in DOMAIN items : items[i].k = "err" THEN ToolResponse(Err(Last(items).v))
    ELSE Ok(LET f == FormatBatches(RowsOf(items), max)
            IN  [columns |-> f.columns, rows |-> f.rows, row_count |-> Len(f.rows),
                 truncated |-> f.truncated])

-----------------------------------------------------------------------------
\* Semantic and cache tools.

ListSemanticModels(args) == Simple("list_semantic_models")
ListMetrics(args) == Simple("list_metrics")
DescribeSemanticModel(args) ==
    AndThen(Required(args, "name"),
            LAMBDA n : Ok(Call("describe_semantic_model", Plain(n), None, NoArg)))
DescribeMetric(args) ==
    AndThen(Required(args, "name"), LAMBDA n : Ok(Call("describe_metric", Plain(n), None, NoArg)))

RefreshTable(args) ==
    AndThen(TableNameArg(args), LAMBDA t : Ok(Call("refresh_table", t, args.namespace, NoArg)))

\* The first origin that was given counts; a query has no format.
MaterializeSpec(args, format) ==
    CASE args.sql # None -> Ok([kind |-> "Query", format |-> None])
      [] args.sql = None /\ args.file # None -> Ok([kind |-> "File", format |-> format])
      [] args.sql = None /\ args.file = None /\ args.url # None -> Ok([kind |-> "Url", format |-> format])
      [] OTHER -> BadArgs("origin")
MaterializeTool(args) ==
    AndThen(Required(args, "name"), LAMBDA n :
    AndThen(ParseFormat(args.format), LAMBDA format :
    AndThen(MaterializeSpec(args, format), LAMBDA spec :
        Ok(Call("materialize", Plain(n), args.namespace, spec)))))

DropMaterializedTool(args) ==
    AndThen(Required(args, "name"),
            LAMBDA n : Ok(Call("drop_materialized", Plain(n), args.namespace, NoArg)))
DropNamespaceTool(args) ==
    AndThen(Required(args, "namespace"),
            LAMBDA n : Ok(Call("drop_namespace", Plain(n), None, NoArg)))

-----------------------------------------------------------------------------
\* call_tool: the first engine call, the call after those whose answers have
\* been seen, and the payload.

FirstCall(r) ==
    CASE r.tool = "list_tables" -> ListTables(r.args)
      [] r.tool = "search_tables" -> SearchTables(r.args)
      [] r.tool = "list_columns" -> ListColumns(r.args)
      [] r.tool = "query" -> Query(r.args)
      [] r.tool = "list_sources" -> ListSources(r.args)
      [] r.tool = "describe_table" -> DescribeTable(r.args)
      [] r.tool = "get_schema" -> GetSchema(r.args)
      [] r.tool = "refresh_table" -> RefreshTable(r.args)
      [] r.tool = "list_metrics" -> ListMetrics(r.args)
      [] r.tool = "describe_metric" -> DescribeMetric(r.args)
      [] r.tool = "list_semantic_models" -> ListSemanticModels(r.args)
      [] r.tool = "describe_semantic_model" -> DescribeSemanticModel(r.args)
      [] r.tool = "list_functions" -> ListFunctions(r.args)
      [] r.tool \in {"describe_function", "call_function"} -> DescribeFunction(r.args)
      [] r.tool = "semantic_query" -> SemanticQuery(r.args)
      [] r.tool = "materialize" -> MaterializeTool(r.args)
      [] r.tool = "drop_materialized" -> DropMaterializedTool(r.args)
      [] r.tool = "drop_namespace" -> DropNamespaceTool(r.args)
      [] OTHER -> Err(RpcError("InvalidParams", "unknown tool"))

\* targets are the tables that list_columns goes through.
TargetsOf(r, made, v) ==
    CASE r.tool = "list_columns" /\ r.args.table # None -> <<made.name>>
      [] r.tool = "list_columns" /\ r.args.table = None -> MapAll(v, LAMBDA t : t.name)
      [] OTHER -> <<>>

NextCall(r, targets, seen) ==
    CASE r.tool = "list_columns" -> Ok(NextColumns(r.args, targets, seen))
      [] r.tool = "call_function" ->
            AndThen(CallFunction(r.args, seen[1]), LAMBDA c : Ok(Some(c)))
      [] OTHER -> Ok(None)

Payload(r, targets, seen) ==
    CASE r.tool = "search_tables" -> SearchPayload(r.args, seen[1])
      [] r.tool = "list_columns" -> ColumnsPayload(r.args, targets, seen)
      [] OTHER -> Last(seen)

=============================================================================
