--------------------------- MODULE MCRemoteEngine ---------------------------
(* Two clients; every call on its own over both transports, and the pairs    *)
(* of calls that meet in a namespace or at a query.                          *)
EXTENDS RemoteEngine

MCClient == {"a", "b"}
MCExtraNs == {"ns"}

T == [schema |-> <<"s">>, table |-> <<"x", "y">>]
M == [schema |-> <<"materialized">>, table |-> <<"t">>]

\* Values an engine may answer with; "Future" is a variant that only a newer
\* daemon has.
Texts == {None, Some("d")}
Table(kind, d) == [name |-> T, kind |-> kind, description |-> d]
Source(kind, st, d) == [name |-> "s", kind |-> kind, status |-> st, status_detail |-> d]
Function(kind) ==
    [name |-> "f", kind |-> kind,
     args |-> <<[name |-> "p", default |-> None], [name |-> "q", default |-> Some("dq")],
                [name |-> "r", default |-> Some("dr")]>>]
Model(type, agg, d) ==
    [description |-> d,
     dimensions |-> <<[type |-> type, description |-> d, grains |-> <<"Day", "Year">>]>>,
     measures |-> <<[agg |-> agg, sql |-> IF agg = "Custom" THEN "q" ELSE "", format |-> d,
                     description |-> None]>>,
     relationships |-> <<[kind |-> "OneToMany"]>>,
     segments |-> <<[description |-> None, filters |-> <<[op |-> "IsNull"]>>]>>]

Errors == {Failure(v, "x") : v \in DOMAIN VariantCode} \cup {Failure("Safety", "SAFETY_NO_FILTERS")}

Values(e) ==
    CASE e.op = "list_sources" ->
            {<<>>} \cup {<<Source("Http", "Ok", None), Source(k, st, d)>> :
                            k \in {"Mcp", "Future"}, st \in {"Ok", "Unavailable"}, d \in Texts}
      [] e.op = "list_tables" -> {<<Table(k, d), Table("Delta", None)>> :
                                     k \in {"Http", "Future"}, d \in Texts}
      [] e.op = "describe_table" ->
            {[table |-> Table(k, None), columns |-> <<[name |-> "x", description |-> d], [name |-> "z", description |-> d]>>] :
                k \in {"Sqlite", "Future"}, d \in Texts}
      [] e.op = "list_functions" -> {<<Function("File"), Function("Http")>>, <<Function("Future")>>}
      [] e.op = "describe_function" -> {Function("Mcp"), Function("Future")}
      [] e.op = "refresh_table" -> {[table |-> e.name, rows |-> 2]}
      [] e.op = "materialize" -> {[name |-> M, rows |-> 1]}
      [] e.op \in {"invalidate_cache", "remove_source"} -> BOOLEAN
      [] e.op = "add_source" -> {Source("Http", "Unavailable", d) : d \in Texts}
                                   \cup {Source("Future", "Ok", None)}
      [] e.op = "test_source" -> {[ok |-> d = None, name |-> e.name, detail |-> d] : d \in Texts}
      [] e.op = "list_semantic_models" -> {<<[description |-> d]>> : d \in Texts}
      [] e.op = "describe_semantic_model" ->
            {Model(ty, agg, d) : ty \in {"Time", "Future"}, agg \in {"Avg", "Custom", "Future"},
                                 d \in Texts}
      [] OTHER -> {"v"}

MCEngineAnswers(e) ==
    {Ok(v) : v \in Values(e)}
        \cup {Err(f) : f \in IF e.op = "explain" THEN Errors
                              ELSE {Failure("Timeout", "x"), Failure("Safety", "SAFETY_NO_FILTERS")}}

\* Results: rows of one column, whole or broken off.
Batch(s) == [k |-> "batch", v |-> s]
End == [k |-> "end", v |-> [truncated |-> FALSE]]
I(n) == Cell("int", n)
MCEngineResults ==
    {<<End>>,
     <<Batch(<<I(1), I(2)>>), Batch(<<I(0)>>), End>>,
     <<Batch(<<I(1)>>), Batch(<<>>), Batch(<<Cell("null", 0), I(2)>>), Batch(<<I(1)>>), End>>,
     <<Batch(<<Cell("float", 1), Cell("nan", 2)>>), End>>,
     <<Batch(<<Cell("uint", 1), Cell("uint", 3)>>), End>>,
     <<Batch(<<Cell("bool", 1)>>), [k |-> "err", v |-> Failure("Timeout", "x")]>>,
     <<Batch(<<I(1), I(2)>>),
       [k |-> "err", v |-> Failure("Safety", "SAFETY_TOO_MANY_ROWS")]>>}

MCCachedEntries ==
    <<[name |-> T, mode |-> "Ttl", expires |-> Some(9)],
      [name |-> T, mode |-> "Future", expires |-> Some(9)],
      [name |-> T, mode |-> "Future", expires |-> None]>>

-----------------------------------------------------------------------------
\* Calls.

Sql(max, format) ==
    Call("query", Plain(<<>>), None,
         [sql |-> "q", params |-> "p", max_rows |-> max, timeout |-> Some(1),
          trace_id |-> Some("i"), context |-> "InProcess", format |-> format])
Semantic(limit) ==
    Call("semantic_query", Plain(<<>>), None,
         [limit |-> limit, filters |-> <<[op |-> "NotIn"], [op |-> "Contains"]>>,
          order_by |-> <<[direction |-> "Desc"]>>])
CallOn(op, name) == Call(op, name, None, NoArg)
PlainCall(op, text) == CallOn(op, Plain(text))
Spec1(kind, format) == [kind |-> kind, format |-> format]
Materialize(name, ns) == Call("materialize", Plain(name), ns, Spec1("Query", None))
List(ns) == Call("cache_entries", Plain(<<>>), ns, NoArg)
Refresh(name, ns) == Call("refresh_table", name, ns, NoArg)
Drop(ns) == Call("drop_materialized", Plain(<<"t">>), ns, NoArg)
DropNs(n) == PlainCall("drop_namespace", <<n>>)
CancelPeer == PlainCall("cancel", <<"">>)

Queries ==
    <<Sql(0, None), Sql(1, None), Sql(3, Some("json")), Sql(9, None), Semantic(None),
      Semantic(Some(1))>>
Stateless ==
    <<PlainCall("explain", <<>>), PlainCall("list_sources", <<>>),
      Call("list_tables", Plain(<<>>), None, None),
      Call("list_tables", Plain(<<>>), None, Some([source |-> Some("s"), name_glob |-> None])),
      CallOn("describe_table", T), PlainCall("list_functions", <<>>),
      PlainCall("describe_function", <<"n", "f">>), PlainCall("describe_function", <<"">>),
      Call("schema_snapshot", Plain(<<>>), None, [sources |-> None, compact |-> TRUE]),
      Call("schema_snapshot", Plain(<<>>), None, [sources |-> Some(<<"s", "u">>), compact |-> FALSE]),
      PlainCall("refresh_catalog", <<>>), CallOn("invalidate_cache", T), PlainCall("vacuum_cache", <<>>),
      Refresh(T, None), Refresh(T, Some("ns")),
      PlainCall("add_source", <<>>), PlainCall("remove_source", <<"s">>), PlainCall("remove_source", <<"">>),
      PlainCall("test_source", <<"s">>), PlainCall("reload_config", <<>>),
      PlainCall("list_semantic_models", <<>>), PlainCall("describe_semantic_model", <<"m">>),
      PlainCall("list_metrics", <<>>), PlainCall("describe_metric", <<"k">>),
      PlainCall("health", <<>>), PlainCall("shutdown", <<>>)>>
Stored ==
    <<List(None), List(Some("")), List(Some("ns")), List(Some("b/d")), List(Some("main")),
      Materialize(<<"t">>, None), Materialize(<<"t", "u">>, None), Materialize(<<"t">>, Some("")),
      Call("materialize", Plain(<<"t">>), Some("ns"), Spec1("File", Some("Csv"))),
      Call("materialize", Plain(<<"t">>), Some("ns"), Spec1("Inline", Some("Json"))),
      Refresh(M, Some("ns")), Drop(Some("ns")), DropNs("main"), DropNs("b/d"), DropNs("ns")>>

\* Tool calls of an agent.
ToolSql(sql, max) ==
    Call("query", Plain(<<>>), None, [sql |-> sql, params |-> "none", max_rows |-> max])
ToolSemantic(op, max) ==
    Call("semantic_query", Plain(<<>>), None,
         [limit |-> None, filters |-> <<[op |-> op]>>, order_by |-> <<>>, max_rows |-> max])
Search(query, limit) ==
    Call("search_tables", Plain(<<>>), None, [query |-> query, source |-> None, limit |-> limit])
Columns(table, name, limit) ==
    Call("list_columns", Plain(<<>>), None,
         [table |-> table, source |-> Some("s"), name |-> name, limit |-> limit])
Function1(f, args, max) ==
    Call("call_function", Plain(<<>>), None, [function |-> f, args |-> args, max_rows |-> max])
Schema(sources, compact) ==
    Call("schema_snapshot", Plain(<<>>), None, [sources |-> sources, compact |-> compact])
Fn == Some(<<"n", "f">>)
ToolCalls ==
    <<ToolSql("q", None), ToolSql("q", Some(1)), ToolSql("q", Some(0)), ToolSql("q", Some(9)),
      ToolSql("show", Some(1)), ToolSql("", None), ToolSemantic("In", Some(1)),
      ToolSemantic("Future", None), Search(None, None), Search(Some(<<>>), None),
      Search(Some(<<"x">>), None), Search(Some(<<"d", "s", "s">>), Some(1)),
      Search(Some(<<"d">>), Some(0)), Search(Some(<<"s">>), Some(1)),
      Columns(None, None, None), Columns(None, None, Some(3)), Columns(None, Some("d"), Some(2)),
      Columns(None, Some("x"), Some(1)), Columns(Some(<<"s", "x", "y">>), Some("z"), None),
      Columns(Some(<<"s">>), None, None),
      Function1(Fn, [p |-> "a"], None), Function1(Fn, [p |-> "a", r |-> "b"], Some(1)),
      Function1(Fn, [q |-> "a"], None), Function1(Fn, [u |-> "a"], Some(0)),
      Function1(None, [p |-> "a"], None), Function1(Some(<<"f">>), [p |-> "a"], None),
      Schema(None, TRUE), Schema(Some(<<"s", "u">>), FALSE), PlainCall("no_such_tool", <<>>)>>
Tooled ==
    <<PlainCall("list_sources", <<>>), Call("list_tables", Plain(<<>>), None, None),
      Call("list_tables", Plain(<<>>), None, Some([source |-> Some("s"), name_glob |-> None])),
      CallOn("describe_table", T), PlainCall("describe_table", <<"s">>), PlainCall("list_functions", <<>>),
      PlainCall("describe_function", <<"n", "f">>), PlainCall("describe_function", <<"n", "">>),
      PlainCall("describe_function", <<>>), Refresh(T, None), Refresh(T, Some("ns")),
      PlainCall("list_semantic_models", <<>>), PlainCall("describe_semantic_model", <<"m">>),
      PlainCall("describe_semantic_model", <<>>), PlainCall("list_metrics", <<>>),
      PlainCall("describe_metric", <<"k">>), PlainCall("describe_metric", <<>>),
      Materialize(<<"t">>, None), Materialize(<<>>, None), Materialize(<<"t", "u">>, Some("")),
      Call("materialize", Plain(<<"t">>), Some("ns"), Spec1("File", Some("Csv"))),
      Call("materialize", Plain(<<"t">>), Some("b/d"), Spec1("Url", Some("Json"))),
      Call("materialize", Plain(<<"t">>), None, Spec1("Inline", Some("Json"))),
      Refresh(M, Some("ns")), Drop(Some("ns")), Drop(None), DropNs("main"), DropNs("ns"),
      PlainCall("drop_namespace", <<>>)>>

Singles == Queries \o Stateless \o Stored

-----------------------------------------------------------------------------
\* Scenarios.

World(daemon, expects, faults, wa, ta, a, wb, b) ==
    [daemon |-> daemon, expects |-> expects, faults |-> faults,
     clients |-> [c \in MCClient |-> IF c = "a" THEN [wire |-> wa, token |-> ta, calls |-> a]
                                     ELSE [wire |-> wb, token |-> Some("k"), calls |-> b]]]
Alone(wire, call) == World("same", Some("k"), TRUE, wire, Some("k"), <<call>>, "rest", <<>>)
Refused(wire, call) == World("same", Some("k"), FALSE, wire, Some("z"), <<call>>, "rest", <<>>)
BeforeNs(wire, call) == World("old", None, FALSE, wire, None, <<call>>, "rest", <<>>)
Both(faults, wa, a, wb, b) == World("same", None, faults, wa, None, a, wb, b)

ForAll(s, F(_, _)) == MapAll(s, LAMBDA x : F("grpc", x)) \o MapAll(s, LAMBDA x : F("rest", x))

In == Some("ns")
Put(t) == Materialize(<<t>>, In)
MCScenarios ==
    ForAll(Singles, Alone)
    \o ForAll(<<PlainCall("health", <<>>), Sql(0, None)>>, Refused)
    \o ForAll(Stored, BeforeNs)
    \o MapAll(<<Sql(0, Some("ndjson")), Sql(1, Some("ndjson")), Sql(3, Some("ndjson")),
                Sql(0, Some("xml"))>>, LAMBDA q : Alone("rest", q))
    \o MapAll(ToolCalls \o Tooled, LAMBDA q : Alone("mcp", q))
    \o MapAll(<<ToolSql("q", None), DropNs("ns")>>, LAMBDA q : Refused("mcp", q))
    \o <<Both(TRUE, "grpc", <<Put("t"), List(In)>>, "grpc", <<Put("u"), Drop(In)>>),
         Both(TRUE, "grpc", <<Put("t")>>, "rest", <<DropNs("ns"), Put("u"), List(In)>>),
         Both(TRUE, "rest", <<Put("t"), Refresh(M, In)>>, "grpc", <<Drop(In), List(In)>>),
         Both(FALSE, "rest", <<Put("t"), DropNs("ns")>>, "grpc", <<Put("u"), DropNs("ns")>>),
         Both(TRUE, "grpc", <<Sql(0, None)>>, "grpc", <<CancelPeer, CancelPeer>>),
         Both(TRUE, "grpc", <<Semantic(None)>>, "rest", <<CancelPeer>>),
         Both(TRUE, "mcp", <<Put("t"), Drop(In)>>, "grpc", <<Put("u"), DropNs("ns")>>),
         Both(FALSE, "rest", <<Sql(0, None)>>, "rest", <<CancelPeer>>),
         Both(FALSE, "rest", <<Sql(0, None)>>, "grpc", <<CancelPeer>>)>>

=============================================================================
