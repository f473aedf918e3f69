------------------------------ MODULE WireCalls ------------------------------
(***************************************************************************)
(* The EngineService calls as they cross the wire.  For each transport: the *)
(* request a client method builds, the engine call a handler makes of it,   *)
(* the response it builds from the engine's value, and the answer the       *)
(* client method gives its caller.  A call is [op, name, ns, arg]; a request *)
(* keeps that shape with its fields encoded, and a response carries the     *)
(* encoded value and the namespace it echoes.                               *)
(***************************************************************************)
EXTENDS WireCodec

CONSTANTS DefaultLimit,   \* rows of a REST answer when the request names none
          MaxLimit        \* and the most a request may ask for

ASSUME LimitAssumption == DefaultLimit \in Nat /\ MaxLimit \in Nat /\ DefaultLimit <= MaxLimit

Call(op, name, ns, arg) == [op |-> op, name |-> name, ns |-> ns, arg |-> arg]

\* A name that is not a TableName is one with no schema.
Plain(text) == [schema |-> <<>>, table |-> text]

QueryOps == {"query", "explain", "cancel"}
CatalogOps == {"list_sources", "list_tables", "describe_table", "list_functions",
               "describe_function", "schema_snapshot", "refresh_catalog"}
CacheOps == {"cache_entries", "refresh_table", "invalidate_cache", "vacuum_cache",
             "materialize", "drop_materialized", "drop_namespace"}
SourceOps == {"add_source", "remove_source", "test_source", "reload_config"}
SemanticOps == {"list_semantic_models", "describe_semantic_model", "list_metrics",
                "describe_metric", "semantic_query"}
StreamOps == {"query", "semantic_query"}

\* The calls whose name is a TableName, and those whose answer echoes the
\* namespace of the request.
TableOps == {"describe_table", "refresh_table", "invalidate_cache"}
NamespacedOps == {"cache_entries", "refresh_table", "materialize",
                  "drop_materialized", "drop_namespace"}

\* drop_namespace always names the namespace it means.
Requested(c) == IF c.op = "drop_namespace" THEN Some(c.name.table[1]) ELSE c.ns

IgnoredNamespace == Err(Failure("Protocol", "ignored namespace"))

-----------------------------------------------------------------------------
\* gRPC: the client's requests.

GrpcQueryRequest(c) ==
    IF c.op = "query" THEN [c EXCEPT !.arg = QueryRequestToProto(@)] ELSE c

\* An absent filter is a request with neither field; an absent list of
\* sources is an empty one.
GrpcCatalogRequest(c) ==
    CASE c.op = "list_tables" ->
            [c EXCEPT !.arg = IF @ = None THEN [source |-> None, name_glob |-> None] ELSE @[1]]
      [] c.op = "describe_table" -> [c EXCEPT !.name = Some(@)]
      [] c.op = "schema_snapshot" ->
            [c EXCEPT !.arg.sources = IF @ = None THEN <<>> ELSE @[1]]
      [] OTHER -> c

GrpcCacheRequest(c) ==
    LET r == [c EXCEPT !.ns = UnwrapOrDefault(Requested(c))]
    IN  CASE c.op \in TableOps -> [r EXCEPT !.name = Some(@)]
          [] c.op = "materialize" -> [r EXCEPT !.arg = Some(MaterializeSpecToProto(@))]
          [] OTHER -> r

GrpcSemanticRequest(c) ==
    IF c.op = "semantic_query" THEN [c EXCEPT !.arg = SemanticQueryToProto(@)] ELSE c

GrpcRequest(c) ==
    CASE c.op \in QueryOps -> GrpcQueryRequest(c)
      [] c.op \in CatalogOps -> GrpcCatalogRequest(c)
      [] c.op \in CacheOps -> GrpcCacheRequest(c)
      [] c.op \in SemanticOps -> GrpcSemanticRequest(c)
      [] OTHER -> c

-----------------------------------------------------------------------------
\* gRPC: the engine call a service makes of a request, or the status with
\* which it refuses.

QuerySvcCall(r) ==
    Ok(IF r.op = "query"
       THEN [r EXCEPT !.arg = [QueryRequestFromProto(@) EXCEPT !.context = "Grpc"]]
       ELSE r)

\* The name of a TableName message, or a refusal.
Named(r) ==
    IF r.name = None THEN Err(Status("InvalidArgument", "name is required"))
    ELSE Ok([r EXCEPT !.name = @[1]])

CatalogSvcCall(r) ==
    CASE r.op = "list_tables" ->
            Ok([r EXCEPT !.arg = IF @.source # None \/ @.name_glob # None THEN Some(@)
                                 ELSE None])
      [] r.op = "describe_table" -> Named(r)
      [] r.op = "schema_snapshot" ->
            Ok([r EXCEPT !.arg.sources = IF @ = <<>> THEN None ELSE Some(@)])
      [] OTHER -> Ok(r)

CacheSvcCall(r) ==
    LET c == [r EXCEPT !.ns = IF r.op = "drop_namespace" THEN None ELSE NoneIfEmpty(@)]
    IN  CASE r.op \in TableOps -> Named(c)
          [] r.op = "materialize" ->
                IF r.arg = None THEN Err(Status("InvalidArgument", "spec is required"))
                ELSE AndThen(MaterializeSpecFromProto(r.arg[1]),
                             LAMBDA spec : Ok([c EXCEPT !.arg = spec]))
          [] OTHER -> Ok(c)

SemanticSvcCall(r) ==
    Ok(IF r.op = "semantic_query" THEN [r EXCEPT !.arg = SemanticQueryFromProto(@)] ELSE r)

GrpcCall(r) ==
    CASE r.op \in QueryOps -> QuerySvcCall(r)
      [] r.op \in CatalogOps -> CatalogSvcCall(r)
      [] r.op \in CacheOps -> CacheSvcCall(r)
      [] r.op \in SemanticOps -> SemanticSvcCall(r)
      [] OTHER -> Ok(r)

-----------------------------------------------------------------------------
\* gRPC: the response to the engine's value v, and the client's reading of it.

CatalogSvcReply(r, v) ==
    CASE r.op = "list_sources" -> MapAll(v, SourceInfoToProto)
      [] r.op = "list_tables" -> MapAll(v, TableInfoToProto)
      [] r.op = "describe_table" ->
            [v EXCEPT !.table = Some(TableInfoToProto(@)), !.columns = MapAll(@, ColumnToProto)]
      [] r.op = "list_functions" -> MapAll(v, FunctionToProto)
      [] r.op = "describe_function" -> Some(FunctionToProto(v))
      [] OTHER -> v

CacheSvcReply(r, v) == IF r.op = "cache_entries" THEN MapAll(v, EntryToProto) ELSE v

SourcesSvcReply(r, v) ==
    CASE r.op = "add_source" -> Some(SourceInfoToProto(v))
      [] r.op = "test_source" -> [v EXCEPT !.detail = UnwrapOrDefault(@)]
      [] OTHER -> v

SemanticSvcReply(r, v) ==
    CASE r.op = "list_semantic_models" -> MapAll(v, ModelInfoToProto)
      [] r.op = "describe_semantic_model" -> Some(ModelToProto(v))
      [] OTHER -> v

\* Only the cache service echoes a namespace.
GrpcReply(r, v) ==
    [v |-> CASE r.op \in CatalogOps -> CatalogSvcReply(r, v)
             [] r.op \in CacheOps -> CacheSvcReply(r, v)
             [] r.op \in SourceOps -> SourcesSvcReply(r, v)
             [] r.op \in SemanticOps -> SemanticSvcReply(r, v)
             [] OTHER -> v,
     ns |-> IF r.op \in CacheOps THEN r.ns ELSE ""]

\* Mutant: the echo is not looked at.
RequireNamespaceEcho_Trusted(requested, echoed, answer) == answer

RequireNamespaceEcho(requested, echoed, answer) ==
    IF requested # None /\ requested[1] # "" /\ requested[1] # echoed
    THEN IgnoredNamespace ELSE answer

\* A message that the response leaves out.
Missing(field) == Err(Failure("Protocol", field))
Present(o, field) == IF o = None THEN Missing(field) ELSE Ok(o[1])

GrpcCatalogAnswer(c, v) ==
    CASE c.op = "list_sources" -> TryAll(v, SourceInfoFromProto)
      [] c.op = "list_tables" -> TryAll(v, TableInfoFromProto)
      [] c.op = "describe_table" ->
            AndThen(AndThen(Present(v.table, "table"), TableInfoFromProto),
                    LAMBDA table : Ok([v EXCEPT !.table = table,
                                                !.columns = MapAll(@, ColumnFromProto)]))
      [] c.op = "list_functions" -> Ok(MapAll(v, FunctionFromProto))
      [] c.op = "describe_function" ->
            AndThen(Present(v, "function"), LAMBDA f : Ok(FunctionFromProto(f)))
      [] OTHER -> Ok(v)

GrpcCacheAnswer(c, v, echoed) ==
    RequireNamespaceEcho(IF c.op \in NamespacedOps THEN Requested(c) ELSE None, echoed,
                         Ok(CASE c.op = "cache_entries" -> EntriesFromProto(v)
                              [] c.op = "refresh_table" -> [v EXCEPT !.table = c.name]
                              [] OTHER -> v))

GrpcSourcesAnswer(c, v) ==
    CASE c.op = "add_source" -> AndThen(Present(v, "source"), SourceInfoFromProto)
      [] c.op = "test_source" -> Ok([v EXCEPT !.name = c.name, !.detail = NoneIfEmpty(@)])
      [] OTHER -> Ok(v)

GrpcSemanticAnswer(c, v) ==
    CASE c.op = "list_semantic_models" -> Ok(MapAll(v, ModelInfoFromProto))
      [] c.op = "describe_semantic_model" -> AndThen(Present(v, "model"), ModelFromProto)
      [] OTHER -> Ok(v)

GrpcAnswer(c, resp) ==
    CASE c.op \in CatalogOps -> GrpcCatalogAnswer(c, resp.v)
      [] c.op \in CacheOps -> GrpcCacheAnswer(c, resp.v, resp.ns)
      [] c.op \in SourceOps -> GrpcSourcesAnswer(c, resp.v)
      [] c.op \in SemanticOps -> GrpcSemanticAnswer(c, resp.v)
      [] OTHER -> Ok(resp.v)

-----------------------------------------------------------------------------
\* gRPC: the frames of a result stream.

Frame(k, v) == [k |-> k, v |-> v]
ErrorFrame(e) == Frame("error", <<[code |-> Code(e), message |-> Display(e)]>>)

\* Mutant: the loop leaves at an error and falls through to the completion.
QueryFrame_FallsThrough(item, sent) ==
    IF item.k = "batch" THEN Frame("batch", item.v)
    ELSE Frame("completed", <<[rows |-> sent, truncated |-> FALSE]>>)

\* One turn of the handler's loop over the engine's stream: the next frame.
\* An error is the last frame; the end of the stream is reported with the
\* rows that were sent.
QueryFrame(item, sent) ==
    CASE item.k = "batch" -> Frame("batch", item.v)
      [] item.k = "err" -> ErrorFrame(item.v)
      [] item.k = "end" ->
            Frame("completed", <<[rows |-> sent, truncated |-> item.v.truncated]>>)

\* The semantic service repeats the loop for its own stream.
SemanticQueryFrame(item, sent) == QueryFrame(item, sent)

SvcFrame(op, item, sent) ==
    IF op = "query" THEN QueryFrame(item, sent) ELSE SemanticQueryFrame(item, sent)

\* The id of a query, from the first frame of its stream.
ReadStartedId(frame) ==
    CASE frame.k = "started" -> Ok(frame.v[1].id)
      [] frame.k = "error" -> Err(FromWire(frame.v[1].code, frame.v[1].message))
      [] frame.k = "lost" -> Err(StatusToEngineError(frame.v[1]))
      [] frame.k = "end" -> Ok("")
      [] OTHER -> Err(Failure("Protocol", "expected a Started frame first"))

\* What the caller's stream yields for each later frame: rows, an error that
\* ends it, or nothing; a completion fills the handle's slot.
StreamItem(frame) ==
    [rows |-> IF frame.k = "batch" THEN frame.v ELSE <<>>,
     error |-> CASE frame.k = "error" -> Some(FromWire(frame.v[1].code, frame.v[1].message))
                 [] frame.k = "lost" -> Some(StatusToEngineError(frame.v[1]))
                 [] OTHER -> None,
     completion |-> IF frame.k = "completed" THEN frame.v ELSE None]

-----------------------------------------------------------------------------
\* REST: the client's requests.  name is the text of the path's parameters.

RestQueryRequest(c) ==
    CASE c.op = "query" ->
            [c EXCEPT !.arg = [sql |-> @.sql, params |-> @.params,
                               limit |-> IF @.max_rows > 0 THEN Some(@.max_rows) ELSE None,
                               format |-> @.format]]
      [] OTHER -> c

RestCatalogRequest(c) ==
    CASE c.op = "list_tables" ->
            [c EXCEPT !.arg = IF @ = None THEN [source |-> None, name_glob |-> None] ELSE @[1]]
      [] OTHER -> c

\* A name becomes part of the path, as its text.
InPath(r) == [r EXCEPT !.name = TableDisplay(@)]
RestRequest(c) ==
    InPath(CASE c.op \in QueryOps -> RestQueryRequest(c)
             [] c.op \in CatalogOps -> RestCatalogRequest(c)
             [] OTHER -> c)

\* The path of a request whose parameter is empty matches no route, and the
\* console's fallback answers with something that is not JSON.
PathOps == TableOps \cup {"describe_function", "cancel", "materialize", "drop_materialized",
                          "drop_namespace", "remove_source", "test_source",
                          "describe_semantic_model", "describe_metric"}
Routed(r) == r.op \in PathOps => r.name # <<>> /\ r.name # <<"">>
Unrouted == [status |-> 404, body |-> <<>>]

-----------------------------------------------------------------------------
\* REST: the handlers.

Clamp(limit) ==
    IF limit = None THEN DefaultLimit
    ELSE IF limit[1] < 1 THEN 1
    ELSE IF limit[1] > MaxLimit THEN MaxLimit ELSE limit[1]

\* The engine is asked for one row more than the answer may hold.
RestSqlCall(r) ==
    Ok([r EXCEPT !.name = Plain(@), !.arg = [sql |-> @.sql, params |-> @.params,
                          max_rows |-> Clamp(@.limit) + 1, timeout |-> None,
                          trace_id |-> None, context |-> "InProcess", format |-> None]])

RestCatalogCall(r) ==
    CASE r.op = "list_tables" ->
            Ok([r EXCEPT !.arg = IF @.source # None \/ @.name_glob # None THEN Some(@)
                                 ELSE None])
      [] r.op = "schema_snapshot" ->
            Ok([r EXCEPT !.arg.sources =
                    IF @ = None THEN None
                    ELSE Some(SelectSeq(@[1], LAMBDA s : s # ""))])
      [] OTHER -> Ok(r)

\* A path that must name a table as schema.table.
RestTableCall(r) ==
    LET table == TableParse(r.name)
    IN  IF table = None
        THEN Err(ErrorResponse(400, "INVALID_SQL", Message("expected schema.table")))
        ELSE Ok([r EXCEPT !.name = table[1]])

NamespaceParam(r) == IF r.ns = Some("") THEN None ELSE r.ns

RestCall(r) ==
    AndThen(CASE r.op = "query" -> RestSqlCall(r)
              [] r.op \in TableOps -> RestTableCall(r)
              [] r.op \in CatalogOps -> RestCatalogCall([r EXCEPT !.name = Plain(@)])
              [] OTHER -> Ok([r EXCEPT !.name = Plain(@)]),
            LAMBDA c : Ok([c EXCEPT !.ns = NamespaceParam(r)]))

\* The echo is there only when a namespace was asked for.
WithNamespaceEcho(v, r) ==
    HttpOk([v |-> v, ns |-> IF r.op = "drop_namespace" THEN Some(r.name[1])
                            ELSE IF r.op \in NamespacedOps THEN NamespaceParam(r)
                            ELSE None])

\* drop_materialized and remove_source answer 404 where the engine says false.
UnknownCode == [drop_materialized |-> "UNKNOWN_MATERIALIZED", remove_source |-> "UNKNOWN_SOURCE"]
RestReply(r, v) ==
    IF r.op \in DOMAIN UnknownCode /\ ~v
    THEN ErrorResponse(404, UnknownCode[r.op], Message("no such name"))
    ELSE WithNamespaceEcho(v, r)

\* The batches of a result.
RowsOf(items) == MapAll(SelectSeq(items, LAMBDA i : i.k = "batch"), LAMBDA i : i.v)

\* The result of a query, buffered: an error anywhere in it is the answer.
BufferedResponse(items, limit, format) ==
    IF format \notin {None, Some("json"), Some("csv")}
    THEN ErrorResponse(400, "BAD_FORMAT", Message("unknown format"))
    ELSE IF \E i \in DOMAIN items : items[i].k = "err"
    THEN EngineErrorResponse(Last(items).v)
    ELSE HttpOk([v |-> FormatBatches(RowsOf(items), limit), ns |-> None])

\* Mutant: the loop goes on when the engine's stream has ended.
NdjsonLine_NoEnd(item, remaining) ==
    CASE item.k = "batch" -> Frame("batch", FormatBatches(<<item.v>>, remaining).rows)
      [] item.k = "err" -> Frame("broken", <<>>)
      [] item.k = "end" -> Frame("batch", <<>>)

\* One turn of the NDJSON body: the lines of a batch, cut at what is left of
\* the limit; an error breaks the body off.
NdjsonLine(item, remaining) ==
    CASE item.k = "batch" -> Frame("batch", FormatBatches(<<item.v>>, remaining).rows)
      [] item.k = "err" -> Frame("broken", <<>>)
      [] item.k = "end" -> Frame("end", <<>>)

-----------------------------------------------------------------------------
\* REST: the client's reading of a response.

\* serde refuses a variant it does not know.
Knows(op, v) ==
    CASE op = "list_sources" -> \A i \in DOMAIN v : v[i].kind \in DOMAIN SourceKindWire
      [] op = "list_tables" -> \A i \in DOMAIN v : v[i].kind \in DOMAIN SourceKindWire
      [] op = "describe_table" -> v.table.kind \in DOMAIN SourceKindWire
      [] op = "cache_entries" -> \A i \in DOMAIN v : v[i].mode \in DOMAIN CacheModeWire
      [] op = "add_source" -> v.kind \in DOMAIN SourceKindWire
      [] op = "list_functions" -> \A i \in DOMAIN v : v[i].kind \in DOMAIN FunctionKindLabel
      [] op = "describe_function" -> v.kind \in DOMAIN FunctionKindLabel
      [] op = "describe_semantic_model" ->
            /\ \A i \in DOMAIN v.dimensions : v.dimensions[i].type \in DOMAIN DimensionTypeWire
            /\ \A i \in DOMAIN v.measures : v.measures[i].agg \in DOMAIN AggLabel
      [] OTHER -> TRUE

Whole(op, v) == IF Knows(op, v) THEN Ok(v) ELSE Err(Failure("Protocol", "rest decode"))

\* send: a body that is not JSON, an error envelope, or the body.
RestSend(resp) ==
    IF resp.body = <<>> THEN Err(Failure("Protocol", "rest decode"))
    ELSE IF resp.status = 200 THEN Ok(resp.body)
    ELSE Err(RestError(resp.body))

RestNamespaceEcho(requested, echoed, answer) ==
    IF requested # None /\ requested[1] # "" /\ echoed # requested
    THEN IgnoredNamespace ELSE answer

RestAnswer(c, resp) ==
    AndThen(RestSend(resp),
            LAMBDA body :
                RestNamespaceEcho(IF c.op \in NamespacedOps THEN Requested(c) ELSE None,
                                  body.ns, Whole(c.op, body.v)))

\* The handle of a buffered result: one batch, and the completion beside it.
JsonToHandle(v) ==
    AndThen(JsonRowsToBatch(v.columns, v.rows),
            LAMBDA batch :
                Ok([rows |-> batch,
                    completion |-> Some([rows |-> Len(v.rows), truncated |-> v.truncated])]))

=============================================================================
