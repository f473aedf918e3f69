----------------------------- MODULE RemoteEngine -----------------------------
(***************************************************************************)
(* Clients of a daemon, over gRPC or REST, call its engine as if it were    *)
(* theirs; agents call it through the tools of an MCP server.  A call is    *)
(* encoded, sent, authenticated, decoded, answered by the engine, encoded   *)
(* and read back; a query's result travels frame by frame.  Connections     *)
(* break.  The engine behind the services is abstract but for its           *)
(* materialize namespaces (NamespaceRegistry), where the calls of two       *)
(* clients meet, and for its running queries.                               *)
(***************************************************************************)
EXTENDS McpTools, NamespaceRegistry

CONSTANTS Client,
          Scenarios,          \* a sequence of worlds; see Init
          EngineAnswers(_),   \* the results the engine may give to a call
          EngineResults,      \* what a query's stream may yield
          CachedEntries,      \* the cached source tables of the default namespace
          Window              \* frames that fit between a server and a client

ASSUME WindowAssumption == Window \in Nat \ {0}

\* Clients have names; a result is some batches of rows, then an error or the
\* end, after which a handler polls no more.
IsVec(s) == Len(s) \in Nat /\ s = [i \in 1..Len(s) |-> s[i]]
IsItems(items) ==
    IsVec(items) /\ \A i \in DOMAIN items : items[i].k = "batch" => IsVec(items[i].v)
IsResult(items) ==
    /\ IsItems(items) /\ items # <<>>
    /\ \A i \in DOMAIN items : IF i < Len(items) THEN items[i].k = "batch"
                                ELSE items[i].k \in {"err", "end"}
ASSUME ResultsAssumption == "" \notin Client /\ \A items \in EngineResults : IsResult(items)

VARIABLES setup,   \* the daemon and its clients
          conn,    \* each client's current call
          store,   \* the engine's namespaces
          kept     \* ghost: tables that no drop has touched since they were made

vars == <<setup, conn, store, kept>>

AllNs == ExtraNs \cup {DefaultNs}

\* A client's call.  made is the engine call that was made for it and answer
\* what the engine said; seen is what it said to the calls of a tool and
\* targets the tables the tool goes through; result is what the engine's stream has yielded and will yet yield (feed),
\* and whole, a ghost, what it would yield without the LIMIT of a tool;
\* dropped, a ghost, is set when a drop meets the call.
NoConn ==
    [at |-> "idle", next |-> 1, call |-> None, made |-> None, answer |-> None,
     resp |-> None, mgr |-> 0, id |-> "", result |-> <<>>, feed |-> <<>>, frames |-> <<>>,
     sent |-> 0, rows |-> <<>>, completion |-> None, told |-> None, lost |-> FALSE,
     dropped |-> FALSE, targets |-> None, seen |-> <<>>, whole |-> <<>>]

Init ==
    /\ \E i \in DOMAIN Scenarios : setup = Scenarios[i]
    /\ conn = [c \in Client |-> NoConn]
    /\ store = InitStore
    /\ kept = [n \in AllNs |-> {}]

Grpc(c) == setup.clients[c].wire = "grpc"
Mcp(c) == setup.clients[c].wire = "mcp"
Old == setup.daemon = "old"
Peer(c) == CHOOSE d \in Client : d # c

Set(c, r) == conn' = [conn EXCEPT ![c] = r]
Told(r, answer) == [r EXCEPT !.at = "told", !.told = Some(answer)]

-----------------------------------------------------------------------------
\* The client's side of a call.

\* A query is cancelled by the id its stream began with.
Resolved(c, call) ==
    IF call.op = "cancel" THEN [call EXCEPT !.name = Plain(<<conn[Peer(c)].id>>)] ELSE call
CanResolve(c, call) ==
    call.op = "cancel" => conn[Peer(c)].id # "" \/ conn[Peer(c)].at = "told"

\* shutdown does not leave the client.
Shutdown(c) == IF Grpc(c) THEN Ok(None) ELSE Err(Failure("Unsupported", "shutdown"))

Send(c) ==
    /\ conn[c].at \in {"idle", "told"}
    /\ conn[c].next \in DOMAIN setup.clients[c].calls
    /\ \E call \in {setup.clients[c].calls[conn[c].next]} :
          /\ CanResolve(c, call)
          /\ \E r \in {[NoConn EXCEPT !.at = "sent", !.next = conn[c].next + 1,
                                      !.call = Some(Resolved(c, call))]} :
                Set(c, IF call.op = "shutdown" THEN Told(r, Shutdown(c)) ELSE r)
    /\ UNCHANGED <<setup, store, kept>>

\* An agent's arguments for a tool, after its inputSchema; it leaves out what
\* it has no value for.
AgentArgs(c) ==
    LET name == IF c.name.table = <<>> THEN None ELSE Some(TableDisplay(c.name))
        origin(kind) == IF c.arg.kind = kind THEN Some("text") ELSE None
    IN  CASE c.op = "list_tables" -> [source |-> IF c.arg = None THEN None ELSE c.arg[1].source]
          [] c.op = "describe_table" -> [table |-> name]
          [] c.op = "refresh_table" -> [table |-> name, namespace |-> c.ns]
          [] c.op = "describe_function" -> [function |-> name]
          [] c.op \in {"describe_metric", "describe_semantic_model"} -> [name |-> name]
          [] c.op = "drop_materialized" -> [name |-> name, namespace |-> c.ns]
          [] c.op = "drop_namespace" -> [namespace |-> name]
          [] c.op = "materialize" ->
                [name |-> name, namespace |-> c.ns, sql |-> origin("Query"), file |-> origin("File"),
                 url |-> origin("Url"),
                 format |-> MapAll(c.arg.format, LAMBDA f : CHOOSE x \in DOMAIN FormatOfText :
                                                               FormatOfText[x] = f)]
          [] c.op = "query" -> [sql |-> NoneIfEmpty(c.arg.sql), max_rows |-> c.arg.max_rows]
          [] c.op = "schema_snapshot" ->
                [sources |-> c.arg.sources, compact |-> IF c.arg.compact THEN None ELSE Some(FALSE)]
          [] OTHER -> c.arg
AgentRequest(c) ==
    [tool |-> IF c.op = "schema_snapshot" THEN "get_schema" ELSE c.op, args |-> AgentArgs(c)]

\* The request as the daemon sees it; an old one knows no namespaces.
Request(c) ==
    LET r == IF Grpc(c) THEN GrpcRequest(conn[c].call[1])
             ELSE IF Mcp(c) THEN AgentRequest(conn[c].call[1]) ELSE RestRequest(conn[c].call[1])
    IN  IF Old THEN [r EXCEPT !.ns = IF Grpc(c) THEN "" ELSE None] ELSE r

\* What the caller gets for a response.
GrpcRead(call, resp) ==
    IF resp.ok THEN GrpcAnswer(call, resp.v) ELSE Err(StatusToEngineError(resp.e))
RestRead(call, resp) ==
    IF call.op \in StreamOps
    THEN AndThen(RestSend(resp), LAMBDA body : JsonToHandle(body.v))
    ELSE RestAnswer(call, resp)

Receive(c) ==
    /\ conn[c].at = "answered"
    /\ Set(c, Told(conn[c], IF Grpc(c) THEN GrpcRead(conn[c].call[1], conn[c].resp[1])
                            ELSE IF Mcp(c) THEN conn[c].resp[1]
                            ELSE RestRead(conn[c].call[1], conn[c].resp[1])))
    /\ UNCHANGED <<setup, store, kept>>

\* The next frame of a gRPC stream: first the query's id, then rows, the
\* completion, an error or the end.
Advanced(r, frame, item) ==
    IF item.error # None THEN Told(r, Err(item.error[1]))
    ELSE IF frame.k = "end" THEN Told(r, Ok([rows |-> r.rows, completion |-> r.completion]))
    ELSE [r EXCEPT !.rows = @ \o item.rows,
                   !.completion = IF @ = None THEN item.completion ELSE @]
Opened(r, started) ==
    IF started.ok THEN [r EXCEPT !.id = started.v] ELSE Told(r, Err(started.e))

\* The next chunk of an NDJSON body, as whoever asked for it reads it.
Chunk(r, frame) ==
    CASE frame.k = "batch" -> [r EXCEPT !.rows = @ \o frame.v]
      [] frame.k \in {"broken", "lost"} -> Told(r, Err(Failure("Protocol", "body")))
      [] OTHER -> Told(r, Ok([rows |-> r.rows, completion |-> None]))

Pull(c) ==
    /\ conn[c].at = "streaming"
    /\ conn[c].frames # <<>>
    /\ \E frame \in {Head(conn[c].frames)} :
       \E r \in {[conn[c] EXCEPT !.frames = Tail(@)]} :
          Set(c, IF ~Grpc(c) THEN Chunk(r, frame)
                 ELSE IF r.id = "" THEN Opened(r, ReadStartedId(frame))
                 ELSE Advanced(r, frame, StreamItem(frame)))
    /\ UNCHANGED <<setup, store, kept>>

-----------------------------------------------------------------------------
\* The daemon's side: authentication and decoding.

\* The token that a client attaches to each of its requests, if it has one;
\* without a configured token the daemon lets every request pass.
Bearer(c) == setup.clients[c].token
Authorized(c) == setup.expects = None \/ Bearer(c) = setup.expects

GrpcAdmit(c, req) ==
    IF ~Authorized(c) THEN Err(Status("Unauthenticated", "missing or invalid bearer token"))
    ELSE IF Old /\ req.op = "drop_namespace" THEN Err(Status("Unimplemented", ""))
    ELSE GrpcCall(req)

RestAdmit(c, req) ==
    IF ~Routed(req) \/ (Old /\ req.op = "drop_namespace") THEN Err(Unrouted)
    ELSE IF ~Authorized(c)
    THEN Err(ErrorResponse(401, "UNAUTHORIZED", Message("missing or invalid bearer token")))
    ELSE RestCall(req)

McpAdmit(c, req) ==
    IF ~Authorized(c) THEN Err(RpcError("Unauthorized", "bearer token")) ELSE FirstCall(req)

Arrive(c) ==
    /\ conn[c].at = "sent"
    /\ \E req \in {Request(c)} :
       \E a \in {CASE Grpc(c) -> GrpcAdmit(c, req)
                   [] Mcp(c) -> McpAdmit(c, req)
                   [] OTHER -> RestAdmit(c, req)} :
          Set(c, IF a.ok THEN [conn[c] EXCEPT !.at = "open", !.made = Some(a.v)]
                 ELSE [conn[c] EXCEPT !.at = "answered",
                                      !.resp = Some(IF Grpc(c) \/ Mcp(c) THEN Err(a.e) ELSE a.e)])
    /\ UNCHANGED <<setup, store, kept>>

\* The engine's result becomes the response.
Respond(c, req, a) ==
    CASE Grpc(c) /\ a.ok -> Ok(GrpcReply(req, a.v))
      [] Grpc(c) /\ ~a.ok -> Err(EngineErrorToStatus(a.e))
      [] Mcp(c) -> ToolResponse(a)
      [] ~Grpc(c) /\ ~Mcp(c) /\ a.ok -> RestReply(req, a.v)
      [] OTHER -> EngineErrorResponse(a.e)

\* A tool goes on to its next engine call, or answers.  The first answer to
\* list_columns may be its list of tables.
ToolGoesOn(r, req, targets, seen) ==
    LET next == NextCall(req, targets, seen)
        on == [r EXCEPT !.targets = Some(targets), !.seen = seen]
    IN  CASE ~next.ok -> [on EXCEPT !.at = "answered", !.resp = Some(next)]
          [] next.ok /\ next.v # None ->
                [on EXCEPT !.at = "open", !.made = next.v, !.answer = None]
          [] OTHER -> [on EXCEPT !.at = "answered",
                                 !.resp = Some(ToolResponse(Ok(Payload(req, targets, seen))))]
ToolAnswered(r, req, v) ==
    LET targets == IF r.targets = None THEN TargetsOf(req, r.made[1], v) ELSE r.targets[1]
        listing == req.tool = "list_columns" /\ r.made[1].op = "list_tables"
    IN  ToolGoesOn(r, req, targets, IF listing THEN <<>> ELSE Append(r.seen, v))
Answered(c, r, a) ==
    IF Mcp(c) /\ a.ok THEN ToolAnswered([r EXCEPT !.answer = Some(a)], Request(c), a.v)
    ELSE [r EXCEPT !.at = "answered", !.answer = Some(a), !.resp = Some(Respond(c, Request(c), a))]

-----------------------------------------------------------------------------
\* The engine.

\* The engine call that is made for c.
E(c) == conn[c].made[1]
TableOf(e) == e.name.table[1]
IsMaterialized(e) == e.op = "refresh_table" /\ e.name.schema = <<"materialized">>
UsesStore(e) == e.op \in {"cache_entries", "materialize", "drop_materialized"} \/ IsMaterialized(e)

\* A call that the model leaves to the engine.
Serve(c) ==
    /\ conn[c].at = "open"
    /\ E(c).op \notin StreamOps \cup {"cancel", "drop_namespace"}
    /\ ~UsesStore(E(c))
    /\ \E a \in IF E(c).op = "refresh_table" /\ E(c).ns # None
                THEN {Internal("only materialized tables live in a namespace")}
                ELSE EngineAnswers(E(c)) :
          Set(c, Answered(c, conn[c], a))
    /\ UNCHANGED <<setup, store, kept>>

\* A running query takes the id of its client.
Live(d, id) == d = id /\ conn[d].at \in {"streaming", "collecting"} /\ conn[d].feed # <<>>
Cancelled == [k |-> "err", v |-> Failure("Cancelled", "")]
Stopped(r) ==
    [r EXCEPT !.feed = <<Cancelled>>,
              !.result = Append(SubSeq(@, 1, Len(@) - Len(r.feed)), Cancelled)]
Cancel(c) ==
    /\ conn[c].at = "open"
    /\ E(c).op = "cancel"
    /\ \E hit \in {{d \in Client : Live(d, TableOf(E(c)))}} :
          conn' = [d \in Client |->
                      IF d = c THEN Answered(c, conn[c], Ok(hit # {}))
                      ELSE IF d \in hit THEN Stopped(conn[d]) ELSE conn[d]]
    /\ UNCHANGED <<setup, store, kept>>

-----------------------------------------------------------------------------
\* Materialize namespaces.

NsOf(e) == IF e.op = "drop_namespace" THEN TableOf(e)
           ELSE LET n == Normalize(e.ns) IN IF n.ok /\ n.v # None THEN n.v[1] ELSE DefaultNs
UnknownTable == Err(Failure("UnknownTable", "t"))

\* A materialized table is named by one plain piece.
ValidateMaterializedName(e) == e.op = "materialize" => Len(e.name.table) = 1 /\ TableOf(e) # ""

\* What a namespace that does not exist answers; only materialize creates it.
Absent(e) ==
    CASE e.op = "cache_entries" -> Ok(<<>>)
      [] e.op = "drop_materialized" -> Ok(FALSE)
      [] OTHER -> UnknownTable

Opens(c, e, ns) ==
    IF ~ValidateMaterializedName(e) THEN Answered(c, conn[c], Internal("invalid name"))
    ELSE IF ~ns.ok THEN Answered(c, conn[c], ns)
    ELSE IF ns.v = None THEN [conn[c] EXCEPT !.at = "run", !.mgr = 1]
    ELSE IF e.op = "materialize" \/ Exists(store, ns.v[1]) THEN [conn[c] EXCEPT !.at = "memo"]
    ELSE Answered(c, conn[c], Absent(e))
Open(c) ==
    /\ conn[c].at = "open"
    /\ UsesStore(E(c))
    /\ \E ns \in {Normalize(E(c).ns)} : Set(c, Opens(c, E(c), ns))
    /\ UNCHANGED <<setup, store, kept>>

\* open_or_create: a look under the read lock, then another under the write
\* lock.
Memo(c) ==
    /\ conn[c].at = "memo"
    /\ \E m \in {store.memo[NsOf(E(c))]} :
          Set(c, [conn[c] EXCEPT !.at = IF m # 0 THEN "run" ELSE "create", !.mgr = m])
    /\ UNCHANGED <<setup, store, kept>>
Create(c) ==
    /\ conn[c].at = "create"
    /\ \E o \in {OpenOrCreate(store, NsOf(E(c)))} :
          /\ store' = o.store
          /\ Set(c, [conn[c] EXCEPT !.at = "run", !.mgr = o.mgr])
    /\ UNCHANGED <<setup, kept>>

Entry(t) == [name |-> [schema |-> <<"materialized">>, table |-> <<t>>], mode |-> "Pinned",
             expires |-> None]
Listed(n, tables) ==
    SetToSeq({Entry(t) : t \in tables}) \o (IF n = DefaultNs THEN CachedEntries ELSE <<>>)

\* A drop meets the calls that are storing in the namespace.
Storing(d, n) ==
    /\ conn[d].at \in {"memo", "create", "run", "write", "upsert"}
    /\ E(d).op \in {"materialize", "refresh_table"} /\ NsOf(E(d)) = n
Meeting(c, r, n, t) ==
    [d \in Client |-> IF d = c THEN r
                      ELSE IF Storing(d, n) /\ t \in {None, Some(TableOf(E(d)))}
                      THEN [conn[d] EXCEPT !.dropped = TRUE] ELSE conn[d]]

\* cache_entries lists the manager's memory; refresh_table needs the spec.
Run(c) ==
    /\ conn[c].at = "run"
    /\ E(c).op \in {"cache_entries", "materialize", "refresh_table"}
    /\ \E held \in {store.mem[conn[c].mgr]} :
          Set(c, CASE E(c).op = "cache_entries" ->
                        Answered(c, conn[c], Ok(Listed(NsOf(E(c)), held)))
                   [] E(c).op = "refresh_table" /\ TableOf(E(c)) \notin held ->
                        Answered(c, conn[c], UnknownTable)
                   [] OTHER -> [conn[c] EXCEPT !.at = "write"])
    /\ UNCHANGED <<setup, store, kept>>

DropMaterialized(c) ==
    /\ conn[c].at = "run"
    /\ E(c).op = "drop_materialized"
    /\ \E n \in {NsOf(E(c))}, t \in {TableOf(E(c))} :
          IF ~store.disk[n].dir
          THEN /\ Set(c, Answered(c, conn[c], Internal("cache manifest flush")))
               /\ UNCHANGED <<store, kept>>
          ELSE /\ store' = DropTable(store, n, conn[c].mgr, t)
               /\ kept' = [kept EXCEPT ![n] = @ \ {t}]
               /\ conn' = Meeting(c, Answered(c, conn[c], Ok(t \in store.disk[n].tables)),
                                  n, Some(t))
    /\ UNCHANGED setup

\* The rows are produced, then written, then entered in the manifest.
Produce(c) ==
    /\ conn[c].at = "write"
    /\ \E a \in EngineAnswers(E(c)) :
          /\ store' = IF a.ok THEN WriteParquet(store, NsOf(E(c)), TableOf(E(c))) ELSE store
          /\ Set(c, IF a.ok THEN [conn[c] EXCEPT !.at = "upsert", !.answer = Some(a)]
                    ELSE Answered(c, conn[c], a))
    /\ UNCHANGED <<setup, kept>>
Store(c) ==
    /\ conn[c].at = "upsert"
    /\ \E n \in {NsOf(E(c))}, t \in {TableOf(E(c))} :
          IF ~store.disk[n].dir
          THEN /\ Set(c, Answered(c, conn[c], Internal("materialize write")))
               /\ UNCHANGED <<store, kept>>
          ELSE /\ store' = Upsert(store, n, conn[c].mgr, t)
               /\ kept' = [kept EXCEPT ![n] = IF conn[c].dropped THEN @ ELSE @ \cup {t}]
               /\ Set(c, Answered(c, conn[c], conn[c].answer[1]))
    /\ UNCHANGED setup

DropNamespace(c) ==
    /\ conn[c].at = "open"
    /\ E(c).op = "drop_namespace"
    /\ \E n \in {TableOf(E(c))} :
       \E valid \in {Removable(n)} :
          IF ~valid.ok
          THEN Set(c, Answered(c, conn[c], valid)) /\ UNCHANGED <<store, kept>>
          ELSE /\ store' = Forget(store, n)
               /\ kept' = [kept EXCEPT ![n] = {}]
               /\ conn' = Meeting(c, [conn[c] EXCEPT !.at = "erase", !.mgr = store.memo[n]],
                                  n, None)
    /\ UNCHANGED setup
EraseDir(c) ==
    /\ conn[c].at = "erase"
    /\ \E n \in {NsOf(E(c))} :
          /\ store' = Erase(store, n)
          /\ kept' = [kept EXCEPT ![n] = {}]
          /\ conn' = Meeting(c, Answered(c, conn[c],
                                         Ok(store.disk[n].manifest \/ conn[c].mgr # 0)),
                             n, None)
    /\ UNCHANGED setup

-----------------------------------------------------------------------------
\* Result streams.

Limit(c) ==
    LET arg == conn[c].call[1].arg
    IN  IF Mcp(c) THEN MaxRows(arg)
        ELSE IF conn[c].call[1].op = "query"
        THEN Clamp(IF arg.max_rows > 0 THEN Some(arg.max_rows) ELSE None)
        ELSE Clamp(arg.limit)
Format(c) == IF conn[c].call[1].op = "query" /\ ~Mcp(c) THEN conn[c].call[1].arg.format ELSE None

Streaming(r, c, items) ==
    IF Grpc(c) THEN [r EXCEPT !.at = "streaming", !.frames = <<Frame("started", <<[id |-> c]>>)>>]
    ELSE CASE Format(c) = Some("ndjson") -> [r EXCEPT !.at = "streaming"]
           [] Format(c) \in {None, Some("json")} -> [r EXCEPT !.at = "collecting"]
           [] OTHER -> [r EXCEPT !.at = "answered",
                                 !.resp = Some(BufferedResponse(items, Limit(c), Format(c)))]

\* What the engine yields of a result under a LIMIT.
Capped(items, cap) ==
    LET before(i) == Len(FlattenSeq(RowsOf(SubSeq(items, 1, i - 1))))
        full == {i \in DOMAIN items : items[i].k = "batch" /\ before(i + 1) >= cap[1]}
        last == Min(full)
    IN  IF cap = None \/ full = {} THEN items
        ELSE Append(SubSeq(items, 1, last - 1), [items[last] EXCEPT !.v = UpTo(@, cap[1] - before(last))])
               \o <<[k |-> "end", v |-> [truncated |-> FALSE]]>>

\* The engine starts the query first, so that the stream can begin with its id.
StartQuery(c) ==
    /\ conn[c].at = "open"
    /\ E(c).op \in StreamOps
    /\ \/ \E a \in {b \in EngineAnswers(E(c)) : ~b.ok} : Set(c, Answered(c, conn[c], a))
       \/ \E items \in EngineResults :
          \E cut \in {IF Mcp(c) /\ E(c).op = "query" THEN Capped(items, E(c).arg.cap) ELSE items} :
             Set(c, Streaming([conn[c] EXCEPT !.feed = cut, !.result = cut, !.whole = items], c, cut))
    /\ UNCHANGED <<setup, store, kept>>

\* The server takes the next item of the engine's stream when the transport
\* has room for a frame.
Ends(frame) == frame.k \in {"error", "completed", "broken", "end"}
Closing(frame) ==
    IF frame.k \in {"error", "completed"} THEN <<frame, Frame("end", <<>>)>>
    ELSE IF frame = Frame("batch", <<>>) THEN <<>>
    ELSE <<frame>>
Pumped(r, frame) ==
    [r EXCEPT !.frames = @ \o Closing(frame),
              !.feed = IF Ends(frame) THEN <<>> ELSE Tail(@),
              !.sent = @ + (IF frame.k = "batch" THEN Len(frame.v) ELSE 0)]

Pump(c) ==
    /\ conn[c].at = "streaming"
    /\ conn[c].feed # <<>>
    /\ Len(conn[c].frames) < Window
    /\ \E item \in {Head(conn[c].feed)} :
       \E frame \in {IF Grpc(c) THEN SvcFrame(conn[c].call[1].op, item, conn[c].sent)
                      ELSE IF conn[c].sent = Limit(c) THEN Frame("end", <<>>)
                      ELSE NdjsonLine(item, Limit(c) - conn[c].sent)} :
          Set(c, Pumped(conn[c], frame))
    /\ UNCHANGED <<setup, store, kept>>

\* A JSON answer is buffered to the end before any of it is sent.
Collect(c) ==
    /\ conn[c].at = "collecting"
    /\ \E r \in {[conn[c] EXCEPT !.feed = Tail(@)]} :
          Set(c, IF Head(conn[c].feed).k = "batch" THEN r
                 ELSE [r EXCEPT !.at = "answered",
                                !.resp = Some(IF Mcp(c) THEN RowsPayload(r.result, Limit(c))
                                              ELSE BufferedResponse(r.result, Limit(c), Format(c)))])
    /\ UNCHANGED <<setup, store, kept>>

-----------------------------------------------------------------------------
\* Connections break.  A request or a response is lost; a handler that waits
\* for the engine is dropped, and with it the query it runs; the frames in
\* flight may still arrive, then an error does.

TransportError(c) ==
    Err(IF Grpc(c) THEN StatusToEngineError(Status("Unavailable", "transport"))
        ELSE Failure("Protocol", "rest request"))
Broken == Frame("lost", <<Status("Unavailable", "transport")>>)

Lose(c) ==
    /\ setup.faults
    /\ ~conn[c].lost
    /\ \/ /\ conn[c].at \in {"sent", "open", "write", "answered", "collecting"}
          /\ Set(c, Told([conn[c] EXCEPT !.lost = TRUE, !.feed = <<>>], TransportError(c)))
       \/ /\ conn[c].at = "streaming"
          /\ \E k \in 0..Len(conn[c].frames) :
                Set(c, [conn[c] EXCEPT !.lost = TRUE, !.feed = <<>>,
                                       !.frames = Append(SubSeq(@, 1, k), Broken)])
    /\ UNCHANGED <<setup, store, kept>>

-----------------------------------------------------------------------------

Step(c) ==
    \/ Receive(c) \/ Pull(c) \/ Arrive(c) \/ Serve(c) \/ Cancel(c)
    \/ Open(c) \/ Memo(c) \/ Create(c) \/ Run(c) \/ DropMaterialized(c)
    \/ Produce(c) \/ Store(c) \/ DropNamespace(c) \/ EraseDir(c)
    \/ StartQuery(c) \/ Pump(c) \/ Collect(c)

Next == \E c \in Client : Send(c) \/ Step(c) \/ Lose(c)

Spec == Init /\ [][Next]_vars /\ \A c \in Client : WF_vars(Step(c))

-----------------------------------------------------------------------------
\* Properties.

\* The engine was asked what the caller asked.
SameArg(c, e) ==
    CASE e.op = "query" -> e.arg.sql = c.arg.sql /\ e.arg.params = c.arg.params
      [] e.op = "semantic_query" -> \A f \in DOMAIN e.arg : e.arg[f] = c.arg[f]
      [] OTHER -> e.arg = c.arg
SameRequest(c, e) ==
    /\ e.op = c.op /\ e.name = c.name
    /\ e.op # "drop_namespace" => NoneIfEmpty(UnwrapOrDefault(e.ns)) = NoneIfEmpty(UnwrapOrDefault(c.ns))
    /\ SameArg(c, e)

\* The caller was told what the engine answered; a cache entry of an unknown
\* mode is still listed.
SameAnswer(op, v, w) ==
    IF Knows(op, v) THEN w = v
    ELSE op = "cache_entries" => MapAll(w, LAMBDA e : e.name) = MapAll(v, LAMBDA e : e.name)

\* An error tells the caller the engine's code, as its own or in its text.
TellsCode(e, engine) ==
    IF e.v = "Tool" THEN e.text = Display(engine)
    ELSE Code(engine) \in {Code(e)} \cup (IF e.of = <<>> THEN {} ELSE {e.of[1]})

\* The reasons for which a call that succeeded is reported as failed: its
\* answer was lost, an old daemon ignored the namespace, a newer one used a
\* variant this client does not know, or REST says "not found" for false.
Excused(c, call, v) ==
    \/ conn[c].lost
    \/ Old /\ Requested(call) \notin {None, Some("")}
    \/ ~Knows(call.op, v)
    \/ ~Grpc(c) /\ ~Mcp(c) /\ call.op \in DOMAIN UnknownCode /\ ~v

\* The tools that make several engine calls, or make something else of the
\* answer.  A search returns the tables that match, best first, and loses one
\* only to its limit; a list of columns is complete unless it says otherwise;
\* a function is called with the arguments that were given, where it declares
\* them.
SearchHonest(args, tables, v) ==
    LET terms == SearchTerms(args.query[1])
        score(t) == TableMatchScore(terms, t)
    IN  /\ Range(v.tables) \subseteq {t \in Range(tables) : Matches(terms, t)}
        /\ \A t \in Range(tables) \ Range(v.tables) :
              Matches(terms, t) => v.truncated /\ \A s \in Range(v.tables) : score(s) >= score(t)
        /\ \A i, j \in DOMAIN v.tables : i < j => score(v.tables[i]) >= score(v.tables[j])
ColumnsHonest(args, targets, seen, v) ==
    /\ Len(v.columns) <= ColumnLimit(args)
    /\ ~v.truncated => /\ Len(seen) = Len(targets)
                       /\ v.columns = ColumnRows(args, targets, seen)
FunctionHonest(args, decl, sql) ==
    /\ sql.function = args.function[1]
    /\ \A i \in DOMAIN decl.args :
          decl.args[i].name \in DOMAIN args.args =>
              i <= Len(sql.args) /\ sql.args[i] = args.args[decl.args[i].name]
    /\ \A i \in DOMAIN sql.args :
          decl.args[i].name \notin DOMAIN args.args => decl.args[i].default = Some(sql.args[i])
ToolHonest(c) ==
    LET args == conn[c].call[1].arg
        v == conn[c].told[1].v
    IN  CASE conn[c].call[1].op = "search_tables" -> SearchHonest(args, conn[c].seen[1], v)
          [] conn[c].call[1].op = "list_columns" -> ColumnsHonest(args, conn[c].targets[1], conn[c].seen, v)
          [] conn[c].call[1].op = "call_function" -> FunctionHonest(args, conn[c].seen[1], E(c).arg.sql)
ToolOps == {"search_tables", "list_columns", "call_function"}

\* The rows the engine's stream yields, and those a REST answer may hold.
ItemRows(items) ==
    FlattenSeq(MapAll(items, LAMBDA i : IF i.k = "batch" THEN i.v ELSE <<>>))
EngineRows(c) == ItemRows(conn[c].result)
Failed(c) == \E i \in DOMAIN conn[c].result : conn[c].result[i].k = "err"
Allowed(c) == UpTo(EngineRows(c), Limit(c))

\* The value of a cell that JSON can carry.
SameCell(v, w) == v.n <= I64Max => w.n = v.n /\ (w.k = "null" <=> v.k = "null")
SameRows(s, t) == Len(s) = Len(t) /\ \A i \in DOMAIN s : SameCell(s[i], t[i])

\* A result without a batch has no columns in JSON, and the client refuses it
\* (rest_client.rs: json_rows_to_batch).
NoBatch(c) == \A i \in DOMAIN conn[c].result : conn[c].result[i].k # "batch"
JsonHonest(c) ==
    conn[c].at = "told" =>
        IF conn[c].told[1].ok
        THEN /\ ~Failed(c)
             /\ SameRows(Allowed(c), conn[c].told[1].v.rows)
             /\ conn[c].told[1].v.completion[1].truncated = (Len(EngineRows(c)) > Limit(c))
        ELSE conn[c].lost \/ Failed(c) \/ NoBatch(c)
McpHonest(c) ==
    conn[c].at = "told" /\ conn[c].told[1].ok =>
        /\ ~Failed(c)
        /\ SameRows(UpTo(ItemRows(conn[c].whole), Limit(c)), conn[c].told[1].v.rows)
        /\ conn[c].told[1].v.truncated => Len(ItemRows(conn[c].whole)) > Limit(c)
        /\ conn[c].call[1].op # "call_function" =>
              conn[c].told[1].v.truncated = (Len(ItemRows(conn[c].whole)) > Limit(c))
NdjsonHonest(c) ==
    /\ Len(conn[c].rows) <= Limit(c)
    /\ conn[c].at = "told" /\ conn[c].told[1].ok => SameRows(Allowed(c), conn[c].rows)

\* A result over REST or from a tool never reads as more than it is: it holds as
\* many of the engine's rows as its limit, saying whether there were more
\* (although a tool asks the engine for no more than one row above it), and an
\* engine error in the middle never looks like an end.  Over REST a result the
\* engine finished arrives, unless the connection broke or it has no batch.
RowsAsLocal(c) ==
    CASE Mcp(c) -> McpHonest(c)
      [] Format(c) = Some("ndjson") -> NdjsonHonest(c)
      [] Format(c) \in {None, Some("json")} -> JsonHonest(c)
      [] OTHER -> conn[c].at = "told" => ~conn[c].told[1].ok

\* A call that succeeds was made once, as asked and in the namespace asked for,
\* and its value arrives unchanged; a call that fails without an excuse failed
\* in the engine, with the code the caller sees.
ValueAsLocal(c) ==
    LET call == conn[c].call[1]
        told == conn[c].told[1]
    IN  /\ told.ok => /\ conn[c].answer # None /\ conn[c].answer[1].ok
                      /\ SameRequest(call, E(c))
                      /\ SameAnswer(call.op, conn[c].answer[1].v, told.v)
        /\ ~told.ok /\ conn[c].answer # None =>
              IF conn[c].answer[1].ok THEN Excused(c, call, conn[c].answer[1].v)
              ELSE conn[c].lost \/ TellsCode(told.e, conn[c].answer[1].e)

\* A remote engine answers as the local one would: the values and errors of
\* calls, what the tools make of them, and the rows of queries, which run as
\* they were asked on every transport (remote.rs, rest_client.rs, the services,
\* conv.rs, EngineError::from_wire and the MCP tools).
AnswersAsLocal ==
    \A c \in Client : conn[c].call # None =>
      LET op == conn[c].call[1].op
      IN  /\ conn[c].at = "told" =>
                /\ op \in ToolOps /\ conn[c].told[1].ok => ToolHonest(c)
                /\ op \notin StreamOps \cup ToolOps \cup {"shutdown"} => ValueAsLocal(c)
          /\ conn[c].result # <<>> =>
                /\ op \in StreamOps => SameRequest(conn[c].call[1], E(c))
                /\ op \in StreamOps \cup {"call_function"} /\ ~Grpc(c) => RowsAsLocal(c)

\* A gRPC result never reads as more than it is: what has arrived is a prefix of
\* the engine's rows, a completion says how many they are and comes only when
\* the engine did not fail, and a stream that ends without an error has
\* delivered all of them, whatever is cancelled or lost on the way (query.rs,
\* remote.rs).
GrpcStreamsWhole ==
    \A c \in Client :
        Grpc(c) /\ conn[c].result # <<>> =>
          /\ IsPrefix(conn[c].rows, EngineRows(c))
          /\ conn[c].completion # None =>
                ~Failed(c) /\ conn[c].completion[1].rows = Len(EngineRows(c))
          /\ conn[c].at = "told" /\ conn[c].told[1].ok =>
                conn[c].completion # None /\ conn[c].rows = EngineRows(c)

\* A table that was materialized, and that no drop met since its handler
\* opened the namespace, is held by the manager that the next lookup finds
\* and its file is there: two handlers that open a namespace at the same
\* time end up with one manager (namespace.rs open_or_create).
MaterializedListed ==
    \A n \in AllNs : kept[n] \subseteq NamespaceTables(store, n)

\* Every call returns: the frames of a stream end, and no handler waits for
\* ever, as long as the engine itself answers.
CallsReturn == \A c \in Client : (conn[c].at = "sent") ~> (conn[c].at = "told")

=============================================================================
