------------------------------ MODULE McpSource ------------------------------
(***************************************************************************)
(* An MCP source at work (pawrly-sources/mcp: transport.rs, stdio.rs,      *)
(* http.rs, session.rs, register.rs, provider.rs, function.rs): its        *)
(* registration (connect, handshake, tools/list, synthesis) and the scans  *)
(* and function calls that then share its one session, over a child        *)
(* process's pipes or over HTTP.                                           *)
(*                                                                         *)
(* The server is external.  It answers the requests it received in any     *)
(* order, and does each of the things in setup.faults at most once.        *)
(***************************************************************************)
EXTENDS McpTables

CONSTANTS
    Job,                \* the queries
    Scenarios,          \* what may be configured, asked and go wrong
    MaxPages,           \* safety.max_pages
    PageSize,           \* rows in a page of the server
    ToolRows(_, _),     \* the rows a tool has for its arguments
    Shaped(_, _)        \* a tool's rows as the members of a tools/call result

ASSUME PagesAssumption == MaxPages \in Nat \ {0} /\ PageSize \in Nat \ {0}

\* The cursors of a server's listing, one for each page after the first.
Cursors == <<"c1", "c2", "c3", "c4", "c5">>

\* What a scenario is: a listing of some pages of tools, the `tables:` of the
\* config, and jobs whose functions name their tool, as the type of a function's
\* spec requires.
ASSUME ScenariosAssumption ==
    /\ "registration" \notin Job
    /\ \A s \in Scenarios :
           /\ IsVec(s.pages) /\ Len(s.pages) \in 1..Len(Cursors)
           /\ \A n \in DOMAIN s.pages : IsVec(s.pages[n])
           /\ IsVec(s.defs)
           /\ \A p \in DOMAIN s.jobs :
                  \/ s.jobs[p].kind = "scan"
                  \/ s.jobs[p].kind = "invoke" /\ "tool" \in DOMAIN s.jobs[p].def.body

VARIABLES
    setup,      \* the scenario
    tables,     \* specs of the registered tables
    task,       \* what the registration and each job are at
    conn,       \* the transport: next_id, pending, the session, the child's life
    served,     \* requests the server holds
    lines,      \* the child's stdout, unread
    called,     \* tools that were called (history)
    used        \* faults that happened

vars == <<setup, tables, task, conn, served, lines, called, used>>

Reg == "registration"
Actor == Job \cup {Reg}
Stdio == setup.transport = "stdio"
MayFail(fault) == fault \in setup.faults \ used

Ok(rows) == [ok |-> TRUE, rows |-> rows, err |-> ""]
Err(e) == [ok |-> FALSE, rows |-> <<>>, err |-> e]
NoParams == [name |-> <<>>, arguments |-> <<>>, cursor |-> None]

Idle == [phase |-> "idle", method |-> "", params |-> NoParams, id |-> 0, got |-> None,
         acc |-> <<>>, page |-> 0, told |-> None, hurt |-> FALSE]
Tell(t, outcome) ==
    [t EXCEPT !.phase = "told", !.told = Some(outcome), !.got = None, !.acc = <<>>]
Ask(t, method, params) ==
    [t EXCEPT !.phase = "enlist", !.method = method, !.params = params, !.got = None]
Notify(t, method) ==
    [t EXCEPT !.phase = "write", !.method = method, !.params = NoParams, !.id = 0, !.got = None]
IsNotification(m) == m.method = "notifications/initialized"
Hurt(t) == [t EXCEPT !.hurt = TRUE]
SetTask(p, t) == task' = [task EXCEPT ![p] = t]

Init ==
    /\ setup \in Scenarios
    /\ tables = <<>>
    /\ task = [p \in Actor |-> Idle]
    /\ conn = [next_id |-> 1, pending |-> <<>>, session |-> None, up |-> TRUE]
    /\ served = {} /\ lines = <<>> /\ called = {} /\ used = {}

-----------------------------------------------------------------------------
\* Registration and the jobs, between two requests.

\* build_transport: a transport that is unknown or lacks its command or url, a
\* child that does not start.
Connect ==
    /\ task[Reg].phase = "idle"
    /\ \/ /\ setup.transport \notin {"stdio", "streamable_http"}
          /\ SetTask(Reg, Tell(task[Reg], Err("Config")))
          /\ UNCHANGED used
       \/ /\ Stdio /\ MayFail("spawn")
          /\ used' = used \cup {"spawn"}
          /\ SetTask(Reg, Tell(Hurt(task[Reg]), Err("Connect")))
       \/ /\ setup.transport \in {"stdio", "streamable_http"}
          /\ SetTask(Reg, Ask(task[Reg], "initialize", NoParams))
          /\ UNCHANGED used
    /\ UNCHANGED <<setup, tables, conn, served, lines, called>>

\* The spec and the bound arguments of a job: a scan binds the equality
\* filters on arguments, a function its typed parameters.
SpecOf(job) ==
    IF job.kind = "invoke" THEN FunctionSpec(job.def)
    ELSE tables[CHOOSE i \in DOMAIN tables : tables[i].name = job.table]
BoundOf(job) ==
    IF job.kind = "invoke" THEN BindArgs(job.def.args, job.params)
    ELSE BoundArgs(SpecOf(job), job.filters)

\* A limit reaches the scan only when no filter is left above it.
PushedLimit(job) == IF job.kind = "scan" /\ DOMAIN job.filters # {} THEN None ELSE job.limit

\* fetch: the request for the next page.
CallTool(t, job, cursor) ==
    LET spec == SpecOf(job)
    IN  Ask(t, "tools/call",
            [NoParams EXCEPT !.name = spec.tool,
                             !.arguments = PageArgs(spec, BaseArgs(spec, BoundOf(job), PushedLimit(job)),
                                                    cursor)])

\* A query starts once the source is registered; a table it does not have
\* fails the plan.
Begin(p) ==
    LET job == setup.jobs[p]
    IN  /\ p \in DOMAIN setup.jobs /\ task[p].phase = "idle"
        /\ task[Reg].told = Some(Ok(<<>>))
        /\ IF job.kind = "scan" /\ ~InSome(tables, LAMBDA s : s.name = job.table)
           THEN SetTask(p, Tell(task[p], Err("Plan")))
           ELSE SetTask(p, CallTool(task[p], job, None))
        /\ UNCHANGED <<setup, tables, conn, served, lines, called, used>>

-----------------------------------------------------------------------------
\* The transports.

\* request: a fresh id, and for a child an entry in `pending` before the
\* request is written.
Enlist(p) ==
    /\ task[p].phase = "enlist"
    /\ conn' = [conn EXCEPT !.next_id = @ + 1,
                            !.pending = IF Stdio THEN (conn.next_id :> p) @@ @ ELSE @]
    /\ SetTask(p, [task[p] EXCEPT !.phase = "write", !.id = conn.next_id])
    /\ UNCHANGED <<setup, tables, served, lines, called, used>>

\* write and post.  A child that has gone breaks the pipe; `pending` keeps the
\* entry.  A notification to a child waits for nothing.
Write(p) ==
    LET t == task[p]
        request == [id |-> t.id, from |-> p, method |-> t.method, params |-> t.params,
                    session |-> conn.session]
    IN  /\ t.phase = "write"
        /\ \/ /\ Stdio /\ ~conn.up
              /\ SetTask(p, Tell(t, Err("Transport")))
              /\ UNCHANGED served
           \/ /\ Stdio /\ conn.up /\ IsNotification(t)
              /\ SetTask(p, Ask(t, "tools/list", NoParams))
              /\ UNCHANGED served
           \/ /\ ~Stdio \/ (conn.up /\ ~IsNotification(t))
              /\ SetTask(p, [t EXCEPT !.phase = "wait"])
              /\ served' = served \cup {request}
        /\ called' = called \cup (IF t.method = "tools/call" THEN {t.params.name} ELSE {})
        /\ UNCHANGED <<setup, tables, conn, lines, used>>

\* What a line or a body holds: a message, whose id a notification does not
\* have, text that is no JSON, or bytes that are not even UTF-8.
Message(id, error, result) ==
    [utf8 |-> TRUE, json |-> TRUE, id |-> id, error |-> error, result |-> result]
Garbage == [Message(None, FALSE, JNull) EXCEPT !.json = FALSE]
Unreadable == [Garbage EXCEPT !.utf8 = FALSE]
Notice == Message(None, FALSE, JNull)

\* A message answers the request of its id, once.
Received(c, line) ==
    IF line.json /\ line.id # None /\ line.id[1] \in DOMAIN c.pending
    THEN [c EXCEPT !.pending = [i \in DOMAIN @ \ {line.id[1]} |-> @[i]]] ELSE c

\* Mutant: an answer goes to the oldest request.
Addressee_Oldest(c, line) ==
    IF line.json /\ line.id # None /\ line.id[1] \in DOMAIN c.pending
    THEN Some([id |-> Min(DOMAIN c.pending), by |-> c.pending[Min(DOMAIN c.pending)]])
    ELSE None

\* Whom a line of the child is for.
Addressee(c, line) ==
    IF line.json /\ line.id # None /\ line.id[1] \in DOMAIN c.pending
    THEN Some([id |-> line.id[1], by |-> c.pending[line.id[1]]]) ELSE None

\* Mutant: a line that is no JSON ends the reader.
Read_StopsAtGarbage ==
    /\ lines # <<>> /\ Head(lines).utf8 /\ Head(lines).json
    /\ LET to == Addressee(conn, Head(lines))
       IN  task' = [p \in Actor |->
                IF to # None /\ to[1].by = p /\ task[p].phase = "wait" /\ task[p].id = to[1].id
                THEN [task[p] EXCEPT !.phase = "got", !.got = Some(Head(lines))]
                ELSE task[p]]
    /\ conn' = Received(conn, Head(lines))
    /\ lines' = Tail(lines)
    /\ UNCHANGED <<setup, tables, served, called, used>>

\* The reader task: a line that is no JSON, has no id or an unknown one is
\* skipped; a request whose future was dropped takes no answer.  A line that is
\* not UTF-8 ends the task: it and all that follows stay unread, while the child
\* runs on and takes requests.
ReaderEnded == lines # <<>> /\ ~Head(lines).utf8
Read ==
    /\ lines # <<>> /\ ~ReaderEnded
    /\ LET to == Addressee(conn, Head(lines))
       IN  task' = [p \in Actor |->
                IF to # None /\ to[1].by = p /\ task[p].phase = "wait" /\ task[p].id = to[1].id
                THEN [task[p] EXCEPT !.phase = "got", !.got = Some(Head(lines))]
                ELSE task[p]]
    /\ conn' = Received(conn, Head(lines))
    /\ lines' = Tail(lines)
    /\ UNCHANGED <<setup, tables, served, called, used>>

\* What an HTTP response says to the request of this id: a failed status, then
\* the message of that id in an event stream, or the body whatever its id.
SseResponseFor(messages, id) ==
    Pick(messages, {i \in DOMAIN messages : messages[i].json /\ messages[i].id = Some(id)})
HttpReply(resp, t) ==
    LET found == IF resp.sse THEN SseResponseFor(resp.messages, t.id) ELSE resp.messages
    IN  IF resp.status \notin 200..299 THEN Err("Transport")
        ELSE IF IsNotification(t) THEN Ok(<<Notice>>)
        ELSE IF found = <<>> \/ ~found[1].json THEN Err("Protocol")
        ELSE Ok(<<found[1]>>)

\* rpc_result over either transport.
RpcResult(t) ==
    LET reply == IF Stdio THEN Ok(t.got) ELSE HttpReply(t.got[1], t)
    IN  IF ~reply.ok THEN reply
        ELSE IF reply.rows[1].error THEN Err("Rpc")
        ELSE Ok(<<reply.rows[1].result>>)

-----------------------------------------------------------------------------
\* The answers, as the tasks take them.

\* parse_tool drops a tool without a name.
ParseTools(result) == Pick(result.tools, {i \in DOMAIN result.tools : result.tools[i].name # None})

\* list_tools: a page that names the next one.
ListTools(t, result) ==
    LET grown == [t EXCEPT !.acc = @ \o ParseTools(result)]
    IN  /\ UNCHANGED tables
        /\ SetTask(Reg, Ask(grown, "tools/list", [NoParams EXCEPT !.cursor = result.next]))

NamesClash(specs) == \E i, j \in DOMAIN specs : i < j /\ specs[i].name = specs[j].name

\* register_mcp_source after the last page: a second table of a name is refused.
Register(t, result) ==
    \E tools \in {t.acc \o ParseTools(result)} :
    \E specs \in {ApplyTableDefs(SynthesizeTools(tools, setup.opts), setup.defs)} :
        IF specs = None \/ NamesClash(specs[1])
        THEN SetTask(Reg, Tell(t, Err("Config"))) /\ UNCHANGED tables
        ELSE SetTask(Reg, Tell(t, Ok(<<>>))) /\ tables' = specs[1]

\* DataFusion's part of a scan: the filters again, on the columns, then LIMIT.
Matches(spec, filters, row) ==
    \A f \in DOMAIN filters : Present(row[f]) /\ row[f].v = filters[f].v
Answer(job, rows) ==
    LET spec == SpecOf(job)
        batch == McpBatch(spec, BoundOf(job), rows)
    IN  IF job.kind = "invoke" THEN BuildFunctionBatch(job.def.returns, BoundOf(job), rows)
        ELSE UpTo(SelectSeq(batch, LAMBDA r : Matches(spec, job.filters, r)), job.limit)

\* fetch: one page of a tools/call.
Fetched(p, t, result) ==
    LET job == setup.jobs[p]
        spec == SpecOf(job)
        rows == t.acc \o RowsFrom(StructuredResult(result), spec.rows_path)
        limit == PushedLimit(job)
        next == NextCursor(spec, result)
        more == next # None /\ t.page + 1 < MaxPages /\ ~(limit # None /\ Len(rows) >= limit[1])
    IN  SetTask(p, IF IsTrue(Member(result, Key("isError"))) THEN Tell(t, Err("Rpc"))
                   ELSE IF more THEN CallTool([t EXCEPT !.acc = rows, !.page = @ + 1], job, next)
                   ELSE Tell(t, Ok(Answer(job, UpTo(rows, limit)))))

\* A task takes the answer to its request.
Continue(p) ==
    LET t == task[p]
    IN  /\ t.phase = "got"
        /\ \E reply \in {RpcResult(t)} :
             \/ /\ ~reply.ok
                /\ SetTask(p, Tell(t, reply))
                /\ UNCHANGED tables
             \/ /\ reply.ok /\ t.method = "initialize"
                /\ SetTask(p, Notify(t, "notifications/initialized"))
                /\ UNCHANGED tables
             \/ /\ reply.ok /\ IsNotification(t)
                /\ SetTask(p, Ask(t, "tools/list", NoParams))
                /\ UNCHANGED tables
             \/ /\ reply.ok /\ t.method = "tools/list"
                /\ IF reply.rows[1].next # None THEN ListTools(t, reply.rows[1])
                   ELSE Register(t, reply.rows[1])
             \/ /\ reply.ok /\ t.method = "tools/call"
                /\ Fetched(p, t, reply.rows[1])
                /\ UNCHANGED tables
        /\ UNCHANGED <<setup, conn, served, lines, called, used>>

\* The query is dropped while it waits: its entry stays in `pending`.
Cancel(p) ==
    /\ p \in Job /\ task[p].phase = "wait" /\ MayFail("cancel")
    /\ SetTask(p, Tell(Hurt(task[p]), Err("Cancelled")))
    /\ used' = used \cup {"cancel"}
    /\ UNCHANGED <<setup, tables, conn, served, lines, called>>

-----------------------------------------------------------------------------
\* The server.

ToolPage(cursor) ==
    LET n == IF cursor = None THEN 1 ELSE CHOOSE i \in DOMAIN Cursors : Cursors[i] = cursor[1]
    IN  [tools |-> setup.pages[n],
         next |-> IF n < Len(setup.pages) THEN Some(Cursors[n + 1]) ELSE None]

\* A page of a tool's rows: after the cursor, as many as it may return.
PageOf(args) == IF "limit" \in DOMAIN args /\ args["limit"].v < PageSize THEN args["limit"].v
                ELSE PageSize
ToolResult(name, args) ==
    LET all == ToolRows(name, args)
        from == IF "cursor" \notin DOMAIN args THEN 0
                ELSE CHOOSE i \in DOMAIN Cursors : Cursors[i] = args["cursor"].v
        to == Min({from + PageOf(args), Len(all)})
        next == IF to < Len(all) THEN "nextCursor" :> JTxt(Cursors[to]) ELSE <<>>
    IN  JObj(next @@ Shaped(name, SubSeq(all, from + 1, to)))

Result(request) ==
    CASE request.method = "tools/list" -> ToolPage(request.params.cursor)
      [] request.method = "tools/call" -> ToolResult(request.params.name, request.params.arguments)
      [] OTHER -> JObj(<<>>)
Correct(request) == Message(Some(request.id), FALSE, Result(request))
Refused(request) == Message(Some(request.id), TRUE, JNull)
ToolError(request) == Message(Some(request.id), FALSE, JObj("isError" :> JBool(TRUE)))
Harmful == {"rpc", "tool", "status", "malformed", "nomatch"}

\* What a child prints for a request.
Printed(request, how) ==
    CASE how = "rpc" -> <<Refused(request)>>
      [] how = "tool" -> <<ToolError(request)>>
      [] how = "garbage" -> <<Garbage, Notice, Correct(request)>>
      [] how = "unreadable" -> <<Unreadable, Correct(request)>>
      [] how = "twice" -> <<Correct(request), Correct(request)>>
      [] OTHER -> <<Correct(request)>>

\* What an HTTP server answers.  It names the session when it opens it, and
\* knows nobody without it.
Response(request, how) ==
    LET Body(messages) == [status |-> 200, sse |-> how \in {"sse", "nomatch"}, messages |-> messages]
    IN  CASE how = "status" \/ (request.method # "initialize" /\ request.session = None) ->
                [status |-> 400, sse |-> FALSE, messages |-> <<>>]
          [] how = "rpc" -> Body(<<Refused(request)>>)
          [] how = "tool" -> Body(<<ToolError(request)>>)
          [] how = "malformed" -> Body(<<Garbage>>)
          [] how = "nomatch" -> Body(<<Notice, Message(Some(request.id + 9), FALSE, JNull)>>)
          [] how = "sse" -> Body(<<Notice, Message(Some(request.id + 9), FALSE, JNull), Correct(request)>>)
          [] OTHER -> Body(<<Correct(request)>>)

Serve(request, how) ==
    /\ how = "ok" \/ MayFail(how)
    /\ how = "tool" => request.method = "tools/call"
    /\ used' = IF how = "ok" THEN used ELSE used \cup {how}
    /\ served' = served \ {request}
    /\ LET p == request.from
           t == IF how \in Harmful THEN Hurt(task[p]) ELSE task[p]
       IN  \/ /\ Stdio /\ conn.up
              /\ lines' = lines \o Printed(request, how)
              /\ SetTask(p, t)
              /\ UNCHANGED conn
           \/ /\ ~Stdio
              /\ SetTask(p, IF t.phase # "wait" THEN t
                            ELSE [t EXCEPT !.phase = "got", !.got = Some(Response(request, how))])
              /\ conn' = [conn EXCEPT !.session =
                             IF request.method = "initialize" THEN Some("session") ELSE @]
              /\ UNCHANGED lines
    /\ UNCHANGED <<setup, tables, called>>

\* The child exits: what it printed can still be read, the rest is lost.
Close ==
    /\ Stdio /\ conn.up /\ MayFail("close") /\ task[Reg].phase # "idle"
    /\ used' = used \cup {"close"}
    /\ conn' = [conn EXCEPT !.up = FALSE]
    /\ task' = [p \in Actor |-> IF task[p].phase = "told" THEN task[p] ELSE Hurt(task[p])]
    /\ served' = {}
    /\ UNCHANGED <<setup, tables, lines, called>>

-----------------------------------------------------------------------------
Served == \E request \in served : Serve(request, "ok")
Step == \/ Connect \/ Read \/ Served
        \/ \E p \in Actor : Enlist(p) \/ Write(p) \/ Continue(p)
        \/ \E p \in Job : Begin(p)

Fault == \/ \E request \in served, how \in setup.faults : Serve(request, how)
         \/ \E p \in Job : Cancel(p)
         \/ Close

Next == Step \/ Fault

\* The tasks and the reader run, and the server answers what it received.
Spec == Init /\ [][Next]_vars /\ WF_vars(Step)

-----------------------------------------------------------------------------
\* Properties.

SameCell(a, b) == a.t = b.t /\ a.v = b.v
SameRow(r, s) == DOMAIN r = DOMAIN s /\ \A c \in DOMAIN r : SameCell(r[c], s[c])
Same(told, answer) ==
    /\ told.ok = answer.ok /\ told.err = answer.err
    /\ Len(told.rows) = Len(answer.rows)
    /\ \A i \in DOMAIN told.rows : SameRow(told.rows[i], answer.rows[i])

\* Whatever the queries that share a session overlap with, and in whatever
\* order, how often and among what else the server answers, a query that
\* succeeds returns the rows its tool has for it, as far as `max_pages` goes,
\* and one fails only when the server failed it or its table does not exist
\* (fetch, the reader task, sse_response_for, structured_result, build_batch).
McpAnswersExact ==
    /\ \A p \in DOMAIN setup.jobs :
           LET told == task[p].told
           IN  told # None /\ (told[1].ok \/ ~task[p].hurt) => Same(told[1], setup.jobs[p].answer)
    /\ task[Reg].told # None /\ ~task[Reg].hurt => task[Reg].told[1].ok = setup.registers

\* What the config and the server's listing say of a tool: a table or a function
\* names it, or it is listed as not destructive and exposed.
Declared(s, name) ==
    \/ \E i \in DOMAIN s.defs : "tool" \in DOMAIN s.defs[i].patch /\ s.defs[i].patch["tool"] = name
    \/ \E p \in DOMAIN s.jobs : s.jobs[p].kind = "invoke" /\ s.jobs[p].def.body["tool"] = name
Exposed(s, tool) ==
    /\ tool.destructive # Some(TRUE)
    /\ tool.read_only = Some(TRUE) \/ s.opts.expose = "all"
    /\ tool.name \notin s.opts.exclude
Guarded(s, name) ==
    \/ Declared(s, name)
    \/ \E n \in DOMAIN s.pages : \E i \in DOMAIN s.pages[n] :
           s.pages[n][i].name = name /\ Exposed(s, s.pages[n][i])

\* A tool that the server does not call read-only is called only when the
\* config asks for it: `expose: all` for one that is not destructive, a table
\* or a function that names it for any (admit, synthesize_tools,
\* apply_table_def).
ToolsGuarded == \A name \in called : Guarded(setup, name)

\* A registration or a query that starts comes to an end, unless its answer
\* never reaches `pending`: the child exits before it has printed it, or the
\* reader task ended at a line that is not UTF-8.  Nobody drops the sender of such
\* a request, and it waits for ever (request, the reader task).
Abandoned(p) ==
    /\ task[p].phase = "wait" /\ Stdio
    /\ \/ ReaderEnded
       \/ ~conn.up /\ ~InSome(lines, LAMBDA m : m.id = Some(task[p].id))
McpCallsSettle ==
    \A p \in Actor : task[p].phase # "idle" ~> (task[p].phase = "told" \/ Abandoned(p))

=============================================================================
