---------------------------- MODULE MCMcpSource ----------------------------
(* Two queries on one source; every kind of tool, table and fault.          *)
EXTENDS McpSource

MCJob == {"a", "b"}

\* The tools of the server.
Name(words, sep) == [words |-> words, sep |-> sep]
Search == Name(<<"search">>, "")
Find == Name(<<"find", "notes">>, "-")
Find2 == Name(<<"find", "notes">>, ".")
Wipe == Name(<<"wipe">>, "")
Count == Name(<<"count">>, "")

Schema(type) == [ref |-> "", type |-> type, format |-> "", props |-> <<>>, items |-> None]
Ref(name) == [Schema("") EXCEPT !.ref = name]
ObjectOf(props) == [Schema("object") EXCEPT !.props = props]
ArrayOf(item) == [Schema("array") EXCEPT !.items = Some(item)]
Document(schema, defs) == [schema |-> schema, defs |-> defs]

Item == ("id" :> Schema("integer")) @@ ("q" :> Schema("string")) @@ ("ok" :> Schema("boolean"))
Tool(name, input, output, read_only, destructive) ==
    [name |-> name, input |-> input, required |-> {}, output |-> output,
     read_only |-> read_only, destructive |-> destructive]
SearchTool ==
    Tool(Search, ("q" :> Schema("string")) @@ ("limit" :> Schema("integer"))
                     @@ ("cursor" :> Schema("string")) @@ ("lang" :> Schema("string")),
         Some(Document(ObjectOf(("items" :> Ref("list")) @@ ("next" :> ArrayOf(Schema("string")))),
                       ("list" :> ArrayOf(Ref("item"))) @@ ("item" :> Ref("thing"))
                           @@ ("thing" :> ObjectOf(Item)))),
         Some(TRUE), None)
FindTool == Tool(Find, "q" :> Schema("string"), None, None, None)
Find2Tool == [FindTool EXCEPT !.name = Find2]
WipeTool == Tool(Wipe, <<>>, Some(Document(ArrayOf(ObjectOf("id" :> Schema("integer"))), <<>>)),
                 Some(TRUE), Some(TRUE))
CountTool == Tool(Count, <<>>, Some(Document(ObjectOf("n" :> Schema("integer")), <<>>)),
                  Some(TRUE), Some(FALSE))
Nameless == Tool(None, <<>>, None, Some(TRUE), None)

\* What they return.
Thing(i, q) == JObj(("id" :> JNum(i)) @@ ("q" :> JTxt(q)) @@ ("ok" :> JBool(i = 1)))
Things == <<Thing(1, "x"), Thing(2, "y"), Thing(3, "x")>>
MCToolRows(name, args) ==
    CASE name = Search -> IF "q" \in DOMAIN args
                          THEN SelectSeq(Things, LAMBDA r : r.v["q"] = args["q"]) ELSE Things
      [] name = Count -> <<JObj("n" :> JNum(7))>>
      [] name = Wipe -> <<JObj("id" :> JNum(5))>>
      [] OTHER -> <<Thing(4, "z")>>
Structured(j) == "structuredContent" :> j
TextBlock(j) == JObj(("type" :> JTxt("text")) @@ ("text" :> j))
MCShaped(name, rows) ==
    CASE name = Search -> Structured(JObj(("items" :> JArr(rows)) @@ ("next" :> JArr(<<>>))))
      [] name = Count -> Structured(rows[1])
      [] name = Wipe -> Structured(JArr(rows))
      [] OTHER -> "content" :> JArr(<<TextBlock(Encoded(JObj("hits" :> JArr(rows))))>>)

-----------------------------------------------------------------------------
\* Queries and what they must return.
Scan(table, filters, limit, rows) ==
    [kind |-> "scan", table |-> table, filters |-> filters, limit |-> limit, answer |-> Ok(rows)]
Row(i, q, given) ==
    ("id" :> JNum(i)) @@ ("q" :> JTxt(q)) @@ ("ok" :> JBool(i = 1))
        @@ ("limit" :> JNull) @@ ("cursor" :> JNull) @@ ("lang" :> given)
Plain(i, q) == Row(i, q, JNull)
All == Scan(<<"search">>, <<>>, None, <<Plain(1, "x"), Plain(2, "y")>>)
First == Scan(<<"search">>, <<>>, Some(1), <<Plain(1, "x")>>)
Xs == Scan(<<"search">>, "q" :> JTxt("x"), Some(2), <<Plain(1, "x"), Plain(3, "x")>>)
Ws == Scan(<<"search">>, "q" :> JTxt("w"), None, <<>>)
Second == Scan(<<"search">>, "id" :> JNum(2), Some(1), <<Plain(2, "y")>>)
Lang == Scan(<<"search">>, ("lang" :> JTxt("en")) @@ ("q" :> JTxt("y")), None, <<Row(2, "y", JTxt("en"))>>)
Counted == Scan(<<"count">>, <<>>, None, <<"n" :> JNum(7)>>)
Found == Scan(<<"find", "notes">>, "q" :> JTxt("z"), None,
              <<("q" :> JTxt("z")) @@ ("result" :> Encoded(Thing(4, "z")))>>)
Missing(name) == [Scan(name, <<>>, None, <<>>) EXCEPT !.answer = Err("Plan")]
Wiped == Scan(<<"purge">>, <<>>, None, <<"id" :> JStr(5)>>)
Renamed == Scan(<<"search">>, "word" :> JTxt("x"), None,
                <<("word" :> JTxt("x")) @@ ("n" :> JFlt(1)), ("word" :> JTxt("x")) @@ ("n" :> JFlt(3))>>)
Call(answer) ==
    [kind |-> "invoke", limit |-> Some(2), params |-> ("w" :> JTxt("x")) @@ ("top" :> JStr(1)),
     def |-> [name |-> <<"f">>,
              args |-> <<[name |-> "w", type |-> "varchar", required |-> TRUE, tool_arg |-> Some("q")],
                         [name |-> "top", type |-> "int", required |-> FALSE, tool_arg |-> Some("limit")],
                         [name |-> "rest", type |-> "bool", required |-> FALSE, tool_arg |-> None]>>,
              returns |-> <<[name |-> "w", type |-> "varchar", source |-> Some("arg"), path |-> <<>>],
                            [name |-> "id", type |-> "varchar", source |-> None, path |-> <<"id">>]>>,
              body |-> ("tool" :> Search) @@ ("rows_path" :> <<"items">>)
                          @@ ("pagination" :> Some([cursor_arg |-> "cursor",
                                                    response_cursor_path |-> <<"nextCursor">>]))],
     answer |-> Ok(answer)]
Invoked == Call(<<("w" :> JTxt("x")) @@ ("id" :> JStr(1)), ("w" :> JTxt("x")) @@ ("id" :> JStr(3))>>)

-----------------------------------------------------------------------------
Opts(expose) == [expose |-> expose, include |-> {}, exclude |-> {}]
Pages1 == <<<<SearchTool, WipeTool>>, <<Nameless, FindTool>>, <<CountTool>>>>
Base == [transport |-> "stdio", pages |-> Pages1, opts |-> Opts("read_only"), defs |-> <<>>,
         jobs |-> <<>>, faults |-> {}, registers |-> TRUE]
Over(t, s) == [s EXCEPT !.transport = t]
Both(s) == {Over("stdio", s), Over("streamable_http", s)}
Asking(s, a, b) == [s EXCEPT !.jobs = ("a" :> a) @@ ("b" :> b)]
Def(name, patch) == [name |-> name, patch |-> patch]
Purge == Def(<<"purge">>, ("tool" :> Wipe) @@ ("columns" :> <<[name |-> "id", type |-> "varchar",
                                                              path |-> <<"id">>]>>))
Rename == Def(<<"search">>,
    ("args" :> <<[name |-> "word", type |-> "varchar", required |-> TRUE, tool_arg |-> Some("q")]>>)
    @@ ("columns" :> <<[name |-> "n", type |-> "double", path |-> <<"id">>]>>)
    @@ ("tool_args" :> ("lang" :> JTxt("en"))) @@ ("limit_binding" :> None))

Configs ==
    {Asking(Base, Missing(<<"wipe">>), Missing(<<"find", "notes">>)),
     Asking([Base EXCEPT !.opts = Opts("all")], Found, Missing(<<"wipe">>)),
     Asking([Base EXCEPT !.opts = [Opts("read_only") EXCEPT !.include = {Search, Wipe, Find}]],
            Missing(<<"wipe">>), Missing(<<"count">>)),
     Asking([Base EXCEPT !.opts = [Opts("all") EXCEPT !.exclude = {Count}]], Found,
            Missing(<<"count">>)),
     Asking([Base EXCEPT !.opts = Opts("listed"), !.defs = <<Purge>>], Wiped, Missing(<<"search">>)),
     Asking([Base EXCEPT !.defs = <<Rename>>], Renamed, Invoked),
     [Base EXCEPT !.opts = Opts("all"), !.pages = <<<<FindTool, Find2Tool>>>>, !.registers = FALSE],
     [Base EXCEPT !.defs = <<Def(<<"new">>, <<>>)>>, !.registers = FALSE]}
MCScenarios ==
    UNION {Both(s) : s \in Configs}
    \cup UNION {Both(Asking(Base, j[1], j[2])) :
                   j \in {<<All, Xs>>, <<First, Lang>>, <<Second, Invoked>>, <<Counted, Ws>>,
                          <<All, Invoked>>}}
    \cup UNION {Both([Asking(Base, All, Xs) EXCEPT !.faults = {f}]) : f \in {"rpc", "tool", "cancel"}}
    \cup {[Asking(Base, All, Xs) EXCEPT !.faults = f] :
            f \in {{"spawn"}, {"close"}, {"garbage", "twice"}, {"cancel", "twice"}, {"close", "cancel"},
                  {"unreadable"}, {"unreadable", "close"}, {"unreadable", "cancel"}}}
    \cup {Over("streamable_http", [Asking(Base, All, Xs) EXCEPT !.faults = {f}]) :
            f \in {"status", "malformed", "nomatch", "sse"}}
    \cup {Over("tcp", [Base EXCEPT !.registers = FALSE])}

=============================================================================
