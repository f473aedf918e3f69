------------------------------ MODULE McpTables ------------------------------
(***************************************************************************)
(* The tables of an MCP source (pawrly-sources/mcp: synth.rs, provider.rs, *)
(* function.rs; pawrly-schema): from the tools a server advertises and the *)
(* `tables:` of the config to table specs, and from a tools/call result to *)
(* the rows of a batch.  JSON values are those of HttpValues; a row of a   *)
(* batch is a function from its columns' names to their cells.             *)
(*                                                                         *)
(* A JSON schema is [ref, type, format, props, items]: ref names a schema  *)
(* of the document ("" for none), type is "" when absent, props is empty   *)
(* when there are no `properties` (a schema that has the key has some).  A *)
(* tool's name is the list of its words and what separates them; types are *)
(* written by one of their synonyms.                                       *)
(***************************************************************************)
EXTENDS HttpValues, FiniteSetsExt, TLC

None == <<>>
Some(v) == <<v>>
OrElse(o, default) == IF o = None THEN default ELSE o[1]
Text(j) == IF j.t = "txt" THEN j.v ELSE ""
IsTrue(j) == j.t = "bool" /\ j.v
Given(j) == j.t # "absent"
UpTo(s, limit) == IF limit = None \/ Len(s) <= limit[1] THEN s ELSE SubSeq(s, 1, limit[1])
InSome(s, P(_)) == \E i \in DOMAIN s : P(s[i])
FirstOf(names, present) ==
    LET found == SelectSeq(names, LAMBDA n : n \in present)
    IN  IF found = <<>> THEN None ELSE Some(Head(found))
Keys(path) == [i \in DOMAIN path |-> Key(path[i])]

-----------------------------------------------------------------------------
\* Schemas.

\* deref follows at most 32 references; one that leads nowhere is kept.
Target(doc, s) == IF s.ref \in DOMAIN doc.defs THEN doc.defs[s.ref] ELSE s
Deref(doc, schema) ==
    LET after[refs \in 0..32] ==
            IF refs = 0 THEN schema
            ELSE CHOOSE next \in {Target(doc, s) : s \in {after[refs - 1]}} : TRUE
    IN  after[32]

IsObject(s) == s.type = "object" \/ (s.type = "" /\ s.props # <<>>)

NumberType(s) ==
    IF s.type = "integer" THEN (IF s.format = "int32" THEN "int" ELSE "bigint")
    ELSE (IF s.format = "float" THEN "float" ELSE "double")
ColumnType(s) ==
    CASE s.type \in {"integer", "number"} -> NumberType(s)
      [] s.type = "boolean" -> "bool"
      [] s.type = "string" -> (CASE s.format = "date" -> "date"
                                 [] s.format = "date-time" -> "timestamp"
                                 [] OTHER -> "varchar")
      [] OTHER -> "json"
ParamType(s) ==
    CASE s.type \in {"integer", "number"} -> NumberType(s)
      [] s.type = "boolean" -> "bool"
      [] OTHER -> "varchar"

\* The property that holds the rows: a well-known name, else the only array.
MetadataFields == {"total_count", "incomplete_results", "has_more", "next", "previous"}
RowsArray(doc, props) ==
    LET arrays == {p \in DOMAIN props : Deref(doc, props[p]).type = "array"}
        known == FirstOf(<<"items", "data", "results", "rows">>, arrays)
        others == arrays \ MetadataFields
    IN  IF known # None THEN known
        ELSE IF Cardinality(others) = 1 THEN Some(CHOOSE p \in others : TRUE)
        ELSE None

-----------------------------------------------------------------------------
\* Specs of synthesized tables.

ResultColumn == [name |-> "result", type |-> "json", path |-> <<>>]
ColumnsOf(doc, item) ==
    IF item.props = <<>> THEN <<ResultColumn>>
    ELSE SetToSeq({[name |-> p, type |-> ColumnType(Deref(doc, item.props[p])),
                    path |-> <<p>>] : p \in DOMAIN item.props})

OutputColumns(doc) ==
    LET schema == Deref(doc, doc.schema)
        rows == RowsArray(doc, schema.props)
        Items(s) == IF s.items = None THEN <<ResultColumn>>
                    ELSE ColumnsOf(doc, Deref(doc, s.items[1]))
    IN  CASE schema.type = "array" -> [rows_path |-> <<>>, columns |-> Items(schema)]
          [] IsObject(schema) /\ schema.props # <<>> ->
                IF rows # None
                THEN [rows_path |-> rows, columns |-> Items(Deref(doc, schema.props[rows[1]]))]
                ELSE [rows_path |-> <<>>, columns |-> ColumnsOf(doc, schema)]
          [] OTHER -> [rows_path |-> <<>>, columns |-> <<ResultColumn>>]

ToolArgs(tool) ==
    SetToSeq({[name |-> p, type |-> ParamType(tool.input[p]),
               required |-> p \in tool.required, tool_arg |-> None] : p \in DOMAIN tool.input})
WireName(arg) == OrElse(arg.tool_arg, arg.name)

InferLimitBinding(tool) ==
    LET name == FirstOf(<<"limit", "first", "page_size", "pageSize", "maxResults">>,
                        DOMAIN tool.input)
    IN  IF name = None THEN None ELSE Some([tool_arg |-> name[1], max |-> None])
InferPagination(tool) ==
    LET name == FirstOf(<<"cursor", "after", "startCursor", "page_token">>, DOMAIN tool.input)
    IN  IF name = None THEN None
        ELSE Some([cursor_arg |-> name[1], response_cursor_path |-> <<"nextCursor">>])

\* The words of a name, whatever separated them.
Sanitize(name) == IF name.words = <<>> THEN <<"tool">> ELSE name.words

TableFromTool(tool) ==
    LET output == IF tool.output = None THEN [rows_path |-> <<>>, columns |-> <<ResultColumn>>]
                  ELSE OutputColumns(tool.output[1])
    IN  [name |-> Sanitize(tool.name), tool |-> tool.name, args |-> ToolArgs(tool),
         columns |-> output.columns, tool_args |-> <<>>,
         limit_binding |-> InferLimitBinding(tool), pagination |-> InferPagination(tool),
         rows_path |-> output.rows_path]

\* Mutant: `include` admits a tool of its own.
Admit_Included(tool, opts) ==
    \/ tool.name \in opts.include
    \/ /\ tool.destructive # Some(TRUE)
       /\ \/ opts.expose = "read_only" /\ tool.read_only = Some(TRUE)
          \/ opts.expose = "all"

\* Whether a tool is exposed without being declared.
Admit(tool, opts) ==
    /\ tool.destructive # Some(TRUE)
    /\ \/ opts.expose = "read_only" /\ tool.read_only = Some(TRUE)
       \/ opts.expose = "all"

\* `include` and `exclude` only narrow.
SynthesizeTools(tools, opts) ==
    LET Named(t) == t.name \notin opts.exclude /\ (opts.include # {} => t.name \in opts.include)
    IN  Pick([i \in DOMAIN tools |-> TableFromTool(tools[i])],
             {i \in DOMAIN tools : Named(tools[i]) /\ Admit(tools[i], opts)})

\* A patch gives some fields of a spec: objects merge key by key, anything
\* else replaces, and null clears a field that may be absent.
OptionalFields == {"limit_binding", "pagination"}
DeepMerge(spec, patch) ==
    [f \in DOMAIN spec |->
        IF f \notin DOMAIN patch THEN spec[f]
        ELSE IF patch[f] = None /\ f \in OptionalFields THEN None
        ELSE IF f \in OptionalFields /\ spec[f] # None THEN Some(patch[f][1] @@ spec[f][1])
        ELSE IF f = "tool_args" THEN patch[f] @@ spec[f]
        ELSE patch[f]]

NewTable(name) ==
    [name |-> name, tool |-> None, args |-> <<>>, columns |-> <<>>, tool_args |-> <<>>,
     limit_binding |-> None, pagination |-> None, rows_path |-> <<>>]

\* A `tables:` entry patches the table of its name or defines a new one,
\* which must name its tool; <<>> stands for the error.
ApplyTableDef(tables, def) ==
    IF InSome(tables, LAMBDA t : t.name = def.name)
    THEN Some([i \in DOMAIN tables |-> IF tables[i].name = def.name
                                       THEN DeepMerge(tables[i], def.patch) ELSE tables[i]])
    ELSE IF "tool" \notin DOMAIN def.patch THEN None
    ELSE Some(Append(tables, DeepMerge(NewTable(def.name), def.patch)))

ApplyTableDefs(tables, defs) ==
    LET applied[i \in 0..Len(defs)] ==
            IF i = 0 THEN Some(tables)
            ELSE IF applied[i - 1] = None THEN None ELSE ApplyTableDef(applied[i - 1][1], defs[i])
    IN  applied[Len(defs)]

-----------------------------------------------------------------------------
\* Arguments of a call.

\* extract_eq and bound_args: equality filters on arguments, as JSON.
BoundArgs(spec, filters) ==
    [a \in {f \in DOMAIN filters : InSome(spec.args, LAMBDA x : x.name = f)} |-> filters[a]]

\* typed_json and bind_args: the texts of a function's arguments, by type.
TypedJson(type, text) ==
    CASE type \in {"int", "bigint"} /\ text.t = "str" -> JNum(text.v)
      [] type \in {"double", "float"} /\ text.t = "str" -> JFlt(text.v)
      [] type = "bool" /\ Text(text) \in {"true", "false"} -> JBool(text.v = "true")
      [] OTHER -> text
BindArgs(args, params) ==
    LET given == {i \in DOMAIN args : args[i].name \in DOMAIN params}
    IN  [a \in {args[i].name : i \in given} |->
            LET i == CHOOSE j \in given : args[j].name = a
            IN  TypedJson(args[i].type, params[a])]

\* Static arguments, then the bound ones by wire name, then the limit.
BaseArgs(spec, bound, limit) ==
    LET given == SelectSeq(spec.args, LAMBDA a : a.name \in DOMAIN bound)
        wired == [w \in {WireName(given[i]) : i \in DOMAIN given} |->
                     LET i == Max({j \in DOMAIN given : WireName(given[j]) = w})
                     IN  bound[given[i].name]]
        max == spec.limit_binding[1].max
        capped == IF max = None \/ limit[1] < max[1] THEN limit[1] ELSE max[1]
    IN  (IF spec.limit_binding = None \/ limit = None THEN <<>>
         ELSE spec.limit_binding[1].tool_arg :> JNum(capped)) @@ wired @@ spec.tool_args

PageArgs(spec, base, cursor) ==
    IF spec.pagination = None \/ cursor = None THEN base
    ELSE (spec.pagination[1].cursor_arg :> JTxt(cursor[1])) @@ base

-----------------------------------------------------------------------------
\* Results.

\* A text that is the encoding of a JSON value.
Encoded(j) == [t |-> "encoded", v |-> j]
FromStr(text) ==
    CASE text.t = "encoded" -> text.v
      [] text.t = "str" -> JNum(text.v)
      [] OTHER -> text

\* structuredContent, else the content's only text, parsed if it can be.
StructuredResult(result) ==
    LET content == Member(result, Key("content"))
        blocks == SelectSeq(content.v, LAMBDA c :
                      Text(Member(c, Key("type"))) = "text" /\ Given(Member(c, Key("text"))))
    IN  CASE Given(Member(result, Key("structuredContent"))) ->
                Member(result, Key("structuredContent"))
          [] OTHER -> IF content.t # "arr" THEN JNull
                      ELSE IF Len(blocks) = 0 THEN content
                      ELSE IF Len(blocks) = 1 THEN FromStr(Member(blocks[1], Key("text")))
                      ELSE [t |-> "joined", v |-> blocks]

RowsFrom(structured, path) ==
    LET target == Walk(structured, Keys(path))
        arrays == {k \in DOMAIN target.v : target.v[k].t = "arr"}
    IN  CASE target.t \in {"absent", "null"} -> <<>>
          [] target.t = "arr" -> target.v
          [] target.t = "obj" -> IF Cardinality(arrays) = 1
                                 THEN target.v[CHOOSE k \in arrays : TRUE].v
                                 ELSE <<target>>
          [] OTHER -> <<target>>

NextCursor(spec, result) ==
    IF spec.pagination = None THEN None
    ELSE LET at == Walk(result, Keys(spec.pagination[1].response_cursor_path))
         IN  IF Text(at) = "" THEN None ELSE Some(at.v)

\* column_array: numbers and booleans that do not fit are null, and every
\* other type holds the text of the value.
McpCell(type, j) ==
    CASE j.t \in {"absent", "null"} -> JNull
      [] type \in {"int", "bigint"} ->
            IF j.t \in {"num", "str"} /\ j.v <= Max64 THEN JNum(j.v) ELSE JNull
      [] type \in {"float", "double"} ->
            IF j.t \in {"num", "flt", "str"} THEN JFlt(j.v) ELSE JNull
      [] type \in {"bool", "boolean"} -> IF j.t = "bool" THEN j ELSE JNull
      [] OTHER -> IF IsString(j) \/ j.t = "encoded" THEN j
                  ELSE IF j.t = "num" THEN JStr(j.v) ELSE Encoded(j)

\* An output column hides the argument of its name.
ArgIsShadowed(spec, arg) == InSome(spec.columns, LAMBDA c : c.name = arg.name)
EchoedArgs(spec) == SelectSeq(spec.args, LAMBDA a : ~ArgIsShadowed(spec, a))
AsColumns(columns, Value(_)) ==
    [n \in {columns[i].name : i \in DOMAIN columns} |->
        LET c == columns[CHOOSE i \in DOMAIN columns : columns[i].name = n]
        IN  McpCell(c.type, Value(c))]
BoundOr(bound, name) == IF name \in DOMAIN bound THEN bound[name] ELSE JNull

McpBatch(spec, bound, rows) ==
    [r \in DOMAIN rows |->
        AsColumns(EchoedArgs(spec), LAMBDA a : BoundOr(bound, a.name))
        @@ AsColumns(spec.columns, LAMBDA c : Walk(rows[r], Keys(c.path)))]

\* A function's columns are those it declares; `source: arg` echoes.
BuildFunctionBatch(returns, bound, rows) ==
    [r \in DOMAIN rows |->
        AsColumns(returns, LAMBDA c : IF c.source = Some("arg") THEN BoundOr(bound, c.name)
                                      ELSE Walk(rows[r], Keys(c.path)))]

\* The spec of a function: its body, with the arguments it declares.
FunctionSpec(def) ==
    [DeepMerge(NewTable(def.name), def.body) EXCEPT !.args = def.args, !.columns = <<>>]

=============================================================================
