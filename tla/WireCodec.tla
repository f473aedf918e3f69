------------------------------ MODULE WireCodec ------------------------------
(***************************************************************************)
(* What the wire does to a value.  The daemon's engine answers with core   *)
(* types; gRPC carries them as protobuf messages (pawrly-proto/conv.rs),   *)
(* where an enum is a number, an absent text is the empty string and an    *)
(* absent message is a missing field; REST carries them as JSON.  Errors   *)
(* travel as a stable code and a rendered message and are rebuilt by       *)
(* EngineError::from_wire.  Fields that every conversion copies are left   *)
(* out of the records, and the codes stand without their PAWRLY_ prefix.   *)
(***************************************************************************)
EXTENDS Integers, Sequences, FiniteSets, Functions, SequencesExt

CONSTANT I64Max   \* the largest value of a signed 64-bit column

ASSUME I64Assumption == I64Max \in Nat \ {0}

-----------------------------------------------------------------------------
\* Option and Result.

None == <<>>
Some(v) == <<v>>

Ok(v) == [ok |-> TRUE, v |-> v]
Err(e) == [ok |-> FALSE, e |-> e]

UnwrapOrDefault(o) == IF o = None THEN "" ELSE o[1]
NoneIfEmpty(s) == IF s = "" THEN None ELSE Some(s)

\* The `?` operator, and collecting a list of fallible conversions.
AndThen(r, F(_)) == IF r.ok THEN F(r.v) ELSE r

Collected(rs) ==
    IF \A i \in DOMAIN rs : rs[i].ok
    THEN Ok([i \in DOMAIN rs |-> rs[i].v])
    ELSE rs[CHOOSE i \in DOMAIN rs :
                /\ ~rs[i].ok
                /\ \A j \in 1..(i - 1) : rs[j].ok]

TryAll(s, F(_)) == Collected([i \in DOMAIN s |-> F(s[i])])
MapAll(s, F(_)) == [i \in DOMAIN s |-> F(s[i])]

-----------------------------------------------------------------------------
\* Errors.  text is the variant's payload; of is the wire form of an error
\* whose code no variant of EngineError has: its code and its message.

Failure(v, text) == [v |-> v, text |-> text, of |-> <<>>]

VariantCode ==
    [UnknownKind |-> "UNKNOWN_KIND", SourceRegistration |-> "SOURCE_REGISTRATION",
     UnknownTable |-> "UNKNOWN_TABLE", UnknownFunction |-> "UNKNOWN_FUNCTION",
     Timeout |-> "TIMEOUT", OutOfMemory |-> "OOM", InvalidSql |-> "INVALID_SQL",
     SemanticPlan |-> "SEMANTIC_PLAN", Cancelled |-> "CANCELLED",
     Protocol |-> "PROTOCOL", Internal |-> "INTERNAL",
     Unsupported |-> "UNSUPPORTED"]

\* The payload of a Safety error is the code of the rule that refused.
SafetyCodes ==
    {"SAFETY_REQUIRED_FILTER", "SAFETY_NO_FILTERS", "SAFETY_TOO_MANY_ROWS",
     "SAFETY_TOO_MANY_PAGES", "SAFETY_UNBOUND_PARAM",
     "SAFETY_PREDICATE_UNSATISFIED"}

Code(e) == IF e.v = "Safety" THEN e.text ELSE VariantCode[e.v]

\* The rendering of an error is its variant's template around its payload.
Display(e) == [prefix |-> e.v, text |-> e.text]
Message(text) == [prefix |-> "", text |-> text]

\* The payloads of Cancelled, Timeout and OutOfMemory do not travel.
PayloadLost == [Cancelled |-> "", Timeout |-> "0", OutOfMemory |-> "0"]

\* Codes that from_wire does not list become an Internal error that quotes
\* them.
NoVariant == {"SOURCE_REGISTRATION"} \cup SafetyCodes
WireVariants == {v \in DOMAIN VariantCode : VariantCode[v] \notin NoVariant}

FromWire(code, message) ==
    IF \E v \in WireVariants : VariantCode[v] = code
    THEN CHOOSE e \in {Failure(v, IF v \in DOMAIN PayloadLost THEN PayloadLost[v]
                                  ELSE message.text) : v \in WireVariants} :
             VariantCode[e.v] = code
    ELSE [v |-> "Internal", text |-> "", of |-> <<code, message.prefix, message.text>>]

\* tonic's status of an engine error; the stable code rides in its metadata.
GrpcCode(e) ==
    CASE e.v \in {"UnknownKind", "UnknownTable", "UnknownFunction", "InvalidSql",
                  "SemanticPlan"} -> "InvalidArgument"
      [] e.v \in {"Safety", "SourceRegistration"} -> "FailedPrecondition"
      [] e.v = "Timeout" -> "DeadlineExceeded"
      [] e.v = "OutOfMemory" -> "ResourceExhausted"
      [] e.v = "Cancelled" -> "Cancelled"
      [] e.v \in {"Protocol", "Internal"} -> "Internal"
      [] e.v = "Unsupported" -> "Unimplemented"

Status(grpc, text) == [grpc |-> grpc, code |-> None, message |-> Message(text)]
EngineErrorToStatus(e) ==
    [grpc |-> GrpcCode(e), code |-> Some(Code(e)), message |-> Display(e)]
StatusToEngineError(s) ==
    FromWire(IF s.code = None THEN "INTERNAL" ELSE s.code[1], s.message)

\* The same for HTTP.
HttpStatus(e) ==
    CASE e.v \in {"UnknownTable", "UnknownFunction"} -> 404
      [] e.v \in {"UnknownKind", "InvalidSql", "SemanticPlan", "Safety",
                  "SourceRegistration"} -> 400
      [] e.v = "Timeout" -> 408
      [] e.v = "OutOfMemory" -> 503
      [] e.v = "Cancelled" -> 499
      [] e.v \in {"Protocol", "Internal"} -> 500
      [] e.v = "Unsupported" -> 501

HttpOk(body) == [status |-> 200, body |-> body]
ErrorResponse(status, code, message) ==
    [status |-> status, body |-> [code |-> code, message |-> message]]
EngineErrorResponse(e) == ErrorResponse(HttpStatus(e), Code(e), Display(e))
RestError(body) == FromWire(body.code, body.message)

\* ConvError, as the clients report it.
Invalid(field) == Err(Failure("Protocol", field))

-----------------------------------------------------------------------------
\* Enums: the number of each variant on the wire.  0 is UNSPECIFIED.

SourceKindWire ==
    [Http |-> 1, File |-> 20, Postgres |-> 21, Mysql |-> 22, Sqlite |-> 23,
     Duckdb |-> 24, Snowflake |-> 30, Iceberg |-> 33, Delta |-> 34,
     Ducklake |-> 35, Mcp |-> 36]
CacheModeWire ==
    [None |-> 1, Ttl |-> 2, Refresh |-> 3, Cron |-> 4, Append |-> 5, Pinned |-> 6]
SourceStatusWire == [Ok |-> 1, Unavailable |-> 2]
FormatWire == [Parquet |-> 1, Csv |-> 2, Json |-> 3]
DimensionTypeWire == [String |-> 1, Number |-> 2, Time |-> 3, Bool |-> 4]
TimeGrainWire ==
    [Hour |-> 1, Day |-> 2, Week |-> 3, Month |-> 4, Quarter |-> 5, Year |-> 6]
FilterOpWire ==
    [Equals |-> 1, NotEquals |-> 2, In |-> 3, NotIn |-> 4, Gt |-> 5, Gte |-> 6,
     Lt |-> 7, Lte |-> 8, InRange |-> 9, Contains |-> 10, StartsWith |-> 11,
     EndsWith |-> 12, IsNull |-> 13, IsNotNull |-> 14]
RelationshipWire == [ManyToOne |-> 1, OneToMany |-> 2, OneToOne |-> 3]
AggLabel ==
    [Sum |-> "sum", Count |-> "count", CountDistinct |-> "count_distinct",
     Avg |-> "avg", Min |-> "min", Max |-> "max", Custom |-> "custom"]

\* The number of a variant that only a newer daemon has.
FutureWire == 99
ToProto(wire, v) == IF v \in DOMAIN wire THEN wire[v] ELSE FutureWire

FromProto(wire, n, field) ==
    IF n \in Range(wire) THEN Ok(CHOOSE v \in DOMAIN wire : wire[v] = n)
    ELSE Invalid(field)

\* What a listing shows of an entry whose mode it does not know.
CacheModeFromProto(n, expires) ==
    IF n \in Range(CacheModeWire)
    THEN CHOOSE m \in DOMAIN CacheModeWire : CacheModeWire[m] = n
    ELSE IF expires = None THEN "Pinned" ELSE "Ttl"

\* A filter whose operator is not known is read as an equality.
FilterToProto(f) == [f EXCEPT !.op = ToProto(FilterOpWire, @)]
FilterFromProto(f) ==
    [f EXCEPT !.op = IF @ \in Range(FilterOpWire)
                     THEN CHOOSE o \in DOMAIN FilterOpWire : FilterOpWire[o] = f.op
                     ELSE "Equals"]

\* An optional format is UNSPECIFIED when absent.
OptFormatToProto(f) == IF f = None THEN 0 ELSE FormatWire[f[1]]
FormatFromProto(n) ==
    IF n \in Range(FormatWire)
    THEN Some(CHOOSE f \in DOMAIN FormatWire : FormatWire[f] = n)
    ELSE None

-----------------------------------------------------------------------------
\* Messages.

\* A name is <schema>.<table>; each part is the list of its dot-free pieces.
TableDisplay(n) == n.schema \o n.table
TableParse(s) ==
    IF Len(s) < 2 \/ s[1] = "" \/ Tail(s) = <<"">> THEN None
    ELSE Some([schema |-> <<s[1]>>, table |-> Tail(s)])

MaterializeSpecToProto(s) == [s EXCEPT !.format = OptFormatToProto(@)]
MaterializeSpecFromProto(s) ==
    IF s.kind = "Inline" /\ FormatFromProto(s.format) = None
    THEN Err(Status("InvalidArgument", "inline materialize requires a format"))
    ELSE Ok([s EXCEPT !.format = FormatFromProto(@)])

ColumnToProto(c) == [c EXCEPT !.description = UnwrapOrDefault(@)]
ColumnFromProto(c) == [c EXCEPT !.description = NoneIfEmpty(@)]

TableInfoToProto(t) ==
    [t EXCEPT !.name = Some(@), !.kind = ToProto(SourceKindWire, @),
              !.description = UnwrapOrDefault(@)]
TableInfoFromProto(t) ==
    IF t.name = None THEN Invalid("TableInfo.name")
    ELSE AndThen(FromProto(SourceKindWire, t.kind, "TableInfo.kind"),
                 LAMBDA kind : Ok([t EXCEPT !.name = @[1], !.kind = kind,
                                            !.description = NoneIfEmpty(@)]))

SourceInfoToProto(s) ==
    [s EXCEPT !.kind = ToProto(SourceKindWire, @), !.status = SourceStatusWire[@],
              !.status_detail = UnwrapOrDefault(@)]
WithStatus(s, kind, status) ==
    IF ~kind.ok THEN kind
    ELSE IF ~status.ok THEN status
    ELSE Ok([s EXCEPT !.kind = kind.v, !.status = status.v,
                      !.status_detail = NoneIfEmpty(@)])
SourceInfoFromProto(s) ==
    WithStatus(s, FromProto(SourceKindWire, s.kind, "SourceInfo.kind"),
                  FromProto(SourceStatusWire, s.status, "SourceInfo.status"))

\* Cache entries, written and read field by field by the service and the
\* client; an entry without a name is skipped.
EntryToProto(e) ==
    [e EXCEPT !.name = Some(@), !.mode = ToProto(CacheModeWire, @)]
EntriesFromProto(es) ==
    MapAll(SelectSeq(es, LAMBDA e : e.name # None),
           LAMBDA e : [e EXCEPT !.name = @[1], !.mode = CacheModeFromProto(@, e.expires)])

QueryRequestToProto(r) == [r EXCEPT !.trace_id = UnwrapOrDefault(@)]
QueryRequestFromProto(r) == [r EXCEPT !.trace_id = NoneIfEmpty(@), !.context = "InProcess"]

SemanticQueryToProto(q) ==
    [q EXCEPT !.filters = MapAll(@, FilterToProto),
              !.order_by = MapAll(@, LAMBDA o : [o EXCEPT !.direction = (@ = "Desc")])]
SemanticQueryFromProto(q) ==
    [q EXCEPT !.filters = MapAll(@, FilterFromProto),
              !.order_by = MapAll(@, LAMBDA o : [o EXCEPT !.direction =
                                                     IF @ THEN "Desc" ELSE "Asc"])]

ModelInfoToProto(m) == [m EXCEPT !.description = UnwrapOrDefault(@)]
ModelInfoFromProto(m) == [m EXCEPT !.description = NoneIfEmpty(@)]

DimensionToProto(d) ==
    [d EXCEPT !.type = ToProto(DimensionTypeWire, @), !.description = UnwrapOrDefault(@),
              !.grains = MapAll(@, LAMBDA g : ToProto(TimeGrainWire, g))]
DimensionFromProto(d) ==
    AndThen(FromProto(DimensionTypeWire, d.type, "Dimension.type"),
            LAMBDA type :
                LET grains == TryAll(d.grains,
                                     LAMBDA g : FromProto(TimeGrainWire, g, "Dimension.grains"))
                IN  IF ~grains.ok THEN grains
                    ELSE Ok([d EXCEPT !.type = type, !.grains = grains.v,
                                      !.description = NoneIfEmpty(@)]))

\* Only a custom aggregation carries its SQL.
MeasureToProto(m) ==
    [m EXCEPT !.agg = IF @ \in DOMAIN AggLabel THEN AggLabel[@] ELSE "future",
              !.sql = IF m.agg = "Custom" THEN @ ELSE "",
              !.format = UnwrapOrDefault(@), !.description = UnwrapOrDefault(@)]
MeasureFromProto(m) ==
    AndThen(FromProto(AggLabel, m.agg, "Measure.agg"),
            LAMBDA agg : Ok([m EXCEPT !.agg = agg, !.format = NoneIfEmpty(@),
                                      !.description = NoneIfEmpty(@)]))

RelationshipToProto(r) == [r EXCEPT !.kind = ToProto(RelationshipWire, @)]
RelationshipFromProto(r) ==
    AndThen(FromProto(RelationshipWire, r.kind, "Relationship.kind"),
            LAMBDA kind : Ok([r EXCEPT !.kind = kind]))

SegmentToProto(s) ==
    [s EXCEPT !.description = UnwrapOrDefault(@), !.filters = MapAll(@, FilterToProto)]
SegmentFromProto(s) ==
    [s EXCEPT !.description = NoneIfEmpty(@), !.filters = MapAll(@, FilterFromProto)]

ModelToProto(m) ==
    [m EXCEPT !.description = UnwrapOrDefault(@),
              !.dimensions = MapAll(@, DimensionToProto),
              !.measures = MapAll(@, MeasureToProto),
              !.relationships = MapAll(@, RelationshipToProto),
              !.segments = MapAll(@, SegmentToProto)]
WithParts(m, dims, measures, rels) ==
    IF ~dims.ok THEN dims
    ELSE IF ~measures.ok THEN measures
    ELSE IF ~rels.ok THEN rels
    ELSE Ok([m EXCEPT !.description = NoneIfEmpty(@), !.dimensions = dims.v,
                      !.measures = measures.v, !.relationships = rels.v,
                      !.segments = MapAll(@, SegmentFromProto)])
ModelFromProto(m) ==
    WithParts(m, TryAll(m.dimensions, DimensionFromProto),
                 TryAll(m.measures, MeasureFromProto),
                 TryAll(m.relationships, RelationshipFromProto))

\* A function's kind travels as its label; an unknown label reads as http.
FunctionKindLabel == [Http |-> "http", Mcp |-> "mcp", File |-> "file"]
FunctionToProto(f) ==
    [f EXCEPT !.kind = IF @ \in DOMAIN FunctionKindLabel THEN FunctionKindLabel[@] ELSE "future"]
FunctionFromProto(f) ==
    [f EXCEPT !.kind = CASE @ = "mcp" -> "Mcp" [] @ = "file" -> "File" [] OTHER -> "Http"]

-----------------------------------------------------------------------------
\* Rows.  A cell is a value of its column's Arrow type.  JSON keeps integers,
\* floats and booleans; everything else, a float that is not finite
\* included, is its text.

Cell(k, n) == [k |-> k, n |-> n]
CellToJson(v) ==
    CASE v.k \in {"null", "bool", "float", "str"} -> v
      [] v.k \in {"int", "uint"} -> Cell("int", v.n)
      [] v.k = "nan" -> Cell("str", v.n)

UpTo(s, max) == IF Len(s) <= max THEN s ELSE SubSeq(s, 1, max)

\* format_batches: at most max rows, and whether there were more.
FormatBatches(batches, max) ==
    [columns |-> batches # <<>>,
     rows |-> MapAll(UpTo(FlattenSeq(batches), max), CellToJson),
     truncated |-> Len(FlattenSeq(batches)) > max]

\* The client's guess of a column's type from its JSON cells, and the cells
\* it builds: an integer above the signed range wraps.
ColumnType(kinds) ==
    CASE \/ "str" \in kinds
         \/ "bool" \in kinds /\ kinds \cap {"int", "float"} # {} -> "str"
      [] OTHER ->
            IF "float" \in kinds THEN "float"
            ELSE IF "bool" \in kinds THEN "bool"
            ELSE IF "int" \in kinds THEN "int"
            ELSE "null"
AsI64(n) == IF n > I64Max THEN n - 2 * (I64Max + 1) ELSE n
BuildCell(type, v) ==
    IF v.k = "null" \/ type = "null" THEN Cell("null", 0)
    ELSE Cell(type, IF type = "int" THEN AsI64(v.n) ELSE v.n)
BuildColumn(cells) ==
    MapAll(cells, LAMBDA v : BuildCell(ColumnType({cells[i].k : i \in DOMAIN cells}), v))
\* Arrow builds no batch without a column, not even one without rows.
JsonRowsToBatch(columns, rows) ==
    IF columns THEN Ok(BuildColumn(rows)) ELSE Err(Failure("Protocol", "rest query"))

=============================================================================
