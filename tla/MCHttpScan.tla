----------------------------- MODULE MCHttpScan -----------------------------
(***************************************************************************)
(* Queries for HttpScan: four rows of two owners behind pages of two, so   *)
(* that owner 1 ends in a short page, owner 2 fits in one and all of them  *)
(* fill two pages exactly.                                                 *)
(***************************************************************************)
EXTENDS HttpScan, TLC

\* A row, with its size in the places an expression can find it.
Row(i, o, s) ==
  LET n == JNum(s) IN
  JObj([id |-> JNum(i), owner |-> JNum(o), size |-> n, only |-> JArr(<<n>>),
        tags |-> JArr(<<JObj([key |-> JTxt("kind"), value |-> JNull]),
                        JObj([key |-> JTxt("size"), value |-> n])>>),
        items |-> JArr(<<JObj([n |-> n])>>), by |-> JObj(("1" :> n) @@ ("2" :> n)), seconds |-> JFlt(s)])
Data == <<Row(1, 1, 5), Row(2, 2, 8), Row(3, 1, 6), Row(4, 1, 5)>>

\* The rows and all that is in them.
Within(j) == CASE j.t = "arr" -> Range(j.v) [] j.t = "obj" -> {j.v[k] : k \in DOMAIN j.v} [] OTHER -> {}
Deeper(J) == J \cup UNION {Within(j) : j \in J}
MCJson == Deeper(Deeper(Deeper(Range(Data))))

Param(name) == [name |-> name, type |-> "bigint", required |-> FALSE, filterable |-> FALSE,
                explode |-> FALSE, default |-> None, derive |-> [kind |-> "none"],
                accepts |-> {}, emit |-> EmptyMap]
Owner == Param("owner")
Since == [Param("id") EXCEPT !.accepts = {">"}, !.emit = (">" :> "since")]
Col(name, type) == [name |-> name, type |-> type, source |-> "name"]
Id == Col("id", "bigint")
Size == [name |-> "size", type |-> "varchar", source |-> "expr",
         expr |-> <<[kind |-> "path", path |-> <<Key("bytes")>>],
                    [kind |-> "path", path |-> <<Key("size")>>],
                    [kind |-> "coalesce", exprs |-> <<1, 2>>]>>]
NoBody == [kind |-> "none", params |-> {}]
JsonBody == [kind |-> "json", params |-> {"owner"}]

Table == [params |-> <<Owner, Since>>, endpoint |-> {}, requests |-> <<>>, body |-> NoBody,
          columns |-> <<Id, Size, Col("owner", "bigint")>>,
          response |-> [path |-> <<Key("data")>>, reshape |-> "none", allow_404_empty |-> FALSE,
                        arg |-> "", error |-> [status |-> {[op |-> ">=", code |-> 400]}, path |-> <<>>]],
          pagination |-> [type |-> "none"]]
PerOwner == [Table EXCEPT !.endpoint = {"owner"}, !.columns = <<Id, Size>>,
              !.params = <<[Owner EXCEPT !.required = TRUE, !.filterable = TRUE], Since>>]
Repeated == [Table EXCEPT !.params[1].explode = TRUE]
Posted == [Table EXCEPT !.body = JsonBody]
Either == [Table EXCEPT !.requests = <<[when_filters |-> {"owner"}, endpoint |-> {"owner"}, body |-> NoBody]>>]

Schemes == {[type |-> "none"], [type |-> "page", start |-> 1, size |-> 2],
            [type |-> "page", start |-> 0, size |-> None], [type |-> "offset", size |-> 2],
            [type |-> "cursor"], [type |-> "row_cursor", more |-> FALSE],
            [type |-> "row_cursor", more |-> TRUE], [type |-> "link_header"]}
BodyCursor == [type |-> "body_cursor"]
Paged == Schemes \ {[type |-> "none"]}

Cmp(col, op, n) == [f |-> "cmp", col |-> col, op |-> op, val |-> n, flipped |-> FALSE]
In(col, ns) == [f |-> "in", col |-> col, vals |-> ns, negated |-> FALSE]
Filters == {<<>>, <<Cmp("owner", "=", 1)>>, <<In("owner", <<2, 1>>)>>,
            <<[f |-> "or", eqs |-> <<<<"owner", 1>>, <<"owner", 2>>>>]>>,
            <<[Cmp("id", "<", 1) EXCEPT !.flipped = TRUE], Cmp("owner", "=", 1)>>,
            <<Cmp("id", "<", 4), Cmp("owner", "=", 1)>>,
            <<[In("id", <<2>>) EXCEPT !.negated = TRUE]>>, <<[In("owner", <<2>>) EXCEPT !.negated = TRUE]>>}

Place(o, l, class) == [scheme |-> "https", origin |-> o, named |-> o, listed |-> l, class |-> class]
\* The base; another port of its host; a listed host; other hosts.
Targets == [home |-> Place(TRUE, FALSE, "name"), port |-> [Place(FALSE, FALSE, "name") EXCEPT !.named = TRUE],
            mirror |-> Place(FALSE, TRUE, "name"),
            other |-> Place(FALSE, FALSE, "name"), intranet |-> Place(FALSE, FALSE, "private"),
            metadata |-> Place(FALSE, TRUE, "link_local")]

Base == [spec |-> Table, filters |-> <<>>, limit |-> None, maxPages |-> 3, maxRows |-> None,
         retry |-> [max_retries |-> 1, base |-> 1, max |-> 5], now |-> 100,
         rateLimit |-> [extra_statuses |-> {403}, remaining_header |-> TRUE, reset_header |-> TRUE],
         mode |-> "table", auth |-> "ok", authBody |-> FALSE, targets |-> Targets,
         driver |-> <<>>, joinType |-> "inner", joinKey |-> "owner", above |-> <<>>,
         rawValues |-> {1, 2}, implied |-> {}, resolves |-> {"public"}, redirects |-> {},
         rawTargets |-> <<"home", "home">>, args |-> EmptyMap, maxFaults |-> 0, pathText |-> <<"data", "rest">>,
         api |-> [data |-> Data, size |-> 2, behaviour |-> "honest", fail |-> 503, linkTo |-> "home", quota |-> FALSE,
                  select |-> "owner" :> [field |-> "owner", op |-> "="] @@ "since" :> [field |-> "id", op |-> ">"]]]

\* Filters, paging schemes, limits.
QueryCases ==
  {[Base EXCEPT !.spec = [t EXCEPT !.pagination = s], !.filters = f, !.limit = l,
                !.api.size = IF s.type = "none" THEN 4 ELSE 2] :
     t \in {Table, PerOwner, Repeated, Either}, s \in Schemes, f \in Filters, l \in {None, 1, 3}}
  \cup {[Base EXCEPT !.spec = [Posted EXCEPT !.pagination = BodyCursor], !.filters = f, !.limit = l] :
          f \in Filters, l \in {None, 1, 3}}

\* Parameters with a default, and computed from the clock or from another.
DefaultCases ==
  {[Base EXCEPT !.spec.params[1].default = 1, !.api.size = 4,
                !.filters = f, !.implied = IF f = <<>> THEN {Cmp("owner", "=", 1)} ELSE {}] :
     f \in {<<>>, <<Cmp("owner", "=", 2)>>}}
  \cup {[Base EXCEPT !.spec.params = <<Owner, [Param("code") EXCEPT !.default = 12],
                                      [Param("since") EXCEPT !.derive = d]>>,
                     !.api.size = 4, !.implied = {Cmp("id", ">", 2)}] :
          d \in {[kind |-> "ago", seconds |-> 98], [kind |-> "split", from |-> "code"]}}

\* Caps, and servers that page for ever.
CapCases ==
  {[Base EXCEPT !.spec = [t EXCEPT !.pagination = s], !.filters = f, !.limit = l,
                !.maxPages = p, !.maxRows = r, !.api.behaviour = b] :
     t \in {Table, PerOwner}, s \in Paged, f \in {<<>>, <<In("owner", <<1, 2>>)>>},
     l \in {None, 2, 3}, p \in {1, 2}, r \in {None, 2, 3}, b \in {"honest", "endless", "stuck"}}

EmptyCases == {[Base EXCEPT !.spec.pagination = s, !.api.data = <<>>, !.api.behaviour = "endless"] : s \in Paged}

\* Failures the table declares or not, with quota headers or without.
FaultCases ==
  {[Base EXCEPT !.spec = [PerOwner EXCEPT !.pagination = s, !.response.allow_404_empty = e,
                                          !.response.error.status = IF d THEN @ ELSE {}],
                !.filters = <<In("owner", <<1, 2>>)>>, !.api.fail = st,
                !.rateLimit.reset_header = h, !.api.quota = TRUE, !.maxFaults = 2,
                !.api.size = IF s.type = "none" THEN 4 ELSE 2] :
     s \in {[type |-> "none"], [type |-> "cursor"]}, e \in BOOLEAN, d \in BOOLEAN, h \in BOOLEAN,
     st \in {403, 404, 429, 500}}

\* Dependent joins.
JoinCases ==
  {[Base EXCEPT !.mode = "join", !.spec = [PerOwner EXCEPT !.pagination = [type |-> "cursor"]],
                !.driver = d, !.filters = f, !.above = a, !.joinType = j, !.maxFaults = 1] :
     d \in {<<>>, <<1, NoText, 1, 2>>, <<3, 2>>}, f \in {<<>>, <<Cmp("id", ">", 1)>>},
     a \in {<<>>, <<[op |-> "global_limit", fetch |-> 1, skip |-> 0]>>,
            <<[op |-> "global_limit", fetch |-> 1, skip |-> 1], [op |-> "prefix", fetch |-> None]>>,
            <<[op |-> "global_limit", fetch |-> 1, skip |-> 0], [op |-> "sort"]>>},
     j \in {"inner", "left"}}

\* Table functions: their arguments, one of which names the rows' path.
FunctionCases ==
  {[Base EXCEPT !.mode = "function", !.limit = l, !.maxRows = 1, !.args = a,
                !.spec = [Table EXCEPT !.response.arg = "at", !.pagination = [type |-> "page", start |-> 1, size |-> 2]]] :
     l \in {None, 1, 3}, a \in {"owner" :> 1, "owner" :> 1 @@ "at" :> 1}}

\* Computed columns that all find the size, in columns of several types, and
\* the reshapes.
Under(k) == <<Key(k)>>
Path(k) == [kind |-> "path", path |-> Under(k)]
Exprs ==
  {<<Path("size")>>, <<[kind |-> "null"], Path("size"), [kind |-> "coalesce", exprs |-> <<1, 2>>]>>,
   <<Path("seconds"), [kind |-> "to_timestamp", expr |-> 1, unit |-> "millis"]>>,
   <<[kind |-> "join", path |-> Under("only")], [kind |-> "to_timestamp", expr |-> 1, unit |-> "seconds"]>>,
   <<[kind |-> "map_join", path |-> Under("items"), item_path |-> Under("n")]>>,
   <<[kind |-> "first_of", path |-> Under("items"), item_path |-> Under("n")]>>,
   <<[kind |-> "lookup", path |-> Under("tags"), key |-> "size"]>>,
   <<[kind |-> "lookup_join", path |-> Under("tags"), key |-> "size"]>>,
   <<[kind |-> "pick", path |-> Under("by"), by |-> "owner", item_path |-> <<>>]>>,
   <<Path("bytes"), [kind |-> "if_present", check |-> 1, value |-> JNum(0)], Path("size"),
     [kind |-> "from_base64", expr |-> 3], [kind |-> "replace", expr |-> 3, from |-> "x", to |-> "y"],
     [kind |-> "first_of", path |-> Under("tags"), item_path |-> Under("value")],
     [kind |-> "lookup", path |-> Under("tags"), key |-> "size"], [kind |-> "literal", value |-> JNum(0)],
     [kind |-> "coalesce", exprs |-> <<2, 4, 5, 6, 7, 8>>]>>}
ColumnCases ==
  {[Base EXCEPT !.spec = [PerOwner EXCEPT !.columns = <<Id, [Size EXCEPT !.expr = e, !.type = t]>>],
                !.filters = <<In("owner", <<2, 1>>)>>, !.api.size = 4] :
     e \in Exprs, t \in {"varchar", "bigint", "int", "double"}}
  \cup {[Base EXCEPT !.spec.response.reshape = "dict_entries", !.spec.pagination = [type |-> "cursor"]],
        [Base EXCEPT !.spec.response.reshape = "series_points", !.spec.pagination = [type |-> "offset", size |-> 2],
                     !.spec.columns = <<[Id EXCEPT !.source = "path"] @@ [path |-> Under("timestamp")],
                                        [Col("size", "int") EXCEPT !.source = "path"] @@ [path |-> Under("value")],
                                        Col("owner", "bigint")>>]}

\* The raw table.
RawFilters == {<<>>, <<Cmp("path", "=", 1)>>, <<In("path", <<1, 2>>), Cmp("query", "=", 1)>>,
               <<[f |-> "or", eqs |-> <<<<"path", 1>>, <<"path", 2>>>>], In("query", <<1, 2>>)>>}
RawCases ==
  {[Base EXCEPT !.mode = "raw", !.filters = f, !.auth = a, !.maxFaults = 1] :
     f \in RawFilters, a \in {"none", "ok", "unavailable"}}
  \cup {[Base EXCEPT !.mode = "raw", !.filters = <<In("path", <<1, 2>>)>>, !.auth = a, !.rawTargets[2] = to,
                     !.redirects = r, !.resolves = {x}] :
          a \in {"none", "ok"}, to \in DOMAIN Targets, r \in {{}, {"mirror", "other"}}, x \in {"public", "private"}}
  \cup {[Base EXCEPT !.mode = "raw", !.filters = <<In("path", <<1, 2>>)>>, !.rawTargets = <<"home">>]}

\* Where requests go, and with what.
Linked == [Base EXCEPT !.spec.pagination = [type |-> "link_header"]]
TargetCases ==
  {[Linked EXCEPT !.api.linkTo = to, !.auth = a, !.maxFaults = 1] :
     to \in DOMAIN Targets, a \in {"none", "ok", "unavailable"}}
  \cup {[Base EXCEPT !.spec.body = [JsonBody EXCEPT !.kind = "form"], !.authBody = TRUE],
        [Base EXCEPT !.targets["home"] = Place(FALSE, FALSE, "unspecified")],
        [Base EXCEPT !.spec.columns[1].type = "float"]}
  \cup {[Linked EXCEPT !.api.linkTo = to, !.resolves = {"public", r}] :
          to \in {"home", "port", "mirror", "other"}, r \in {"private", "loopback", "link_local"}}
  \cup {[Base EXCEPT !.auth = a, !.redirects = {to, "home"}, !.resolves = {r}, !.maxFaults = 1, !.api.size = 4] :
          to \in DOMAIN Targets, a \in {"none", "ok"}, r \in {"public", "private"}}
  \cup {[Linked EXCEPT !.redirects = {"port"}, !.maxFaults = 1, !.api.quota = TRUE]}

MCCases == QueryCases \cup DefaultCases \cup CapCases \cup EmptyCases \cup FaultCases \cup JoinCases \cup FunctionCases \cup ColumnCases
             \cup RawCases \cup TargetCases

=============================================================================
