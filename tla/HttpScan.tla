------------------------------ MODULE HttpScan ------------------------------
(***************************************************************************)
(* A query over an HTTP table, from the filters the planner hands down to  *)
(* the rows it returns (pawrly-sources/http: typed.rs, dependent_join.rs,  *)
(* deferred.rs, function.rs).                                              *)
(*                                                                         *)
(* A behaviour runs one query c of Cases: over the table, through a        *)
(* dependent join that takes the required parameter from another input, or *)
(* through a table function.  The planner and the API server are external: *)
(* the planner hands down the filters the table accepts (and the limit if  *)
(* it accepts them all), the server answers pages of the rows its          *)
(* parameters select, and may fail, at most c.maxFaults times.             *)
(***************************************************************************)
EXTENDS HttpRequests

CONSTANTS Cases,              \* the queries, with their table, source and API
          Json,               \* the JSON values the APIs' rows are made of
          FaultKinds          \* how a request may fail

\* A filter holds a literal or a Vec of them.
IsFilter(e) == /\ e.f = "in" => IsVec(e.vals)
               /\ e.f = "or" => IsVec(e.eqs)

\* What Rust's types say of a query: caps are unsigned, lists are Vecs, rows
\* are JSON; the rows of the modelled API have the fields its pages are built of.
ASSUME CasesAssumption ==
  \A k \in Cases :
    /\ k.maxPages \in Nat /\ k.maxRows \in Nat \cup {None} /\ k.limit \in Nat \cup {None}
    /\ k.retry.max_retries \in Nat /\ k.retry.base \in Nat /\ k.retry.max \in Nat
    /\ IsVec(k.filters) /\ \A i \in DOMAIN k.filters : IsFilter(k.filters[i])
    /\ IsVec(k.driver) /\ "path" \in DOMAIN k.spec.response /\ IsVec(k.spec.response.path)
    /\ k.api.data \in Seq(Json)
    /\ \A i \in DOMAIN k.api.data :
         k.api.data[i].t = "obj" /\ {"id", "owner", "size"} \subseteq DOMAIN k.api.data[i].v

ASSUME JsonAssumption == IsJson(Json)

VARIABLES c, pc,
          lim,                \* the limit handed to the scan
          sets, explode,      \* scan_bound: the binding sets and repeated parameters
          bind, out,          \* the binding being fetched; the rows of the earlier ones
          req, url, cursor, page, rows,     \* fetch_rows: the next request, the rows so far
          attempt, resp, faults, clock,
          hops, via,          \* how many redirects the request in flight has
                              \* followed, and the target of the last one
          calls,              \* the last two requests, redirected ones included:
                              \* target, status, time, and when the server said
                              \* it answers again
          made,               \* how many the scan sent itself, up to one more
                              \* than CallBound
          result

vars == <<c, pc, lim, sets, explode, bind, out, req, url, cursor, page, rows,
          attempt, resp, faults, clock, hops, via, calls, made, result>>
fetchVars == <<req, url, cursor, page, rows>>
hopVars == <<hops, via>>
sendVars == <<attempt, resp, faults, clock, hopVars, calls, made>>

Home == [start |-> 0, target |-> "home"]     \* next_url is None: the endpoint

\* The request of the binding, and what the server sees of it.
Shape == SelectRequest(c.spec, sets[bind])
Call == Sent(Shape, req, explode)

-----------------------------------------------------------------------------
(* The API.  It selects the rows by the parameters it knows, and answers   *)
(* pages of c.api.size rows in an envelope with the next cursor.           *)

Selected(call) ==
  LET Fits(r) == \A p \in DOMAIN call \cap DOMAIN c.api.select :
                   LET s == c.api.select[p] IN
                   IF s.op = "=" THEN r.v[s.field].v \in call[p]
                   ELSE \A x \in call[p] : r.v[s.field].v > x
  IN Pick(c.api.data, {i \in DOMAIN c.api.data : Fits(c.api.data[i])})

\* The position a request asks for.
StartOf(call, all) ==
  LET One(p) == CHOOSE x \in call[p] : TRUE IN
  CASE url # Home -> url.start
    [] cursor # None /\ CarriesCursor(Shape) -> cursor
    [] "page" \in DOMAIN call -> (One("page") - c.spec.pagination.start) * c.api.size
    [] "offset" \in DOMAIN call -> One("offset")
    [] "cursor" \in DOMAIN call /\ c.spec.pagination.type = "row_cursor" ->
         CHOOSE i \in DOMAIN all : all[i].v.id.v = One("cursor")
    [] "cursor" \in DOMAIN call -> One("cursor")
    [] OTHER -> 0

IdText(r) == ToString(r.v.id.v)
Series(r) == JObj([owner |-> r.v.owner,
                   points |-> JArr(<<JArr(<<r.v.id, r.v.size>>), JArr(<<JNull>>)>>)])

\* The rows of a page as the API lays them out: an array, an object with an
\* entry for each, or series of points.
Envelope(shown) ==
  CASE c.spec.response.reshape = "dict_entries" ->
         JObj([k \in {IdText(shown[i]) : i \in DOMAIN shown} |->
                 shown[CHOOSE i \in DOMAIN shown : IdText(shown[i]) = k]])
    [] c.spec.response.reshape = "series_points" ->
         JObj([series |-> JArr([i \in DOMAIN shown |-> Series(shown[i])])])
    [] OTHER -> JArr(shown)

\* An answer, with its headers: a Retry-After, the quota and its reset time.
Reply(status, body, links, h) ==
  [status |-> status, body |-> body, links |-> links,
   retryAfter |-> h.retryAfter, remaining |-> h.remaining, reset |-> h.reset]
Headers == {[retryAfter |-> None, remaining |-> 1, reset |-> 0]}
             \cup IF c.api.quota THEN {[retryAfter |-> 2, remaining |-> 0, reset |-> 3]} ELSE {}

PageOf(call, h) ==
  LET all == Selected(call)
      from == IF c.api.behaviour = "endless" THEN 0 ELSE StartOf(call, all)
      to == IF from + c.api.size > Len(all) THEN Len(all) ELSE from + c.api.size
      more == to < Len(all) \/ c.api.behaviour # "honest"
      next == IF c.api.behaviour = "endless" THEN page + 1
              ELSE IF c.api.behaviour = "stuck" THEN c.api.size ELSE to
  IN Reply(200,
           JObj([data |-> Envelope(Pick(all, (from + 1)..to)),
                 next |-> IF more THEN JNum(next) ELSE JNull,
                 more |-> JBool(more)]),
           IF more THEN <<[rel |-> "prev", results |-> "", url |-> Home],
                          [rel |-> "next", results |-> "true",
                           url |-> [start |-> next, target |-> c.api.linkTo]]>>
           ELSE <<>>, h)

\* A failing answer: its body is the API's error object, or no JSON.
Failure(kind, h) ==
  Reply(c.api.fail, IF kind = "html" THEN Absent ELSE JObj([message |-> JTxt("failed")]), <<>>, h)

-----------------------------------------------------------------------------
(* scan_bound *)

\* The planner hands down the filters the table can push into the request,
\* and the limit when none is left for itself.
PushesDown(e) == IF c.mode = "raw" THEN RawPushDown(e) ELSE CanPushDown(c.spec, e)
Pushed == Pick(c.filters, {i \in DOMAIN c.filters : PushesDown(c.filters[i])})
ScanLimit == IF c.mode = "join" \/ Len(Pushed) < Len(c.filters) THEN None ELSE c.limit

\* limit_for_children over the operators above the join, outermost first.
LimitForChildren ==
  FoldLeft(LAMBDA l, op : CASE op.op = "global_limit" -> op.fetch + op.skip
                            [] op.op = "prefix" -> IF op.fetch # None THEN op.fetch ELSE l
                            [] OTHER -> None,
           None, c.above)

\* distinct_keys: the first ones that are not null, up to the cap.
DistinctKeys ==
  LET keys == Pick(c.driver, {i \in DOMAIN c.driver :
                                /\ c.driver[i] # NoText
                                /\ \A j \in 1..(i - 1) : c.driver[j] # c.driver[i]})
  IN IF LimitForChildren = None THEN keys ELSE Pick(keys, 1..LimitForChildren)

\* try_build_dependent_join: an inner join on one column, which is a required
\* parameter the filters left unbound.
Dependent == /\ c.mode = "join"
             /\ c.joinType = "inner"
             /\ \E p \in Range(Unbound(c.spec, Pushed, c.now)) : p.name = c.joinKey

BoundFilters ==
  IF Dependent
  THEN Append(Pushed, [f |-> "in", negated |-> FALSE, col |-> c.joinKey, vals |-> DistinctKeys])
  ELSE Pushed

\* HttpFunction::invoke: an argument in the response's path is not sent.
RequestArgs == [a \in DOMAIN c.args \ {c.spec.response.arg} |-> c.args[a]]
ResponsePath ==
  IF c.mode = "function" /\ c.spec.response.arg \in DOMAIN c.args
  THEN <<Key(c.pathText[c.args[c.spec.response.arg]])>>
  ELSE c.spec.response.path

\* Functions and the raw table have no row cap.
MaxRows == IF c.mode \in {"function", "raw"} THEN None ELSE c.maxRows

Finish(r) == pc' = "done" /\ result' = r

\* The parameters are bound, or a required one is missing.
Bind ==
  /\ pc = "bind"
  /\ lim' = ScanLimit
  /\ \/ /\ c.mode = "function"
        /\ sets' = <<RequestArgs>>
        /\ explode' = EmptyMap
        /\ pc' = "union" /\ UNCHANGED result
     \/ /\ c.mode = "raw"
        /\ sets' = RawRequests(Pushed) /\ UNCHANGED explode
        /\ IF sets' = <<>> THEN Finish("required_filter") ELSE pc' = "raw" /\ UNCHANGED result
     \/ /\ c.mode \in {"table", "join"}
        /\ Dependent /\ DistinctKeys = <<>>
        /\ Finish("ok") /\ UNCHANGED <<sets, explode>>
     \/ /\ c.mode \in {"table", "join"}
        /\ ~(Dependent /\ DistinctKeys = <<>>)
        /\ Unbound(c.spec, BoundFilters, c.now) # <<>>
        /\ Finish("required_filter") /\ UNCHANGED <<sets, explode>>
     \/ /\ c.mode \in {"table", "join"}
        /\ ~(Dependent /\ DistinctKeys = <<>>)
        /\ Unbound(c.spec, BoundFilters, c.now) = <<>>
        /\ sets' = ExpandFanout(BoundParams(c.spec, BoundFilters, c.now),
                                Lists(c.spec, BoundFilters, "fanout"))
        /\ explode' = Exploded(c.spec, BoundFilters)
        /\ pc' = "union" /\ UNCHANGED result
  /\ UNCHANGED <<c, bind, out, fetchVars, sendVars>>

Reached(n) == lim # None /\ n >= lim

\* The next binding is fetched, until there is none or the limit is reached.
NextBinding ==
  /\ pc = "union"
  /\ IF bind = Len(sets) \/ Reached(Len(out))
     THEN /\ Finish(IF BatchFails(EffectiveColumns(c.spec)) THEN "batch" ELSE "ok")
          /\ UNCHANGED <<bind, fetchVars, resp>>
     ELSE /\ bind' = bind + 1
          /\ resp' = Absent
          /\ req' = SeedInitial(c.spec.pagination, sets[bind + 1])
          /\ url' = Home /\ cursor' = None /\ page' = 0 /\ rows' = <<>>
          /\ pc' = "page" /\ UNCHANGED result
  /\ UNCHANGED <<c, lim, sets, explode, out, attempt, faults, clock, hopVars, calls, made>>

-----------------------------------------------------------------------------
(* fetch_rows *)

\* base_url.join: a path of the raw table may be an absolute URL.
RawTarget(n) == c.targets[c.rawTargets[sets[n].path]]

Target == CASE c.mode = "raw" -> RawTarget(bind)
            [] c.mode # "raw" /\ url = Home -> c.targets["home"]
            [] OTHER -> c.targets[url.target]

\* apply_auth: credentials go to trusted targets only, and must be resolved.
AuthRefused(target) == c.auth # "none" /\ (~IsTrusted(target) \/ c.auth = "unavailable")

\* Mutant: at the page cap the loop goes round again.
TooManyPages_Continue == UNCHANGED <<pc, result>>
TooManyPages == Finish("too_many_pages")

\* The top of the loop: the page cap, the waits, the request with its target,
\* credentials and body.
RequestPage ==
  /\ pc = "page"
  /\ attempt' = 0
  /\ CASE page >= c.maxPages -> TooManyPages
       [] ~CheckTarget(Target) -> Finish("refused")
       [] AuthRefused(Target) -> Finish("auth")
       [] BodyRefused(Shape, c.authBody) -> Finish("plan")
       [] OTHER -> pc' = "send" /\ UNCHANGED result
  /\ clock' = clock + (IF resp # Absent /\ page < c.maxPages THEN Throttle(c.rateLimit, resp) ELSE 0)
  /\ UNCHANGED <<c, lim, sets, explode, bind, out, fetchVars, resp, faults, hopVars, calls, made>>

\* The server's claim on the next request, when the source reads the header.
NotBefore(r) ==
  CASE c.rateLimit.reset_header /\ r.reset > 0
         /\ (IsRateLimit(c.rateLimit, r.status) \/ (c.rateLimit.remaining_header /\ r.remaining = 0)) ->
         clock + r.reset
    [] IsRateLimit(c.rateLimit, r.status) /\ r.retryAfter # None -> clock + r.retryAfter
    [] OTHER -> clock

\* The requests a scan may make: one for each pair of the raw table, and for
\* each binding of another max_pages, with max_retries more for each page.
CallBound ==
  IF c.mode = "raw" THEN Len(sets) ELSE Len(sets) * (c.maxPages * (c.retry.max_retries + 1))

\* Where the request in flight is, after the redirects it has followed.
At == IF hops = 0 THEN Target ELSE c.targets[via]

Record(status, due) ==
  /\ calls' = (IF calls = <<>> THEN <<>> ELSE <<Last(calls)>>)
               \o <<[target |-> At, hop |-> hops, bind |-> bind, page |-> page,
                    status |-> status, at |-> clock, due |-> due]>>
  /\ made' = IF hops > 0 \/ made > CallBound THEN made ELSE made + 1

\* The request is over: the next one starts at its own target.
Landed == hops' = 0 /\ UNCHANGED via

\* An answer: it is returned, or the request is sent again after a wait.
Answered(r) ==
  /\ Record(r.status, NotBefore(r))
  /\ Landed
  /\ IF Retryable(c.rateLimit, r.status) /\ attempt < c.retry.max_retries
     THEN /\ attempt' = attempt + 1
          /\ clock' = clock + WaitMs(c.retry, c.rateLimit, r, attempt)
          /\ UNCHANGED <<pc, resp>>
     ELSE /\ resp' = r /\ pc' = "receive"
          /\ UNCHANGED <<attempt, clock>>

\* GuardedResolver: a name with an address that is not allowed is not reached.
Resolved == ScreenResolved(At, c.resolves)

SendAnswered ==
  /\ pc = "send" /\ Resolved
  /\ \E r \in {PageOf(call, h) : call \in {Call}, h \in Headers} : Answered(r)
  /\ UNCHANGED <<c, lim, sets, explode, bind, out, fetchVars, faults, result>>

SendRefused ==
  /\ pc = "send" /\ Resolved /\ faults < c.maxFaults
  /\ \E r \in {Failure(kind, h) : kind \in FaultKinds \cap {"json", "html"}, h \in Headers} : Answered(r)
  /\ faults' = faults + 1
  /\ UNCHANGED <<c, lim, sets, explode, bind, out, fetchVars, result>>

\* A transport error is retried, from the request's own target.
SendFails ==
  /\ pc = "send" /\ (~Resolved \/ (faults < c.maxFaults /\ "transport" \in FaultKinds))
  /\ faults' = IF Resolved THEN faults + 1 ELSE faults
  /\ Record(0, clock)
  /\ Landed
  /\ IF attempt < c.retry.max_retries
     THEN /\ attempt' = attempt + 1
          /\ clock' = clock + BackoffMs(c.retry, attempt)
          /\ UNCHANGED <<pc, result>>
     ELSE Finish("transport") /\ UNCHANGED <<attempt, clock>>
  /\ UNCHANGED <<c, lim, sets, explode, bind, out, fetchVars, resp>>

\* The server redirects: the client follows, or ends the scan; a redirect the
\* policy refuses is not retried.
SendRedirected ==
  /\ pc \in {"send", "raw_send"} /\ Resolved
  /\ \E to \in c.redirects :
       /\ Record(302, clock)
       /\ IF FollowsRedirect(c.targets[to], hops + 1, c.auth # "none")
          THEN hops' = hops + 1 /\ via' = to /\ UNCHANGED <<pc, result>>
          ELSE Finish("redirect") /\ Landed
  /\ UNCHANGED <<c, lim, sets, explode, bind, out, fetchVars, attempt, resp, faults, clock>>

RawRow(pair, status) == pair @@ [status |-> status]

\* RawHttpTableProvider::scan: a request for each pair.
NextRaw ==
  /\ pc = "raw"
  /\ IF bind = Len(sets) THEN Finish("ok") /\ UNCHANGED bind
     ELSE /\ bind' = bind + 1
          /\ IF sets[bind + 1].path \notin DOMAIN c.rawTargets THEN Finish("plan")
             ELSE IF ~CheckTarget(RawTarget(bind + 1)) THEN Finish("refused")
             ELSE IF AuthRefused(RawTarget(bind + 1)) THEN Finish("auth")
             ELSE pc' = "raw_send" /\ UNCHANGED result
  /\ UNCHANGED <<c, lim, sets, explode, out, fetchVars, sendVars>>

\* It is sent once; its answer, whatever the status, is a row.
SendRaw ==
  /\ pc = "raw_send"
  /\ Landed
  /\ \/ /\ Resolved
        /\ \E status \in {200, c.api.fail} : /\ Record(status, clock)
                                            /\ out' = Append(out, RawRow(sets[bind], status))
        /\ pc' = "raw" /\ UNCHANGED <<result, faults>>
     \/ /\ ~Resolved \/ faults < c.maxFaults
        /\ faults' = IF Resolved THEN faults + 1 ELSE faults
        /\ Record(0, clock)
        /\ Finish("transport") /\ UNCHANGED out
  /\ UNCHANGED <<c, lim, sets, explode, bind, fetchVars, attempt, resp, clock>>

-----------------------------------------------------------------------------
(* The answer of a page. *)

Remaining == IF lim = None THEN None ELSE lim - Len(out)

Response == [c.spec.response EXCEPT !.path = ResponsePath]
PageRows == ExtractRows(resp.body, Response)

EmptyAnswer == resp.status = 404 /\ c.spec.response.allow_404_empty

\* The answer is no page.
Problem ==
  CASE resp.body = Absent -> IF DetectError(c.spec.response.error, resp.status, JNull)
                             THEN "api_error" ELSE "parse"
    [] DetectError(c.spec.response.error, resp.status, resp.body) -> "api_error"
    [] PageRows = <<Absent>> -> "shape"
    [] OTHER -> "none"

\* The end of fetch_rows and of an iteration of scan_bound's loop.
EndFetch(fetched) ==
  LET got == IF Remaining # None /\ Len(fetched) > Remaining
             THEN SubSeq(fetched, 1, Remaining) ELSE fetched
      columns == EffectiveColumns(c.spec)
  IN CASE MaxRows # None /\ Len(out) + Len(got) > MaxRows -> Finish("too_many_rows") /\ UNCHANGED out
       [] got # <<>> /\ BatchFails(columns) -> Finish("batch") /\ UNCHANGED out
       [] OTHER -> /\ out' = out \o BuildBatch(columns, got, sets[bind])
                   /\ pc' = "union" /\ UNCHANGED result

Receive ==
  /\ pc = "receive"
  /\ LET all == rows \o PageRows
         next == NextPage(c.spec.pagination, req, resp.body, resp.links, PageRows, page)
         Fail(r) == Finish(r) /\ UNCHANGED <<out, fetchVars>>
         End(fetched) == EndFetch(fetched) /\ UNCHANGED fetchVars
     IN IF EmptyAnswer THEN End(rows)
        ELSE IF Problem # "none" THEN Fail(Problem)
        ELSE IF Remaining # None /\ Len(all) >= Remaining THEN End(all)
        ELSE IF MaxRows # None /\ Len(all) > MaxRows THEN Fail("too_many_rows")
        ELSE IF c.spec.pagination.type = "none" \/ next = Stop THEN End(all)
        ELSE IF next.kind = "url" /\ ~CheckTarget(c.targets[next.url.target]) THEN Fail("refused")
        ELSE /\ rows' = all
             /\ page' = page + 1
             /\ req' = IF next.kind = "params" THEN next.params ELSE req
             /\ url' = IF next.kind = "url" THEN next.url ELSE Home
             /\ cursor' = IF next.kind = "cursor" THEN next.cursor ELSE cursor
             /\ pc' = "page" /\ UNCHANGED <<out, result>>
  /\ UNCHANGED <<c, lim, sets, explode, bind, sendVars>>

-----------------------------------------------------------------------------
Init ==
  /\ c \in Cases
  /\ pc = "bind" /\ result = "none"
  /\ lim = None /\ sets = <<>> /\ explode = EmptyMap /\ bind = 0 /\ out = <<>>
  /\ req = EmptyMap /\ url = Home /\ cursor = None /\ page = 0 /\ rows = <<>>
  /\ attempt = 0 /\ resp = Absent /\ faults = 0 /\ clock = 0 /\ calls = <<>> /\ made = 0
  /\ hops = 0 /\ via = "home"

Done == pc = "done" /\ UNCHANGED vars

Step == Bind \/ NextBinding \/ RequestPage \/ SendAnswered \/ SendRefused \/ SendFails
        \/ SendRedirected \/ NextRaw \/ SendRaw \/ Receive

Next == Step \/ Done

\* Every request has the client's timeout, so a scan that is awaited goes on.
Spec == Init /\ [][Next]_vars /\ WF_vars(Step)

-----------------------------------------------------------------------------
(* What the scan promises. *)

\* The rows of the query: those the unpushed filters leave of what was fetched.
ColumnAt(name) == CHOOSE i \in DOMAIN EffectiveColumns(c.spec) :
                    EffectiveColumns(c.spec)[i].name = name
Holds(e, n) ==
  CASE e.f = "cmp" -> LET op == IF e.flipped THEN Flip(e.op) ELSE e.op IN
                      CASE op = "=" -> n = e.val [] op = ">" -> n > e.val [] op = "<" -> n < e.val
                        [] op = ">=" -> n >= e.val [] op = "<=" -> n <= e.val [] OTHER -> n # e.val
    [] e.f = "in" -> (n \in Range(e.vals)) # e.negated
    [] e.f = "or" -> \E i \in DOMAIN e.eqs : n = e.eqs[i][2]
ColumnOf(e) == IF e.f = "or" THEN e.eqs[1][1] ELSE e.col
Answer ==
  LET kept == SelectSeq(out, LAMBDA row : \A i \in DOMAIN c.filters :
                \/ PushesDown(c.filters[i])
                \/ Holds(c.filters[i], IF c.mode = "raw" THEN row[ColumnOf(c.filters[i])]
                                       ELSE row[ColumnAt(ColumnOf(c.filters[i]))].v))
  IN IF c.mode # "join" /\ c.limit # None /\ Len(kept) > c.limit THEN SubSeq(kept, 1, c.limit) ELSE kept

\* The reference: the rows of the API that satisfy the query.
Wanted ==
  LET Fits(r) == /\ \A e \in c.implied : Holds(e, r.v[ColumnOf(e)].v)
                 /\ \A i \in DOMAIN c.filters : Holds(c.filters[i], r.v[ColumnOf(c.filters[i])].v)
                 /\ c.mode = "join" => r.v[c.joinKey].v \in Range(c.driver)
                 /\ c.mode = "function" => \A a \in DOMAIN c.args \cap DOMAIN r.v : r.v[a].v = c.args[a]
      Row(r) == [i \in DOMAIN EffectiveColumns(c.spec) |->
                   LET col == EffectiveColumns(c.spec)[i]
                       n == r.v[col.name].v IN
                   CASE col.type = "varchar" -> JStr(n)
                     [] col.type = "double" -> JFlt(n)
                     [] col.type = "int" /\ n > Max32 -> JNull
                     [] OTHER -> JNum(n)]
  IN {Row(r) : r \in {d \in Range(c.api.data) : Fits(d)}}

\* The raw table's reference: a row for each path and query the filters name.
RawWanted ==
  {[method |-> GET, path |-> p, query |-> q] :
     p \in {x \in c.rawValues : \A i \in DOMAIN c.filters :
              ColumnOf(c.filters[i]) = "path" => Holds(c.filters[i], x)},
     q \in IF \E i \in DOMAIN c.filters : ColumnOf(c.filters[i]) = "query"
           THEN {x \in c.rawValues : \A i \in DOMAIN c.filters :
                   ColumnOf(c.filters[i]) = "query" => Holds(c.filters[i], x)}
           ELSE {None}}

\* The server answers truthfully, and the table declares its failures.
Trusted == /\ c.api.behaviour = "honest"
           /\ DetectError(c.spec.response.error, c.api.fail, JNull)
           /\ ~(c.api.fail = 404 /\ c.spec.response.allow_404_empty)

(* A query that succeeds returns the rows it asked for, each once and with  *)
(* the right cells, whatever the paging scheme, the fan-out, the limit and  *)
(* the failures that were retried on the way (fetch_rows, scan_bound).      *)
RowsExact ==
  /\ result = "ok" /\ c.mode = "raw" =>
       /\ {[method |-> r.method, path |-> r.path, query |-> r.query] : r \in Range(Answer)} = RawWanted
       /\ Len(Answer) = Cardinality(RawWanted)
  /\ result = "ok" /\ c.mode # "raw" /\ Trusted =>
    /\ Range(Answer) \subseteq Wanted
    /\ IsInjective(Answer)
    /\ IF c.mode = "join" /\ LimitForChildren # None
       THEN Len(Answer) <= Cardinality(Wanted)
       ELSE IF c.mode = "join" \/ c.limit = None \/ c.limit > Cardinality(Wanted)
       THEN Len(Answer) = Cardinality(Wanted)
       ELSE Len(Answer) = c.limit

(* Whatever the server answers, a scan sends at most max_pages requests for *)
(* each binding and max_retries more for each, and none of them is          *)
(* redirected more than five times.  The raw table's paths, links to a next *)
(* page and redirects take it only to targets the guard allows, with        *)
(* credentials only to the source's own origin or a listed host, and a name *)
(* answers from a private address only if it is the base's or listed        *)
(* (guard.rs).  It never keeps more than max_rows rows, or than the limit.  *)
BoundedScan ==
  /\ made <= CallBound
  /\ \A i \in DOMAIN calls :
       /\ calls[i].hop <= 5
       /\ CheckTarget(calls[i].target)
       /\ c.auth # "none" => calls[i].target.origin \/ calls[i].target.listed
       /\ calls[i].status # 0 /\ IsName(calls[i].target) =>
            /\ c.resolves \cap {"link_local", "unspecified"} = {}
            /\ "private" \in c.resolves => calls[i].target.named \/ calls[i].target.listed
  /\ MaxRows # None => Len(out) <= MaxRows
  /\ lim # None /\ c.mode # "raw" => Len(out) <= lim

(* After an answer that says when to come back, the next request of the     *)
(* same fetch is not sent earlier: a retry of a rate-limited request, and   *)
(* the next page when the quota is used up.  (A rate-limited answer that is *)
(* left after the last retry, and that the table does not declare an error, *)
(* is read as a page; its Retry-After is forgotten.)                        *)
PaceHonored ==
  /\ Len(calls) = 2 /\ calls[1].bind = calls[2].bind
  /\ IsRateLimit(c.rateLimit, calls[1].status) <=> calls[1].page = calls[2].page
  => calls[2].at >= calls[1].due

(* Every scan ends, with a server that pages for ever too. *)
ScanEnds == <>(pc = "done")

=============================================================================
