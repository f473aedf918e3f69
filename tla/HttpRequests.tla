---------------------------- MODULE HttpRequests ----------------------------
(***************************************************************************)
(* What the HTTP source decides about requests (pawrly-sources/http):      *)
(* which filters become request parameters, the bindings a scan fetches,   *)
(* the next page, retries and their waits, and which targets are allowed.  *)
(*                                                                         *)
(* A request parameter's text is the number it spells.  A map of           *)
(* parameters is a function from names to values.                          *)
(***************************************************************************)
EXTENDS HttpValues

NoText == -1          \* scalar_to_string of a literal it does not render
None == -1            \* an absent LIMIT, cap or header

Put(m, k, v) == [x \in DOMAIN m \cup {k} |-> IF x = k THEN v ELSE m[x]]
EmptyMap == [x \in {} |-> 0]

-----------------------------------------------------------------------------
(* Filters.  An expression is a comparison of a column and a literal, a    *)
(* list, a disjunction of equalities <<column, value>>, or anything else.  *)

Flip(op) == CASE op = ">" -> "<" [] op = "<" -> ">" [] op = ">=" -> "<="
              [] op = "<=" -> ">=" [] OTHER -> op

\* <<column, operator, value>>, read from the column; <<>> for None.
ExtractCmp(e) ==
  IF e.f = "cmp" /\ e.op \in {"=", ">", "<", ">=", "<="} /\ e.val # NoText
  THEN <<e.col, IF e.flipped THEN Flip(e.op) ELSE e.op, e.val>>
  ELSE <<>>

\* Mutant: a negated list is taken for the list.
ExtractInList_Negated(e) == IF e.f = "in" THEN <<e.col, e.vals>> ELSE <<>>

\* <<column, values>> of a list that is not negated, or of the disjunction of
\* at least two equalities on one column that a short list is lowered to.
ExtractInList(e) ==
  CASE e.f = "in" /\ ~e.negated /\ NoText \notin Range(e.vals) -> <<e.col, e.vals>>
    [] e.f = "or" /\ Len(e.eqs) >= 2
         /\ \A i \in DOMAIN e.eqs : e.eqs[i][1] = e.eqs[1][1] /\ e.eqs[i][2] # NoText ->
         <<e.eqs[1][1], [i \in DOMAIN e.eqs |-> e.eqs[i][2]]>>
    [] OTHER -> <<>>

ParamsNamed(spec, name) == {p \in Range(spec.params) : p.name = name}

\* is_path_param: a placeholder of the endpoint or of a conditional request.
IsPathParam(spec, name) ==
  name \in spec.endpoint \/ \E i \in DOMAIN spec.requests : name \in spec.requests[i].endpoint

CanPushDown(spec, e) ==
  LET in == ExtractInList(e)
      cmp == ExtractCmp(e)
  IN IF in # <<>>
     THEN \E p \in ParamsNamed(spec, in[1]) :
            p.explode \/ p.required \/ IsPathParam(spec, in[1])
     ELSE /\ cmp # <<>>
          /\ \E p \in ParamsNamed(spec, cmp[1]) :
               cmp[2] = "=" \/ (cmp[2] \in p.accepts /\ cmp[2] \in DOMAIN p.emit)

-----------------------------------------------------------------------------
(* scan_bound: from filters to bindings. *)

\* An equality binds the parameter, a comparison the one it emits.
BindCmp(spec, m, e) ==
  LET cmp == ExtractCmp(e) IN
  IF cmp = <<>> \/ ParamsNamed(spec, cmp[1]) = {} THEN m
  ELSE LET p == CHOOSE p \in ParamsNamed(spec, cmp[1]) : TRUE IN
       CASE cmp[2] = "=" -> Put(m, cmp[1], cmp[3])
         [] cmp[2] \in DOMAIN p.emit -> Put(m, p.emit[cmp[2]], cmp[3])
         [] OTHER -> m

Compared(spec, filters) == FoldLeft(LAMBDA m, e : BindCmp(spec, m, e), EmptyMap, filters)

\* The lists over parameters, and how each is sent: repeated in the query
\* string, or one request for each value.
Lists(spec, filters, how) ==
  LET in == [i \in DOMAIN filters |-> ExtractInList(filters[i])]
      Goes(i) == /\ in[i] # <<>>
                 /\ \E p \in ParamsNamed(spec, in[i][1]) :
                      LET path == IsPathParam(spec, in[i][1])
                          explodes == p.explode /\ ~path
                      IN IF how = "explode" THEN explodes
                         ELSE ~explodes /\ (p.required \/ path)
  IN Pick(in, {i \in DOMAIN in : Goes(i)})

Exploded(spec, filters) ==
  FoldLeft(LAMBDA m, in : Put(m, in[1], in[2]), EmptyMap, Lists(spec, filters, "explode"))

BoundElsewhere(spec, filters, name) ==
  \E how \in {"explode", "fanout"} : \E in \in Range(Lists(spec, filters, how)) : in[1] = name

Defaulted(spec, filters) ==
  FoldLeft(LAMBDA m, p : IF /\ p.default # None
                            /\ p.name \notin DOMAIN m
                            /\ ~BoundElsewhere(spec, filters, p.name)
                         THEN Put(m, p.name, p.default) ELSE m,
           Compared(spec, filters), spec.params)

\* Derive::resolve: the clock less some seconds, or a part of another
\* parameter; a composite text "a-b" is the number 10a + b.
Derive(p, m, now) ==
  CASE p.derive.kind = "ago" -> now - p.derive.seconds
    [] p.derive.kind = "split" /\ p.derive.from \in DOMAIN m /\ m[p.derive.from] >= 10 ->
         m[p.derive.from] % 10
    [] OTHER -> None

\* Derived parameters see the bound ones, not each other.
BoundParams(spec, filters, now) ==
  LET m == Defaulted(spec, filters) IN
  FoldLeft(LAMBDA acc, p : IF /\ p.name \notin DOMAIN m
                              /\ ~BoundElsewhere(spec, filters, p.name)
                              /\ Derive(p, m, now) # None
                           THEN Put(acc, p.name, Derive(p, m, now)) ELSE acc,
           m, spec.params)

Unbound(spec, filters, now) ==
  LET bound == DOMAIN BoundParams(spec, filters, now) IN
  SelectSeq(spec.params, LAMBDA p : /\ p.required /\ p.name \notin bound
                                    /\ ~BoundElsewhere(spec, filters, p.name))

\* The position in a of the n-th pair of a's and b's elements, and in b.
FirstAt(n, b) == ((n - 1) \div Len(b)) + 1
SecondAt(n, b) == ((n - 1) % Len(b)) + 1

\* expand_fanout: the product of the lists, over the base.
ExpandFanout(base, fanout) ==
  LET sets[i \in 0..Len(fanout)] ==
        IF i = 0 THEN <<base>>
        ELSE LET name == fanout[i][1]
                 vals == fanout[i][2]
             IN [n \in 1..(Len(sets[i - 1]) * Len(vals)) |->
                   Put(sets[i - 1][FirstAt(n, vals)], name, vals[SecondAt(n, vals)])]
  IN sets[Len(fanout)]

\* select_request: the first conditional request whose filters are all bound.
SelectRequest(spec, m) ==
  LET fit == SelectSeq(spec.requests, LAMBDA r : r.when_filters \subseteq DOMAIN m) IN
  IF fit = <<>> THEN [endpoint |-> spec.endpoint, body |-> spec.body] ELSE
  [endpoint |-> Head(fit).endpoint, body |-> Head(fit).body]

\* build_url and render_json_body: every bound parameter is in the path, in the
\* body or in the query string; a member of a JSON body whose parameter is
\* unbound is pruned.  The values the server sees:
Sent(shape, m, explode) ==
  LET inPath == DOMAIN m \cap shape.endpoint
      inBody == (DOMAIN m \ shape.endpoint) \cap shape.body.params
      inQuery == DOMAIN m \ (inPath \cup inBody)
  IN [n \in inPath \cup inBody \cup inQuery \cup DOMAIN explode |->
        (IF n \in DOMAIN m THEN {m[n]} ELSE {})
          \cup (IF n \in DOMAIN explode THEN Range(explode[n]) ELSE {})]

\* The body of a request: the table's, the auth fields, or both, which merge
\* only into a JSON object.
BodyRefused(shape, authBody) == authBody /\ shape.body.kind = "form"

\* A cursor travels in a JSON body; without one it is dropped.
CarriesCursor(shape) == shape.body.kind = "json"

-----------------------------------------------------------------------------
(* The raw table: request_method, request_path and request_query.          *)

MentionsColumn(e, col) == IF e.f = "or" THEN \E i \in DOMAIN e.eqs : e.eqs[i][1] = col ELSE e.col = col

RawPushDown(e) == MentionsColumn(e, "path") \/ MentionsColumn(e, "query")

\* collect_eq_or_in: the literals a column is pinned to, in the order written.
CollectEqOrIn(filters, col) ==
  LET Pinned(e) ==
        CASE e.f = "cmp" /\ e.op = "=" /\ e.col = col /\ e.val # NoText -> <<e.val>>
          [] e.f = "in" /\ ~e.negated /\ e.col = col ->
               Pick(e.vals, {j \in DOMAIN e.vals : e.vals[j] # NoText})
          [] e.f = "or" -> Pick([j \in DOMAIN e.eqs |-> e.eqs[j][2]],
                                {j \in DOMAIN e.eqs : e.eqs[j][1] = col /\ e.eqs[j][2] # NoText})
          [] OTHER -> <<>>
      found[i \in 0..Len(filters)] == IF i = 0 THEN <<>> ELSE found[i - 1] \o Pinned(filters[i])
  IN found[Len(filters)]

GET == 1
RawRequests(filters) ==
  LET methods == CollectEqOrIn(filters, "method")
      asked == CollectEqOrIn(filters, "query")
      m == IF methods = <<>> THEN GET ELSE Head(methods)
      queries == IF asked = <<>> THEN <<None>> ELSE asked
      paths == CollectEqOrIn(filters, "path")
  IN [n \in 1..(Len(paths) * Len(queries)) |->
        [method |-> m, path |-> paths[FirstAt(n, queries)], query |-> queries[SecondAt(n, queries)]]]

-----------------------------------------------------------------------------
(* paginate.rs *)

\* The first entry rel="next" that is not marked results="false".
ParseLinkNext(links) ==
  LET next == SelectSeq(links, LAMBDA l : l.rel = "next" /\ l.results # "false") IN
  IF next = <<>> THEN Absent ELSE Head(next).url

SeedInitial(config, m) ==
  LET OrInsert(x, k, v) == IF k \in DOMAIN x \/ v = None THEN x ELSE Put(x, k, v) IN
  CASE config.type = "page" -> OrInsert(OrInsert(m, "page", config.start), "size", config.size)
    [] config.type = "offset" -> OrInsert(OrInsert(m, "offset", 0), "size", config.size)
    [] OTHER -> m

Stop == [kind |-> "stop"]
NextParams(m) == [kind |-> "params", params |-> m]

NextPage(config, m, body, links, rows, page) ==
  CASE config.type = "link_header" ->
         IF ParseLinkNext(links) = Absent THEN Stop
         ELSE [kind |-> "url", url |-> ParseLinkNext(links)]
    [] config.type = "cursor" ->
         LET cur == CursorAtPath(body, <<Key("next")>>) IN
         IF \/ rows = <<>> \/ cur = Absent
            \/ "cursor" \in DOMAIN m /\ m["cursor"] = cur.v
         THEN Stop ELSE NextParams(Put(m, "cursor", cur.v))
    [] config.type = "row_cursor" ->
         LET cur == ValueToCursor(SegmentGet(rows[Len(rows)], Key("id"))) IN
         IF \/ config.more /\ JsonAtPath(body, <<Key("more")>>) # JBool(TRUE)
            \/ rows = <<>> \/ cur = Absent
         THEN Stop ELSE NextParams(Put(m, "cursor", cur.v))
    [] config.type = "page" ->
         IF rows = <<>> THEN Stop
         ELSE LET next == Put(m, "page", config.start + page + 1) IN
              NextParams(IF config.size = None THEN next ELSE Put(next, "size", config.size))
    [] config.type = "offset" ->
         IF Len(rows) < config.size THEN Stop
         ELSE NextParams(Put(Put(m, "offset", config.size * (page + 1)), "size", config.size))
    [] config.type = "body_cursor" ->
         LET cur == CursorAtPath(body, <<Key("next")>>) IN
         IF rows = <<>> \/ cur = Absent THEN Stop ELSE [kind |-> "cursor", cursor |-> cur.v]

-----------------------------------------------------------------------------
(* Retries and waits. *)

IsRateLimit(rateLimit, status) == status \in {429, 503} \cup rateLimit.extra_statuses

Retryable(rateLimit, status) == status >= 500 \/ IsRateLimit(rateLimit, status)

\* backoff_ms: base * 2^attempt, at most the maximum.
BackoffMs(retry, attempt) ==
  LET grown == retry.base * 2^attempt IN IF grown \in 0..retry.max THEN grown ELSE retry.max

\* The time until the reset header (if the policy names it and it is in the
\* future), then Retry-After, then the backoff.
WaitMs(retry, rateLimit, r, attempt) ==
  CASE IsRateLimit(rateLimit, r.status) /\ rateLimit.reset_header /\ r.reset > 0 -> r.reset
    [] IsRateLimit(rateLimit, r.status) /\ r.retryAfter # None -> r.retryAfter
    [] OTHER -> BackoffMs(retry, attempt)

\* Mutant: the quota headers are not read.
Throttle_Ignored(rateLimit, r) == 0

\* compute_throttle: the wait before the next page when the quota is used up.
Throttle(rateLimit, r) ==
  IF rateLimit.remaining_header /\ rateLimit.reset_header /\ r.remaining = 0 /\ r.reset > 0
  THEN r.reset ELSE 0

-----------------------------------------------------------------------------
(* guard.rs.  A target: its scheme, whether it has the base's origin,      *)
(* whether its host is at least the base's (on any port), whether its host *)
(* is listed in allowed_hosts, and its host's class: a name ("name",       *)
(* "localhost", ".internal"), an address ("public", "loopback", "private", *)
(* "link_local", "unspecified") or none.                                   *)

IsName(target) == target.class \in {"name", "localhost", ".internal"}

\* classify, of an IPv6-mapped address after normalize.
Classify(class) ==
  CASE class \in {"link_local", "unspecified"} -> "AlwaysRefuse"
    [] class = "private" -> "Private"
    [] OTHER -> "Allow"

IsTrusted(target) == target.origin \/ target.listed

CheckTarget(target) ==
  \/ target.origin
  \/ /\ target.scheme \in {"http", "https"}
     /\ target.class # "none"
     /\ target.class = ".internal" => target.listed
     /\ Classify(target.class) # "AlwaysRefuse"
     /\ Classify(target.class) = "Private" => target.listed

\* name_trusted: the base's host or a listed one, whatever the port and the
\* scheme.
NameTrusted(target) == target.named \/ target.listed

\* screen_resolved: every address a name resolves to; a host that is an
\* address is not resolved.
ScreenResolved(target, addresses) ==
  IsName(target) =>
    \A a \in addresses : /\ Classify(a) # "AlwaysRefuse"
                         /\ Classify(a) = "Private" => NameTrusted(target)

\* Mutant: a redirect is followed with the credentials wherever it is allowed.
FollowsRedirect_Credentialed(target, hops, hasAuth) == hops <= 5 /\ CheckTarget(target)

\* redirect_policy, when hops requests were sent before this one: at most five
\* redirects, to allowed targets, and with credentials only to trusted ones.
FollowsRedirect(target, hops, hasAuth) ==
  hops <= 5 /\ CheckTarget(target) /\ (hasAuth => IsTrusted(target))

=============================================================================
