--------------------------- MODULE MCSemanticLayer ---------------------------
EXTENDS SemanticLayer

\* A small shop: orders and tickets are facts, customers and stores lookups.
MCTables ==
  [t \in {<<"shop", "orders">>, <<"shop", "customers">>, <<"shop", "stores">>, <<"shop", "tickets">>} |->
     CASE t[2] = "orders" -> <<[id |-> 1, at |-> 1, status |-> 1, amount |-> 5, net |-> 3, cust |-> 1, store |-> 1],
                               [id |-> 2, at |-> 6, status |-> 2, amount |-> 2, net |-> 2, cust |-> 1, store |-> 2],
                               [id |-> 3, at |-> 3, status |-> 1, amount |-> 4, net |-> 1, cust |-> 2, store |-> 1]>>
       [] t[2] = "customers" -> <<[cid |-> 1, region |-> 7], [cid |-> 2, region |-> 8], [cid |-> 3, region |-> 7]>>
       [] t[2] = "stores" -> <<[sid |-> 1, city |-> 4], [sid |-> 2, city |-> 4]>>
       [] OTHER -> <<[tid |-> 1, tat |-> 1, tcust |-> 1], [tid |-> 2, tat |-> 2, tcust |-> 2]>>]
MCLate == <<<<<<"shop", "orders">>, [id |-> 4, at |-> 19, status |-> 2, amount |-> 7, net |-> Null, cust |-> Null, store |-> 2]>>,
            <<<<"shop", "tickets">>, [tid |-> 3, tat |-> 9, tcust |-> 3]>>>>

D(name, type, grains, expr) == [name |-> name, type |-> type, grains |-> grains, expr |-> expr]
M(name, agg, expr, filters) == [name |-> name, agg |-> agg, expr |-> expr, filters |-> filters]
F(member, op, values) == [member |-> member, op |-> op, values |-> values]
R(col, op, values) == [col |-> col, op |-> op, values |-> values]
Rel(name, kind, target, on) == [name |-> name, kind |-> kind, target |-> target, on |-> on]
Pre(name, dims, measures, refresh) ==
  [name |-> name, dimensions |-> dims, measures |-> measures, partition_by |-> {}, refresh |-> refresh]

Orders(revenue, pre, safety) ==
  [name |-> "orders", source |-> <<"shop", "orders">>,
   dimensions |-> <<D("at", "time", <<"hour", "day", "month", "quarter">>, "at"), D("status", "number", <<>>, "status")>>,
   measures |-> <<M("revenue", "sum", revenue, <<>>), M("n", "count", "id", <<>>), M("biggest", "max", "amount", <<>>),
                  M("mean", "avg", "amount", <<>>), M("buyers", "count_distinct", "cust", <<>>),
                  M("paid", "sum", "amount", <<R("status", "equals", <<1>>)>>)>>,
   relationships |-> <<Rel("customer", "many_to_one", "customers", <<"orders", "cust", "customers", "cid">>),
                       Rel("store", "many_to_one", "stores", <<"orders", "store", "stores", "sid">>)>>,
   pre_aggregations |-> pre,
   segments |-> <<[name |-> "second", filters |-> <<F(<<"orders", "status">>, "equals", <<2>>)>>]>>,
   safety |-> safety]
Pres == <<Pre("by_day", <<<<"at", "day">>, <<"status">>>>, <<"revenue", "n", "mean">>, TRUE),
          Pre("by_status", <<<<"status">>>>, <<"revenue", "n", "biggest">>, FALSE)>>
Customers(safety) ==
  [name |-> "customers", source |-> <<"shop", "customers">>, dimensions |-> <<D("region", "number", <<>>, "region")>>,
   measures |-> <<M("people", "count", "cid", <<>>)>>, relationships |-> <<>>, pre_aggregations |-> <<>>,
   segments |-> <<>>, safety |-> safety]
Stores ==
  [name |-> "stores", source |-> <<"shop", "stores">>, dimensions |-> <<D("city", "number", <<>>, "city")>>,
   measures |-> <<>>, relationships |-> <<>>, pre_aggregations |-> <<>>, segments |-> <<>>, safety |-> {}]
Tickets ==
  [name |-> "tickets", source |-> <<"shop", "tickets">>, dimensions |-> <<D("tat", "time", <<>>, "tat")>>,
   measures |-> <<M("asked", "count", "tid", <<>>)>>,
   relationships |-> <<Rel("customer", "many_to_one", "customers", <<"tickets", "tcust", "customers", "cid">>)>>,
   pre_aggregations |-> <<>>, segments |-> <<>>, safety |-> {}]

Op(member, filter) == [member |-> member, filter |-> filter]
Metric(name, filter, kind) == [name |-> name, filter |-> filter, kind |-> kind]
Ratio(a, b) == [is |-> "ratio", numerator |-> a, denominator |-> b]
Derived(op, a, b) == [is |-> "derived", text |-> "ok", tokens |-> <<a, b>>, op |-> op]
Cumulative(member, window, agg) == [is |-> "cumulative", measure |-> member, window |-> window, agg |-> agg]
Offset(member, n, output) == [is |-> "offset", measure |-> member, periods |-> n, output |-> output]
Share(member, over) == [is |-> "share", measure |-> member, over |-> over, agg |-> "sum"]
Rev == <<"orders", "revenue">>
Num == <<"orders", "n">>

Metrics == <<
  Metric("aov", {}, Ratio(Op(Rev, {}), Op(Num, {}))),
  Metric("second_share", {}, Ratio(Op(Rev, {R("status", "equals", <<2>>)}), Op(Rev, {}))),
  Metric("load", {}, Ratio(Op(<<"tickets", "asked">>, {}), Op(Num, {}))),
  Metric("gap", {R("status", "equals", <<1>>)}, Derived("minus", Op(<<"aov">>, {}), Op(<<"orders", "biggest">>, {R("amount", "gt", <<4>>)}))),
  Metric("running", {}, Cumulative(Rev, [is |-> "running_total"], "sum")),
  Metric("recent", {}, Cumulative(Rev, [is |-> "trailing", periods |-> 2], "avg")),
  Metric("to_date", {}, Cumulative(Num, [is |-> "grain_to_date", grain |-> "quarter"], "sum")),
  Metric("before", {}, Offset(Rev, 1, "delta")),
  Metric("part", {}, Share(Rev, <<<<"orders", "status">>>>))>>

Semantic(models, metrics) == {[models |-> models, metrics |-> metrics, time_spine |-> {}]}
Shop == [name |-> "shop", kind |-> "duckdb", raw_table |-> FALSE, tables |-> <<>>, config |-> [path |-> "shop.db"],
         url |-> {}, functions |-> <<>>]
Config(semantic) == [version |-> 1, sources |-> <<Shop>>, semantic |-> semantic, functions |-> <<>>]
Guard == {[require_filters_on |-> <<"status">>, require_at_least_one_filter |-> TRUE, max_rows |-> {1},
           required_predicates |-> <<[text |-> "ok", params |-> <<"store">>, col |-> "store", values |-> <<>>]>>]}
Base(metrics) == <<Orders("amount", Pres, {}), Customers({}), Stores, Tickets>>
Bad(metric) == Config(Semantic(Base(0), <<Metrics[1], metric>>))

MCConfigs == <<
  Config(Semantic(Base(0), Metrics)),
  Config(Semantic(<<Orders("net", Pres, {}), Customers({}), Stores, Tickets>>, Metrics)),
  Config(Semantic(<<Orders("amount", <<>>, Guard), Customers({}), Stores, Tickets>>, SubSeq(Metrics, 1, 3))),
  Config(Semantic(Base(0), <<Metric("a", {}, Derived("plus", Op(<<"b">>, {}), Op(Rev, {}))),
                             Metric("b", {}, Derived("plus", Op(<<"a">>, {}), Op(Rev, {})))>>)),
  Bad(Metric("self", {}, Ratio(Op(<<"self">>, {}), Op(Num, {})))),
  Bad(Metric("ghost", {}, Ratio(Op(<<"orders", "gone">>, {}), Op(Num, {})))),
  Bad(Metric("axisless", {}, Cumulative(<<"tickets", "asked">>, [is |-> "running_total"], "sum"))),
  Bad(Metric("ungrouped", {}, Share(Rev, <<<<"orders", "gone">>>>)))>>

Q(measures, dimensions, filters) ==
  [measures |-> measures, dimensions |-> dimensions, filters |-> filters, segments |-> <<>>, order_by |-> <<>>,
   limit |-> {}, time_zone |-> 0, params |-> <<>>]
Status == <<"orders", "status">>
Month == <<"orders", "at", "month">>
MCQueries == <<
  Q(<<Rev>>, <<Status>>, <<>>),
  Q(<<Rev, Num>>, <<Month>>, <<>>),
  Q(<<<<"orders", "mean">>>>, <<Month>>, <<>>),
  Q(<<<<"orders", "biggest">>>>, <<Status>>, <<F(Num, "gt", <<1>>)>>),
  Q(<<Rev>>, <<<<"customers", "region">>>>, <<F(Status, "in", <<1, 2>>)>>),
  Q(<<Rev, <<"tickets", "asked">>>>, <<<<"customers", "region">>>>, <<>>),
  Q(<<<<"customers", "people">>>>, <<<<"stores", "city">>>>, <<>>),
  Q(<<Num>>, <<<<"stores", "city">>>>, <<>>),
  Q(<<<<"aov">>>>, <<Status>>, <<>>),
  Q(<<<<"second_share">>, Rev>>, <<Month>>, <<>>),
  Q(<<<<"load">>>>, <<<<"customers", "region">>>>, <<>>),
  Q(<<<<"gap">>>>, <<>>, <<>>),
  Q(<<<<"running">>, <<"recent">>>>, <<Month>>, <<>>),
  Q(<<<<"to_date">>, <<"before">>>>, <<Month>>, <<>>),
  Q(<<<<"part">>>>, <<Status, Month>>, <<>>),
  [Q(<<Rev>>, <<Month>>, <<F(Status, "equals", <<1>>)>>) EXCEPT !.params = [store |-> 1]],
  [Q(<<Rev>>, <<Status>>, <<>>) EXCEPT !.limit = {1}, !.order_by = <<Status>>],
  [Q(<<Rev>>, <<<<"orders", "at", "day">>>>, <<>>) EXCEPT !.time_zone = 1],
  [Q(<<Rev, Num>>, <<>>, <<>>) EXCEPT !.segments = <<<<"orders", "second">>>>],
  Q(<<>>, <<<<"customers", "region">>, Status>>, <<>>),
  Q(<<Rev>>, <<>>, <<F(<<"orders", "at">>, "gte", <<1>>)>>)>>

MCRollupKeys == {<<"orders", "by_day">>, <<"orders", "by_status">>}
MCNameOrder == <<"customers", "orders", "stores", "tickets">>
=============================================================================
