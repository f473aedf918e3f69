---------------------------- MODULE CachedQueries ----------------------------
(***************************************************************************)
(* Queries over an HTTP table with a cache policy: CachedTableProvider     *)
(* (pawrly-engine/cache.rs) around HttpTableProvider (typed.rs).  The      *)
(* scan below it is the one HttpScan shows to return exactly the rows its  *)
(* filters and its limit ask for; the planner is the one of HttpScan.      *)
(***************************************************************************)
EXTENDS HttpRequests

CONSTANTS Table,         \* the table's parameters
          Data,          \* its rows: functions from columns to numbers
          Filters,       \* the WHERE clauses, sequences of filters
          Limits

VARIABLES entry,         \* the snapshot of the table, if there is one
          query,         \* the last query
          answer         \* and its rows

vars == <<entry, query, answer>>

Holds(e, r) == CASE e.f = "in" -> (r[e.col] \in Range(e.vals)) # e.negated
                 [] e.f = "cmp" -> r[e.col] = e.val
Matching(rows, filters) ==
  SelectSeq(rows, LAMBDA r : \A i \in DOMAIN filters : Holds(filters[i], r))
Limited(rows, n) == IF n = None \/ Len(rows) <= n THEN rows ELSE SubSeq(rows, 1, n)

\* supports_filters_pushdown is the inner table's: what it takes, the plan drops.
Taken(q) == SelectSeq(q.filters, LAMBDA e : CanPushDown(Table, e))
Left(q) == SelectSeq(q.filters, LAMBDA e : ~CanPushDown(Table, e))
InnerScan(q) == Limited(Matching(Data, Taken(q)), IF Left(q) = <<>> THEN q.limit ELSE None)

\* The provider's scan: a fresh snapshot is returned as it is; otherwise the
\* inner table is scanned with the filters and the limit, and what it returns
\* becomes the snapshot.
CachedScan(q) == IF entry # {} THEN CHOOSE rows \in entry : TRUE ELSE InnerScan(q)

Query(q) ==
  /\ entry' = {CachedScan(q)}
  /\ query' = q
  /\ answer' = Limited(Matching(CachedScan(q), Left(q)), q.limit)

\* The snapshot expires, or is invalidated.
Expire == entry # {} /\ entry' = {} /\ UNCHANGED <<query, answer>>

Init == entry = {} /\ query = [filters |-> <<>>, limit |-> 0] /\ answer = <<>>
Next == Expire \/ \E f \in Filters, n \in Limits : Query([filters |-> f, limit |-> n])
Spec == Init /\ [][Next]_vars

(* A query of a cached table returns the rows it asks for, as it would of   *)
(* the table itself.  Only queries that leave the source nothing to select  *)
(* are judged: the plan applies their filters and their limit to whatever   *)
(* it reads, so that a wrong answer means a snapshot that is not the        *)
(* table's (CachedTableProvider::scan, write_through).                      *)
CachedAnswers ==
  LET wanted == Matching(Data, query.filters) IN
  Taken(query) = <<>> =>
    /\ Range(answer) \subseteq Range(wanted)
    /\ Len(answer) = Len(Limited(wanted, query.limit))

-----------------------------------------------------------------------------
\* The run's table: three rows of two owners, and an owner parameter.
OwnedTable ==
  [params |-> <<[name |-> "owner", explode |-> FALSE, required |-> FALSE, accepts |-> {}, emit |-> EmptyMap]>>,
   endpoint |-> {}, requests |-> <<>>]
OwnedRows == <<[id |-> 1, owner |-> 1], [id |-> 2, owner |-> 2], [id |-> 3, owner |-> 1]>>
Eq(col, n) == [f |-> "cmp", col |-> col, op |-> "=", val |-> n, flipped |-> FALSE]
OwnedFilters == {<<>>, <<Eq("id", 2)>>, <<Eq("owner", 1)>>, <<Eq("owner", 2)>>}
OneOrAll == {None, 1}

==============================================================================
