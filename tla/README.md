# A TLA+ model of pawrly

pawrly is a federated SQL engine: sources (HTTP APIs, MCP servers, files, DuckDB
databases) appear as tables of one DataFusion session, results can be cached or
materialized as Parquet files, a semantic layer compiles measures and metrics to
SQL, and queries arrive from the CLI, a gRPC/REST server and an MCP server. This
directory models the parts of it where something can go wrong that a test hardly
reaches: state shared by threads, tasks and processes, what happens between two
writes or two answers, and algorithms whose wrong results look plausible. TLC
checks the models on small instances; TLAPS proves the central facts about the
cache, queries, durable activity, sources, tokens, namespaces, HTTP scans and MCP
sources for every instance.

Paths below are relative to `src/crates/`.

## 1. Inventory

| Component | State | Operations | What is hard | What makes it correct |
|---|---|---|---|---|
| Parquet cache and materialized tables (`pawrly-engine/src/cache.rs`) | `manifest.json`, one data file per table, `manifest.lock`, an in-memory manifest per process | scan, refresh, write-through, materialize, invalidate, drop, quarantine, vacuum | several processes on one directory; files are written and deleted outside the lock; lookups use the in-memory copy; crashes between file and manifest | writers merge; copies never go back; invalidated rows do not return; materialized entries stay until dropped; a snapshot answers like its table |
| Cache refreshers (`refresher.rs`) | a task per refresh or cron table | refresh on a timer | a refresh may race everything else; handles are lost on re-registration | a loop that leaks is one of a known overlap or dropped handler; a registration alone puts the handles right |
| Query execution (`local.rs`, `stream.rs`) | cancel registry, active count, guard, instrumented stream, completion slot | query, cancel, poll, drop | a query ends on many paths, on many threads | every path does the bookkeeping once; a cancel is not lost; every query ends |
| Activity log (`activity.rs`) | bounded channel | emit, drain | guards are dropped in poll and drop handlers, where waiting is not possible | one record per query, or a counted drop; never a wait |
| Durable activity (`durable_activity.rs`) | buffer, manifest, Parquet files, lock | record, flush, prune, scan, shutdown | drain, timer, scan, shutdown and other processes at once; files written before they are listed | no record twice, none lost silently, history kept for its retention |
| MCP server (`pawrly-mcp`) | cancel tokens by client id | tools/call, cancel_query | handlers dropped at an await; ids chosen by clients | cancel finds the running call; nothing runs on after its call is gone |
| Engine facade (`local.rs`) | sources, status, functions, variables, refresher handles | register, add, remove, reload | state is dropped before an await and rebuilt after; reload stops halfway | a source is listed iff its tables are; reload converges to the configuration |
| Namespaces (`namespace.rs`) | a cache manager per namespace, memoized | open, create, list, drop | two handlers opening one; a drop under a materialize | a stored table is found by the next lookup |
| HTTP source (`pawrly-sources/http`) | bindings, page cursor, rows, attempts, quota | bind, fetch, retry, page, extract, cap | boundaries of limit, `max_rows`, short pages; retries; servers that never end | exactly the rows asked for; requests, redirects and rows bounded; credentials go to trusted hosts only |
| MCP source (`pawrly-sources/mcp`) | pending requests by id, session, synthesized tables | connect, list, synthesize, call, page | answers late, out of order, foreign or never | an answer reaches its own request; a request without one is told; only admitted tools are called |
| Variables and OAuth (`pawrly-secrets`) | a cell per token, a keyring or an encrypted file | resolve, mint, rotate, connect | one refresh token, several stores and processes; answers lost | the stored token is the valid one; cached ones are alive; calls end |
| Configuration (`pawrly-config`) | none | assemble, interpolate, resolve, validate | scopes, precedence, references | each source gets the value meant for it; what validates compiles |
| Semantic layer (`pawrly-semantic`) | none | plan joins, route measures, expand metrics, cover by rollups | fan-out, shared names, windows over gaps | the answer of the definition on the base rows |
| Pre-aggregations (`preagg.rs`) | rollup tables in the cache, their refreshers | register, refresh, invalidate | rollups outlive processes and configurations | a fresh rollup answers like its rows; a refreshed one catches up |
| CLI (`pawrly-cli`) | the workspace's files, the value store | source add, remove, connect; variables set | several writes, interrupted | files keep loading, rewritten ones too; others stay untouched; the summary is true |
| Server and remote client (`pawrly-server`, `pawrly-client`, `pawrly-proto`) | calls and frames in flight | encode, authenticate, answer, stream, decode | lost connections, old daemons, errors in band | a remote engine answers as the local one |
| DuckDB pool, function rewriting, telemetry, clients in other languages | | | | not modelled (section 6) |

Interactions. A query handler (server or MCP) calls `LocalEngine::query`; the
guard it gets registers the query for `cancel` and, when it goes away, emits an
activity record into the channel; the drain task hands the record to the ring and
to the durable store. The plan scans `CachedTableProvider`s, which read the
in-memory manifest of the `CacheManager`, read or refetch a data file and write
through; below them an HTTP or MCP provider makes requests with tokens the
variable store mints. The refreshers, `refresh_table`, `materialize`, `invalidate`
and `vacuum` change the same manifest, in this process or in another. A semantic
query is compiled against the loaded models and may read a rollup, itself a
cached table. The CLI edits the files a (re)load assembles and connects the
variables the engine resolves. Dropping the engine flushes the durable store.

## 2. Modules

```
CacheEntries        entries, manifests, expiry
  CacheManifest     abstract: a manifest edited atomically
  CacheStore        the cache of one directory, implements CacheManifest
    CacheStoreProofs     theorems about CacheStore
    MCCacheStore
QueryLifecycle      a query from submission to the end of its guard
  McpQueries        MCP calls and cancel_query, composed with it
    QueryProofs          theorems about a query, then about the composition
DurableActivity     the durable store behind system.activity
    DurableActivityProofs
SourceRegistry      sources, their tables, refreshers and functions
    SourceRegistryProofs
HttpValues          JSON values, paths, expressions, cells
  HttpRequests      filters to bindings, requests, guard, quota, paging
    HttpScan        a query over an HTTP table, step by step
      HttpScanProofs
      MCHttpScan
    CachedQueries   the cached scan above it
  McpTables         tools to tables, results to rows
    McpSource       registration and queries over one session
      McpSourceProofs
      MCMcpSource
ConfigRules         validation
  SemanticCompile   models to plans; rollups; metrics to leaves and expressions
    SemanticSql         what a plan means
      SemanticLayer     loading, rollups, queries at run time
        MCSemanticLayer
ConfigTree          includes and globs
  ConfigLoad        interpolation, variables, secrets (with ConfigRules)
    Workspace       the commands that edit a workspace
      MCWorkspace
OAuthTokens         minting, rotation, connecting, two stores
    OAuthTokensProofs
    MCOAuthTokens
WireCodec           what the wire does to a value or an error
  WireCalls         requests, handlers and answers of both transports
    McpTools        the MCP server's tools, a third transport
  NamespaceRegistry managers of namespaces
    RemoteEngine    clients of a daemon, composed of all three
      RemoteEngineProofs  theorems about namespaces and streams
      MCRemoteEngine
```

An `MC` module holds the inputs of a run that a cfg cannot express; a run without
one takes the component's module as it is.

### CacheStore

An *actor* is a thread or task that runs one operation at a time in the process
`Owner[a]`. Its program counter names the next file-system call or critical
section, so operations interleave wherever the code does not hold the lock:

| pc | code (`cache.rs`) |
|---|---|
| `read` | `fresh` said yes; open and decode the file |
| `fetch`, `land` | the inner scan or `produce_materialize`; `atomic_write_parquet` |
| `lock`, `modify`, `publish` | `with_locked_manifest`: lock and read, closure and write, replace the in-memory copy and unlock |
| `aside` | the end of `quarantine` |
| `unlink` | `remove_file` after the lock was released |
| `reap`, `sweep`, `list` | `vacuum`: expired files, references, orphans |

The four closures given to `with_locked_manifest` are the values of `edit`:
`upsert`, `remove`, `drop`, `reclaim`. Contents of a table are the version of
its producer they were read from; the path of a table is its name. `tmp/` is
private to a writer until the rename, so writing and renaming are one step, and
whatever makes it fail is one fault. The in-process `flush_lock` and the file
lock are always taken together and are one lock. Faults are named: `crash` (a
process stops anywhere and may restart), `io` (a fetch or a write fails),
`bitrot` (a data file no longer decodes), `unreadable` (`read_manifest_disk`
takes a manifest it cannot read for an empty one).

`CacheManifest` is what the manifest promises: each write upserts one entry,
removes one entry, or reclaims exactly the expired cache copies of some moment
up to now. The refinement maps its `manifest` to `disk`.

### QueryLifecycle and McpQueries

`stage` follows a query: `planning` (in `LocalEngine::query`), `ready` and
`inner` (between polls; inside the DataFusion stream, after the cancel check),
`failed` (an error item was handed out), `closing` (the guard is being dropped,
the registry entry not yet removed), `done`. `DropGuard` is the whole of
`Drop for QueryGuard` but its last statement. A cancel can fall between any two
of these steps. `Emit` is `try_send` on a bounded channel. `doomed` is a ghost:
cancelled queries that have since been outside a poll.

`McpQueries` adds `run_cancellable`: a call registers a token under a client's
id, its future races the token, and `finish` removes the id. A client that
disconnects drops the handler at its await: the future and the engine's guard go,
nothing after the await runs. Each query of the composed model is one submitted
directly (gRPC, REST, or without an id) or by a call; `QueryLifecycle`'s actions
are reused as they are, restricted by who drives them. `QueryLifecycle` has a
`Spec` of its own, to be proved about; the run is of the composition.

### DurableActivity

Each process has up to four tasks, each an actor `<<process, role>>`: `drain` in
every process, `timer`, `scan` and `drop` in those of `Timers`, `Readers` and
`Closers`. A flush takes the buffer under its mutex (`Take`), writes
a file (`Write`), locks and reads the manifest (`Lock`), and lists the file
(`Push`). `prune` removes the files whose newest record is too old one by one and
then writes the manifest. `read_batches` reads the manifest, the files, the
buffer. A file is never rewritten, so it is the set of its records. Ghosts:
`lost` (records given up by a failed write, a crash or retention) and `due` (what
a shutdown should not miss).

### SourceRegistry

A caller runs one of `add_source`, `remove_source`, `refresh_catalog` and
`reload_config`; each access to the source list, the catalog, the map of
refresher handles or the function registry is a step, as each has a lock of its
own. `register_source` is `Pick` (abort the refreshers), `Deregister` (drop the
schema), `RegistryOk` or `RegistryFails` (the registrar of the source's kind, the
one real await), `Wrap` (spawn refreshers), `KeepHandles`, `List`;
`remove_source_inner` is `PickRemoval`, `Forget`, `DropSchema`,
`RemoveFunctions`. A reload compares the configuration with the list once, then
registers, removes, and rebuilds all functions. `loops` counts the running
refreshers of a source and `handles` those the map can abort. A function's
connection is `shared` with its source or `parallel` to it. An ATTACH of a name
that is already attached fails: this is DuckDB's behaviour, and nothing in the
repository detaches. `shutdown` takes the handles of all sources at once.

Nothing in the code keeps two callers off one source, and nothing in the model
does: the whole of two registrations, or of a registration and a removal, may
interleave, and a handler may be dropped with the handles of some tables in its
hands. Four ghosts say what happened, and the properties excuse by them what the
code does not promise: `broken` (the last registration of the source did not
complete), `contested` (two callers were at work on it at a time, and none alone
since), `strayed` (two callers ever were, or a handler was dropped while it held
new handles), `drained` (a shutdown has taken its handles). `touched` holds what
another caller has worked on during a reload. `RefreshersFollow` is then two
statements: a refresher without a handle exists only on a source that strayed, and
a registration alone on its source sets the handles right, whatever leaked before.

### HttpValues, HttpRequests, HttpScan

A behaviour runs one query of `Cases`. The planner is external and does what the
code tells it: it keeps a filter the provider calls unsupported or inexact, and
hands a limit down only when it keeps none. `scan_bound` turns filters into
binding sets (an IN list or an `explode` parameter fans out); `fetch_rows` is the
loop over pages of one binding, with the checks in the code's order: page cap,
throttle, target and address guard, request with retries, body, error
expression, rows, columns, `max_rows`, limit, next page. The request is one step,
the server's answer another: it answers truthfully or, `maxFaults` times, with an
error status, HTML or a transport failure. It may redirect instead, and the client
follows as the guard's policy says (`guard.rs:164-177`): up to five times, each
time to a target that is allowed and, for a table with credentials, trusted; the
request of every hop is recorded and checked like the first (`hops`, `via`). A
target knows whether it has the base's origin, whether its host is the base's on
whatever port (all that `name_trusted` asks before a name may answer from a private
address), and whether it is listed. A path of the raw table may be an absolute URL,
which `base_url.join` takes for another host (`RawTarget`). The clock moves only by
the waits the code makes. A row's data are numbers and small JSON trees; casts
and expressions (`expr.rs`) are modelled by what they do, with 32- and 64-bit
bounds `Max32` and `Max64`. The dependent join calls the scan once per distinct
value of its other input; a table function builds the spec from its arguments;
the raw table's rows are its answers.

`CachedQueries` puts `CachedTableProvider::scan` above it, with the scan taken as
what `HttpScan` shows it to be. Its module also holds the small table of its run.

### McpTables, McpSource

`McpTables` is pure: which tools are admitted, the table a tool becomes (from its
input and output schemas, through `pawrly-schema`), how `tables:` patches it, the
arguments a scan binds, where rows are found in a result, and cells. `McpSource`
is the session: `next_id`, the `pending` map, the reader task line by line, or an
HTTP exchange with a JSON or an SSE body; the handshake, `tools/list` pages, and
the page loop of `fetch`. A registration runs first, then the jobs of the scenario
concurrently. The server answers in any order and may, once each, send a
notification, a foreign id, garbage, an error, or exit. A line that is no JSON is
skipped; one that is not UTF-8 ends the reader task (`stdio.rs:60`), while the
child runs on and takes requests: it and everything after it stay unread
(`ReaderEnded`).

### ConfigRules, ConfigTree, ConfigLoad, Workspace

A YAML document is a tree whose scalars know whether they are references.
`Assemble` follows `include:`, `from:` and `semantic.include:`; `LoadAutoWithVars`
is passes A (secrets, environment, files) and B (variables in the scope root,
fragments, source). `ConfigRules` is the validator, rule by rule. `Workspace` runs
`source add` (classify, fetch or import, verify, write file, write glob, offer to
connect), `source remove`, `source connect` (static variables, then OAuth
bindings, with the three counters) and `variables set`, each write a step, with
an `Interrupt` between writes or inside one. A command that rewrites the root
manifest reads it into the typed `Config` and writes that (`WriteConfigYaml`), which
is not the identity: the kind of a metric is written as a YAML tag, `kind: !ratio
{..}`, and reading refuses that form (`Serialized`, `FromValue`). `source add`
leaves a root that already has the glob alone; `source remove` rewrites it when a
source is declared there. `Spoiled` is the state after such a rewrite. `hurt` is a
ghost that remembers what
an interruption left (a glob without a file, a name twice because of it, a torn
file).

### SemanticCompile, SemanticSql, SemanticLayer

The compiler's result is a plan: joins in order, grouped expressions, aggregates,
predicates, limit. `SemanticSql` gives plans their meaning on tables of rows; it is
external, as DataFusion executes the SQL. `Expected` in `SemanticLayer` is an
independent definition: look each fact row up along the shortest chain of
relationships, count it once in each group, aggregate each measure over its own
fact. `SemanticLayer` adds time: configurations are loaded, rows inserted, rollups
registered, refreshed, invalidated, and the cache outlives a restart.

### OAuthTokens

`resolve` takes the lock of a cell, serves a token that is fresh for 30 more
seconds or mints one: read the stored refresh token, post, keep the rotated one
(read, then write of the encrypted file or keyring), cache, unlock. The command
line connects by device code or loopback in a process of its own. The provider
rotates at will; answers can be lost, processes die, a reload adds a second store
over the same tokens. `contended` is a ghost: ids whose token a race, a crash or a
lost answer may have cost. One unit of time is the skew of 30 seconds, which is
also the client's timeout; time passes only while somebody waits.

### WireCodec, WireCalls, McpTools, NamespaceRegistry, RemoteEngine

Every call of `EngineService` goes through the client's encoding, authentication,
the handler's decoding, an abstract engine that gives any of a set of answers or
errors, and back, over gRPC or REST. Queries stream frames through a window.
`McpTools` is the same for an agent: a `tools/call` decodes its arguments, makes
one engine call or several (`list_columns` describes table after table,
`call_function` looks the function up before it builds the SQL), caps what it
returns, and answers with a result, a tool error or a JSON-RPC error.
`NamespaceRegistry` is the one part of the engine kept concrete: the memo of
managers, their in-memory manifests and the directories, with `open_or_create`,
`drop_namespace` and materialize in the steps the code takes. An old daemon drops
namespace fields; a newer one sends unknown variants. A REST result takes its
columns from its first batch, so one without a batch has none, and the client's
`json_rows_to_batch` fails on it (`JsonRowsToBatch`, `NoBatch`). `kept` is a ghost: tables
stored and not met by a drop since their handler opened the namespace.

## 3. Runs

| Run | Instance | Shows |
|---|---|---|
| `cache_merge` | two processes, a cached and a materialized table, all seven operations, crashes and failed writes | `ImplementsManifest`: concurrent writers merge; `MemoryNeverRewinds`; `PinnedLeavesOnlyByName` |
| `cache_scans` | two processes on a cached table with a TTL, two source versions, crashes, failed fetches and writes, rotten files and an unreadable manifest, with fairness | `NoStaleAfterInvalidate`: once an invalidate has removed a table with no fetched rows about to land, no process serves older rows from the file; `OperationsEnd` |
| `queries` | two queries, each direct or an MCP call under one id, a channel of one record | `OneRecordPerQuery`, `OkIsClean`, `CancelHonored`, `CancelReaches`, `NoRunawayQuery`, `QueriesEnd`, `CancelReturns` |
| `activity` | two processes with five tasks, two records, crashes and failed writes | `Accounted`, `ReadOnce`, `ShutdownPersists`, `HistoryKept` |
| `sources` | two callers on one source in every interleaving, its definitions without refreshers and with a function, with refreshers, and in an attached database of two tables; failing registrars, dropped handlers, shutdown | `ServedAsListed`, `RefreshersFollow`, `ReloadConverges` |
| `http` | one query at a time over four rows behind pages of two: every filter shape, paging scheme, limit, cap, column type, target, redirect, address and fault | `RowsExact`; `BoundedScan`; `PaceHonored`; `ScanEnds` |
| `semantic` | two facts and two lookups, several configurations (some with cycles or bad references, which validation refuses), a set of queries, two rollups, two late rows | `AnswersExact`; `LoadedCompiles`; `RollupCatchesUp` |
| `workspace` | an empty workspace, one with a fragment and one with a metric in its root; one variable declared at three levels, one that can be connected or pasted, a required secret; three environments | `LoadedValues`, `WorkspaceAssembles`, `OthersUntouched`, `ConnectHonest` |
| `tokens` | five setups: two stores over a keyring, connecting again, two processes on one file, the device flow, an aging token | `RefreshKept`, `CachedTokenLives`, `CallsEnd` |
| `wire` | every call alone over both transports and every tool, with loss, a wrong token, an old daemon; pairs of calls that meet in a namespace or at a query | `AnswersAsLocal`, `GrpcStreamsWhole`, `MaterializedListed`, `CallsReturn` |
| `mcp` | two queries over one session, both transports, every way of exposing tools, each fault | `McpAnswersExact`, `ToolsGuarded`, `McpCallsSettle` |
| `cached_filters` | a cached HTTP table of three rows with one parameter | **violated**: `CachedAnswers` (finding 1) |

Bounds and why they are enough.

* Cache. Every race is between two operations on one table, or between an
  operation and a vacuum of all; two actors and two tables contain them, and two
  processes are harsher than two threads of one (they do not share the in-memory
  copy). `MaxVersion = 1` distinguishes old rows from new, `Ttl = 1` and
  `MaxClock = 1` an expired entry from a fresh one. `cache_merge` needs no
  versions: its properties are about entries. Its processes are symmetric.
  `cache_scans` has no vacuum, whose one write is made under the same lock.
* Queries. One id for two calls makes them reuse it, and a channel of one record
  is full when the second query ends before the first is drained. `UniqueIds =
  TRUE` excludes two concurrent calls with one id: the code lets the second make
  the first unreachable.
* Activity. `Threshold = 2` allows a flush by the drain and by the timer,
  `Retention = 0` and one tick allow a prune, and two records a file with an old
  and a new one.
* Sources. Two callers are enough for every overlap on one source, and with one
  source each overlap is on it; definitions tell a refreshed source from one
  without refreshers, and two tables let a dropped handler hold the handles of one.
  `MaxLoops = 2`: a source with more refreshers running than its tables is only
  removed, as overlaps would add to them for ever. One source leaves a reload only
  itself to fail on; that reloads of many converge is proved (`ReloadsConverge`).
* HTTP. Four rows of two owners behind pages of two: one owner ends in a short
  page, the other fits exactly, all of them fill two pages exactly, so every off
  by one shows. Redirects lead from home to another port, a listed host, a foreign
  one and back home, so that a chain may be cut by the policy or by its length.
  `Max32 = 7` and `Max64 = 20` stand for the integer limits and are
  exceeded by some cells.
* Semantic. Both facts share a lookup; relationships are followed in both
  directions, so that the chain from customers over orders to stores fans out on
  its first edge only; a late row leaves a gap on the time axis.
* Workspace. The metric is in its own workspace, as any rewrite of that root ends
  its loading. At most one value is pasted (`MaxPasted`), and states after a torn
  file are not explored: nothing in the code repairs one.
* Tokens. `Skew = Timeout = 1`, lifetimes of two units, at most one rotation: a
  token is fresh, stale by the skew, or dead.
* Wire. Limits of 2 and 3 rows and `I64Max = 2` put every result on both sides of
  each; `Window = 2` lets a producer run ahead of its reader.
* MCP. Pages of one row and `MaxPages = 2` end a listing by the cap, by a missing
  cursor and by a limit.

Deadlock is checked except where the modelled actors are done when their calls
are: `tokens`, `wire` and `mcp` (all calls made) and `workspace` (the bound on
values).

Fairness.

* `CacheStore`: a started operation keeps taking steps (its thread is scheduled,
  its system calls return), and a waiter is not passed over forever
  (`flock` and `parking_lot` hand over), hence strong fairness for `Lock`.
  Nothing is assumed of new operations, ticks, faults or restarts.
* `McpQueries`: a task keeps running; planning and the DataFusion stream do not
  stay pending forever, which source timeouts justify, *except* for a query
  whose call was cancelled, so that `CancelReturns` does not rest on it; a
  `select!` whose token is cancelled is woken. Nothing is assumed of the drain:
  `QueriesEnd` holds with a recorder that never takes a record.
* `HttpScan`: weak fairness of the scan's next step; a redirect chain is cut. Every request has the
  client's timeout, so one that is awaited returns.
* `SemanticLayer`: a refresher that is running keeps ticking (its loop sleeps for
  a finite interval); strong, as an unread answer interrupts it. Nothing is
  assumed of queries, inserts or restarts.
* `OAuthTokens`: tokio's mutexes are fair queues, hence strong fairness for the
  step that takes one; the engine's client has a timeout of 30 s, so a provider
  need not answer it; the command line's client has none, so for it the provider
  is assumed to. The clock runs.
* `RemoteEngine`: weak fairness of each call's next step: the engine answers, and a
  lost connection is noticed.
* `McpSource`: tasks and the reader run, and a living server answers what it
  received; the reader does not go on after a line that is not UTF-8. There is no
  timeout in the code, so without that nothing ends.

## 4. Findings

1. *A cached table answers with the rows of an earlier query*
   (`cache.rs:650`, run `cached_filters`). On a miss the scan passes the query's
   filters and limit to the source and stores what it gets as the table's
   snapshot. In the run the first query has a filter (or a limit) and leaves a
   snapshot of its own rows; the second asks for the whole table and gets these.
   The run judges only second queries that leave the source nothing to select. A
   second defect has the opposite cause and is left out of it: a hit returns the
   whole snapshot (`cache.rs:635-639`), also to a query whose filter the plan has
   dropped because the source promised to apply it.
Four more follow from what the model does. No run of their own states them; each
is excepted by name from the passing property it would break, which thereby says
that nothing else does.

2. *Overlapping registrations leak refreshers* (`local.rs:838`), though the comment
   at `local.rs:86-89` says that "re-registration never leaks tasks". Both abort
   the old handles, both spawn, and the second insert drops the handle of the first
   one's task, which nothing can abort any more. A handler dropped between two
   tables of an attached database has the same effect (`local.rs:802-839`).
   `RefreshersFollow` excepts both (`strayed`), and `LeaksExplained` proves that
   they are the only ways.
3. *A rewritten root does not load* (`source.rs:1206`). `source add` and
   `source remove` write the typed configuration with `serde_yaml`, which gives a
   metric's kind the form `!ratio {..}`; `MetricKindRepr` (`semantic.rs:458-472`)
   refuses it, and with it the whole workspace, though `source.rs:1196` names
   "comments and key ordering" as all that is lost. `WorkspaceAssembles` excepts
   such a root (`Spoiled`), `OthersUntouched` the form of the kind.
4. *An empty REST result is an error* (`rest_client.rs:161`; `architecture.md:91`:
   "Identical results in every mode is a hard invariant"). A result without a batch
   has no columns on the wire; the client calls `RecordBatch::try_new` with an empty
   schema and no row count, which arrow refuses. The engine, gRPC and the CLI answer
   with no rows. `AnswersAsLocal` excepts it (`NoBatch`).
5. *A request to an MCP child that has exited hangs* (`stdio.rs:106`). `request` has
   an error for it, "server closed the connection", which no request ever gets: the
   transport itself keeps the senders in `pending` alive. A line that is not UTF-8
   ends the reader with the same effect on every request from then on, while the
   child runs on. `McpCallsSettle` excepts both (`Abandoned`).

Disagreements between the code and its documentation that were met while
modelling, and that no run states. They are excluded by name from the
properties they would break.

* Cache: vacuum's orphan sweep deletes the file of a racing materialize
  (`cache.rs:294-314`; `cache.rs:41-43` says "must never be auto-reclaimed"). A
  refresh of a materialized table that overlaps a drop brings it back
  (`local.rs:1275`).
* Queries: a query whose consumer goes away is recorded as an error without a
  code (`stream.rs:134`; `activity.rs:111` of `pawrly-core`). After a disconnect
  an id stays registered and `cancel_query` answers true (`dispatch.rs:146`;
  `docs/mcp.md:93`).
* Activity: a scan misses the records a flush holds (`durable_activity.rs:167`;
  `system_table.rs:172`).
* Sources: ATTACH is never undone, so such a source cannot be registered twice
  (`duckdb_source.rs:427`; `docs/api.md:61`). A function keeps the connection its
  source had (`local.rs:851`; `docs/functions.md:249`). A registration that fails
  leaves the source listed without tables, and a reload with an unchanged
  definition does not heal it.
* HTTP: the comment at `guard.rs:1-4` trusts what is same-origin with `base_url`
  or listed; the code trusts a name by its host alone, on any port
  (`guard.rs:215-218`), and the model follows the code. A quota's reset time is
  ignored within one scan (`docs/sources.md:794`);
  the Retry-After of a rate-limited answer that is left after the last retry, and
  that the table does not declare an error, is forgotten, as the answer is read as
  a page;
  a filter on the raw table's `request_method` is not pushed down, so its scan
  always sends GET (`raw.rs:66`, `raw.rs:90`; `docs/sources.md:188`); the cap of
  a dependent join can make a LIMIT return fewer rows; columns of type float
  always fail (`docs/sources.md:675`).
* Semantic layer: a rollup that truncates a time answers filters on the raw value
  (`rollup.rs`, `covers`; `docs/semantic.md:286`). Models behind an ambiguous name
  are accepted silently; a measure filter on a fact that is not selected gives
  invalid SQL; a COUNT over an empty rollup is NULL; a rollup stored under an
  older definition survives a restart, as it is found by name only, and one whose
  definition no longer compiles makes the query fail; a grain missing from
  `grains` disables a pre-aggregation silently.
* Variables: switching a variable from a pasted value back to OAuth is not
  offered (`docs/variables.md:336`); two processes rewrite the encrypted file
  without a lock (`docs/variables.md:378`); opening a store with
  `PAWRLY_TOKEN_KEY` set overwrites a random key file; two mints that overlap
  spend one refresh token twice.
* CLI: a diamond of includes is reported as a cycle (`docs/config.md:251`); a
  `source connect` of one variable says "fully set up" while others are missing;
  importing a fragment with one source drops its `variables:`; a source declared
  in a fragment is reported removed and stays.
* MCP source: a request of the server whose id equals a pending one is taken for its answer; no
  call has a timeout; `tools/list` has no page cap and `max_pages` cuts a result
  silently; `include` never admits a tool, though the documentation of `listed`
  and the hint of MCP_TOOL_HELD_BACK say so; `basic` authentication is ignored;
  required arguments are not enforced.
* Wire: over gRPC `Some([])` and `Some("")` become None, an unknown filter
  operator reads as Equals and an unknown function kind as Http; over REST a u64
  above the i64 range wraps, a NaN makes its column text, queries have no id and
  cannot be cancelled, `false` of a drop becomes an error, and timeout and trace
  id are dropped; an unauthenticated gRPC status has no code; safety codes arrive
  as PAWRLY_INTERNAL. `LocalEngine` ignores `max_rows` and the timeout, and
  `truncated` is always false (`stream.rs:175`; `service.rs:53`). A materialize
  that holds a manager while its namespace is dropped and opened again stores a
  table that is not listed (`namespace.rs:66-68`).
* MCP tools: `call_function` limits its query to `max_rows`, not one more, so its
  `truncated` is always false; arguments it does not know are ignored;
  `list_columns` fails when a table vanishes between the listing and its turn.

## 5. Proofs

The theorems hold for any sets of tables, processes, actors, queries, records,
sources, ids and namespaces, any faults and any bounds. They assume the named
`ASSUME`s of the modules and the conditions in the third column. "Checked" marks
the ones a run also checks on its instance.

| Theorem | Statement | Condition | |
|---|---|---|---|
| **CacheStoreProofs** | | | |
| `Invariance`, `TypeCorrect` | `Spec => []IInv`, `[]TypeOK` | | |
| `InvalidateIsFinal` | `[]NoStaleAfterInvalidate` | | checked |
| `MemoryMovesForward` | `MemoryNeverRewinds` | | checked |
| `WritersMerge` | `ImplementsManifest` (refinement) | no fault `"unreadable"` | checked |
| `PinnedIsExplicit` | `PinnedLeavesOnlyByName` | no fault `"unreadable"` | checked |
| **QueryProofs** | | | |
| `QueryInvariance` | `Spec => []IInv`: registry and active count are exact | | |
| `OneRecord` | `[]OneRecordPerQuery` | | checked |
| `OkRecordsAreClean` | `[]OkIsClean` | | checked |
| `CancelsAreHonored` | `[]CancelHonored` | | checked |
| `McpImplementsLifecycle` | `McpSpec => Spec` (of `QueryLifecycle`) | | |
| `McpKeepsLifecycle`, `McpOneRecord` | `McpSpec => []IInv`, `[]OneRecordPerQuery` | | checked |
| `McpTypeCorrect` | `[]McpTypeOK` | | |
| `NoQueryOutlivesItsCall` | `[]NoRunawayQuery` | | checked |
| `CancelFindsTheCall` | `[]CancelReaches` | `UniqueIds` | checked |
| **DurableActivityProofs** | | | |
| `Invariance`, `TypeCorrect` | `Spec => []IInv`, `[]TypeOK` | | |
| `RecordsAccounted` | `[]Accounted` | | checked |
| `ScansReadOnce` | `[]ReadOnce` | | checked |
| `CleanShutdown` | `[]ShutdownPersists` | | checked |
| `HistoryIsKept` | `HistoryKept` | | checked |
| **SourceRegistryProofs** | | | |
| `Invariance` | `Spec => []IInv` | | |
| `ListMatchesCatalog` | `[]ServedAsListed` | | checked |
| `LeaksExplained` | `[]RefreshersFollow` | | checked |
| `ReloadsConverge` | `ReloadConverges` | | checked |
| **OAuthTokensProofs** | | | |
| `TokensAgeInTime` | `Spec => []TimeInv` | | |
| `ServedTokensLive` | `CachedTokenLives` | | checked |
| `TokensHaveOneHolder` | `Spec => []KeepInv` | | |
| `RefreshTokensAreKept` | `[]RefreshKept` | `KeysAgree` | checked |
| **RemoteEngineProofs** | | | |
| `OneManagerPerNamespace` | `Spec => []NsInv` | | |
| `MaterializedTablesAreFound` | `[]MaterializedListed` | | checked |
| `StreamInvariant` | `Spec => []StreamInv` | | |
| `GrpcStreamsAreWhole` | `[]GrpcStreamsWhole` | | checked |
| **HttpScanProofs** | | | |
| `ScanInvariant` | `Spec => []ScanInv` | | |
| `BoundedScanHolds` | `[]BoundedScan` | | checked |
| `PaceHonoredHolds` | `[]PaceHonored` | | checked |
| **McpSourceProofs** | | | |
| `SourceInvariant` | `Spec => []SourceInv` | | |
| `ToolsAreGuarded` | `[]ToolsGuarded` | | checked |

The conditions are necessary, and each names something the code does not do.
A manifest that cannot be read counts as empty, and the next write makes that
permanent (`"unreadable"`). Two concurrent calls under one id make the first
unreachable (`UniqueIds`). `resolve_key` overwrites the key on disk with `PAWRLY_TOKEN_KEY`, so
an engine started with another key than the command line has makes a file written
under the old key unreadable (`KeysAgree`: the variable is unset for the engine, or
the same as for the command line).

The two data-heavy modules assume of their inputs what Rust's types say of them:
caps are unsigned, lists are finite and values are JSON (`CasesAssumption`,
`JsonAssumption`), and the rows of the modelled API have the fields its pages are
built of; a server's listing has at most `Len(Cursors)` pages, and a function's
spec names its tool, which is not optional in `McpTableSpec`
(`ScenariosAssumption`). The wire assumes that the engine's result is record
batches followed by an error or the end, as `QueryStream` yields it, and that
clients' names, which stand for the query ids the server mints, are not empty
(`ResultsAssumption`).

None of the properties is inductive. The arguments:

* *Cache.* `IInv` adds to `TypeOK`: `LockInv` (an actor is at `modify` or
  `publish` exactly while it holds the lock, so there is one at most),
  `PublishInv` (at `publish` its buffer *is* the manifest on disk, from which
  `MemoryNeverRewinds` follows), `OpInv`, `EditInv` and `OriginInv` (which
  operation works on which kind of table with which closure, so that only a
  removal by name can hit a materialized entry), and `FloorInv` (fetched rows and
  files are at least as new as the table's floor, from which
  `NoStaleAfterInvalidate` follows). `BufferInv` (at `modify` the buffer is the
  manifest on disk) holds when the manifest is readable and gives the refinement:
  `WriteManifest` is then an atomic edit of `disk`, and every other step leaves
  the manifest alone.
* *Queries.* The guard goes away once, on a path that marks it ok only where
  nothing failed (`StageInv`); a cancel that takes effect leaves the query on the
  other paths (`DoomInv`); the registry is the set of queries between submission
  and the last statement of the guard's drop (`RegistryInv`), the active count the
  number whose guard lives (`ActiveInv`); each guard leaves one record in the
  channel, in the log or among the dropped ones (`ChannelInv`, `OnceInv`,
  `CountInv`, which counts sets).
* *MCP calls.* Every step of the composition is a step of `QueryLifecycle` or
  leaves its variables alone, so its theorems carry over. `RunawayInv` and
  `TokenInv` add what a call's state says about its query and its token.
* *Durable activity.* The lock brackets every read-modify-write of the manifest
  (`LockInv`) and a task holds records exactly while it flushes (`PcInv`); so the
  places of a record stay disjoint (`Apart`) and every record is in one (`Born`),
  which is `Accounted` once the sets are counted. `ScanInv` says what a scan may
  still open, `DueInv` where the records of a shutdown are, `CutoffInv` that a
  prune deletes nothing that is still to be kept.
* *Sources.* No lock orders two callers, so the invariant says what holds of a
  source on which there is one: two on it are known (`WorkerInv`), and how far the
  one has got tells what the list, the catalog and the handle map hold (`ServedInv`,
  `HandleInv`); an overlap or a failure suspends this, and the next registration
  alone restores it, which is why it is inductive. Refreshers are counted:
  those running are those the map and the callers hold, until the source strays
  (`LeakInv`). What a reload has still to do, and what others have touched since it
  began, explain every difference between the list and its configuration
  (`TouchInv`, `GoneInv`, `ReloadInv`), overlaps or not.
* *Tokens.* The expiry kept for a token is counted from the arrival of the
  answer. A request is younger than the timeout until it is given up, so the kept
  expiry is late by at most the timeout (`CellsHonest`), and the skew covers that
  (`TimeAssumption`). For `RefreshKept`, `KeepInv` says where the newest token of
  an id that is not contended is: at most one call is live (`Solo`); the token is
  in its hand once the provider has answered (`HandInv`) and in the value store
  otherwise (`StoredInv`), where a task that is going to refresh has read it
  (`UseInv`) and no file shadows the keyring (`FileInv`). Contended or not, nobody
  else has a token of the grant that the command line has just received
  (`TokenInv`), so connecting again starts from a clean slate. `KeyInv` adds that
  whoever opens the file finds the key it was written with.
* *Namespaces.* Two namespaces never share a manager, and what the memo holds is a
  manager that exists and is not the default one (`MemoInv`). A kept table is in
  the manifest on disk, has its file, and is in the memory of the open manager
  (`KeptInv`). A call whose namespace was not dropped under it holds the manager
  that the next lookup finds, and one that a drop has overtaken never holds the
  manager of another namespace (`CallInv`). The steps of the wire, of streams and
  of tools leave the registry alone.
* *Streams.* A gRPC call has no result yet, or it has one (`StreamInv`). From then
  on what the client has, followed by the rows of the frames in flight, is a
  prefix of the engine's rows (`PrefixInv`), and while the server still pumps, it
  is exactly the rows of the items taken so far (`FeedInv`), which `sent` counts.
  So a completion frame, whose rows are `sent`, has all of them before it, and an
  end comes after a completion or an error (`FrameInv`). A cancel puts an error in
  the place of what is left to take, a lost connection one in the place of frames
  that were under way: both keep a prefix without a completion. The client alone
  sees neither the frames nor the items, so the property itself is not inductive.
* *HTTP scan.* The requests made so far are at most what the bindings, pages and
  attempts used up allow, wherever the loop is (`BudgetInv`): without the program
  point the bound is not inductive, as the next request may be the last; a request
  and the redirects it follows count as one, and the hops of each are bounded by
  the policy. A target is checked before it is sent to, whether it comes from the
  base URL, a path of the raw table, a next link or a redirect, and the retries of a
  page keep it (`TargetInv`); the rows of finished bindings are within the cap and the limit
  (`RowsInv`), which `EndFetch` preserves because of what `Remaining` handed to the
  fetch. `PaceInv` says how far the clock is from what the last answer asked for:
  passed before a retry, still ahead by the throttle computed from that answer
  before the next page. That the throttle computed from a body is a number, and
  that a page's rows are a list whatever its body, are lemmas about the evaluator.
* *MCP source.* While a source registers, nobody else uses its connection
  (`AloneInv`), and ids are counted up, so nothing on the connection answers a
  request that is not sent yet (`IdInv`). Hence what answers the request for a page
  of tools is a page of the server's list, or an answer that is no listing
  (`PageInv`), and the tools synthesized are listed ones. Afterwards answers no
  longer matter: what a table or a task may call is fixed (`CallInv`). That
  synthesis admits only exposed tools, and that a patch of a table keeps its tool
  or names another in the configuration, are the lemmas `SynthesizedGood` and
  `ApplyTableDefsKeeps`.

Each invariant is shown with one step per action, and was checked by TLC on the
run's instance before it was proved.

Recursive functions (`Pick`, a series' rows, the fan-out of bindings, the patches
of `tables:` applied one after the other, the rows of a list of batches) are proved about by induction in the
form of a set: the numbers at which a statement fails have no least one
(`NatSetInduction`, from the library's `WFMin`). This does not reach operators
declared RECURSIVE.

Only model-checked:

* liveness (`OperationsEnd`, `QueriesEnd`, `CancelReturns`, `ScanEnds`,
  `RollupCatchesUp`, `CallsEnd`, `CallsReturn`, `McpCallsSettle`), out of the
  prover's reach;
* what is compared with answers that an instance gives (`RowsExact`,
  `McpAnswersExact`): the answers are right for those inputs, and only for them do
  they mean anything;
* the semantic compiler and the configuration trees (`AnswersExact`,
  `LoadedCompiles`, `LoadedValues`, `WorkspaceAssembles`, `OthersUntouched`,
  `ConnectHonest`): they rest on RECURSIVE operators over trees and plans, which
  the prover cannot reason about;
* `AnswersAsLocal`, which compares a whole conversation with the codec's
  definition, case by case over the operations, and for queries the rows that
  arrive over REST and from tools.

## 6. What is not modelled

* Text: SQL, YAML, Parquet and JSON encodings, messages, formatting, logging,
  metrics, argument parsing; generated protocol code; the clients in other
  languages and the console, which talk to the public API.
* DuckDB: the pool (`duckdb_pool.rs`: permits, extensions loaded between checkout
  and return) and the scan of DuckDB tables.
* Function rewriting (`functions/rewrite.rs`, `udtf.rs`): a transformation of
  syntax trees; the calls it leads to are in `HttpScan` and `McpSource`.
* MCP server: the stdio loop (one request at a time), texts of results, the tools'
  schemas.
* Activity: the in-memory ring; records still in the channel when the engine is
  dropped; the timer's liveness.
* Refreshers' timing: a refresh may start at any time. `health`, projections and
  listings only read.
* HTTP: OpenAPI import, authentication headers and the source's own OAuth bearer
  (`source.rs:687-752`); that a float column fails is modelled as it is.
* MCP source: authentication headers, the child's environment, sessions of
  standalone functions; a request cut off in the middle of a line; tables
  registered before a name clash, as jobs start only after a registration that
  succeeded; re-initialization after an expired HTTP session, which the code does
  not do.
* Variables: deleting values; torn writes of the encrypted file; two processes
  creating the key file at the same moment; a keyring that goes down between two
  accesses of one call. `PAWRLY_TOKEN_KEY` set for the engine and not for the
  command line is excluded from the instance, as it overwrites the key.
* CLI: the branches of `source add` and `remove` that talk to a daemon; layouts
  that `source add` does not write (a file whose `name:` differs from its path, an
  explicit include beside the glob). One operator runs one command at a time.
* Semantic layer: the calendar table of `time_spine` (defined, not exercised).
* Wire: the loopback guard of the listeners, OpenAPI, console assets, CORS, the
  layout of CSV. A drop inside a manager is one step.

## 7. Plan

1. **DuckDbPool** (permits, extensions).
2. **ActivityRing** and the channel at shutdown, composed with `DurableActivity`.
3. Function rewriting as a pure function over a small expression language.
