--------------------------- MODULE SourceRegistry ---------------------------
(***************************************************************************)
(* The sources of a running engine: register_source, remove_source_inner   *)
(* and the operations built on them, add_source, remove_source,            *)
(* refresh_catalog, reload_config and shutdown                             *)
(* (crates/pawrly-engine/src/local.rs), the per-kind registrars            *)
(* (registry.rs, duckdb_source.rs) and the background refreshers           *)
(* (cache/refresher.rs).                                                   *)
(*                                                                         *)
(* Each operation runs on a task of its own.  The source list, the         *)
(* catalog, the refresher handles and the function registry each have a    *)
(* lock of their own, held for one access: each access is a step.  No lock *)
(* spans two of them, so two operations on one source may interleave.      *)
(*                                                                         *)
(* Abstraction.  A source has TableCount tables, of the same names in each *)
(* of its definitions, which come and go together but for a registration   *)
(* that fails halfway (Partial).  A registrar is one step: what it adds to *)
(* a schema that another caller has taken out of the catalog meanwhile is  *)
(* seen by nobody, as if the schema had been taken out after it.  The      *)
(* attached function of a source, if any, matters for the connection it    *)
(* uses only.                                                              *)
(* Requests that fail validation, and a configuration that does not load,  *)
(* change nothing and are left out; so are variable stores.                *)
(***************************************************************************)
EXTENDS Integers

CONSTANTS
    Names,      \* source names
    Defs,       \* source definitions
    AttachDefs, \* those registered by ATTACH in DuckDB
    FnDefs,     \* those the configuration attaches a function to
    Refreshed,  \* those with a refresh or cron cache policy
    TableCount, \* tables per source
    MaxLoops,   \* bound: a source with more refreshers is only removed
    Callers,    \* tasks that run operations
    Editors,    \* those that may add, refresh and remove sources
    Reloaders,  \* those that may reload the configuration
    Faults,     \* "source": a registrar fails; "disconnect": a handler is dropped
    NoDef,      \* no definition, no tables
    Partial,    \* some tables of a registration that failed
    NoName      \* no source

ASSUME SourcesAssumption ==
    /\ AttachDefs \subseteq Defs
    /\ FnDefs \subseteq Defs \ AttachDefs
    /\ Refreshed \subseteq Defs
    /\ TableCount \in Nat \ {0}
    /\ MaxLoops \in Nat
    /\ Editors \subseteq Callers
    /\ Reloaders \subseteq Callers
    /\ Faults \subseteq {"source", "disconnect"}
    /\ NoDef \notin Defs /\ Partial \notin Defs /\ NoDef # Partial
    /\ NoName \notin Names

VARIABLES
    listed,     \* LocalEngineInner.sources: the definition of each source
    tables,     \* the catalog: the definition its tables come from
    loops,      \* running refresher tasks of each source
    handles,    \* LocalEngineInner.refreshers: how many of them can be aborted
    attached,   \* databases attached in the DuckDB pool
    fn,         \* FunctionRegistry: the connection of each source's function
    pc,         \* where each caller is
    op,         \* its operation
    cur,        \* the source it works on
    todo,       \* the definitions it has still to register
    gone,       \* the sources it has still to remove
    conf,       \* the configuration its reload has read
    spawned,    \* the refreshers its registration has spawned
    left,       \* the tables it has still to wrap
    removed,    \* whether its removal found the source listed
    broken,     \* ghost: sources whose last registration did not complete
    touched,    \* ghost: sources others have worked on since a reload began
    contested,  \* ghost: sources two callers were at work on at a time, and
                \* none alone since
    strayed,    \* ghost: sources two callers were ever at work on at a time,
                \* or whose handler was dropped while it held new handles
    drained     \* ghost: sources whose handles a shutdown has taken

engine == <<listed, tables, loops, handles, attached, fn>>
task == <<pc, op, cur, todo, gone, conf, spawned, left, removed>>
ghosts == <<broken, touched, contested, strayed, drained>>
vars == <<engine, task, ghosts>>

Pcs == {"idle", "pick", "dereg", "registry", "wrap", "handles", "list",
        "forget", "schema", "unfunction", "drain", "functions"}

NoDefs == [s \in Names |-> NoDef]

(* The refreshers a source with definition d should have. *)
LoopsOf(d) == IF d \in Refreshed THEN TableCount ELSE 0

(* The engine right after build, from any configuration. *)
Init ==
    /\ listed \in [Names -> Defs \cup {NoDef}]
    /\ tables = listed
    /\ loops = [s \in Names |-> LoopsOf(listed[s])]
    /\ handles = loops
    /\ attached = {s \in Names : listed[s] \in AttachDefs}
    /\ fn = [s \in Names |-> IF listed[s] \in FnDefs THEN "shared" ELSE "none"]
    /\ pc = [c \in Callers |-> "idle"]
    /\ op = [c \in Callers |-> "add"]
    /\ cur = [c \in Callers |-> NoName]
    /\ todo = [c \in Callers |-> NoDefs]
    /\ gone = [c \in Callers |-> {}]
    /\ conf = [c \in Callers |-> NoDefs]
    /\ spawned = [c \in Callers |-> 0]
    /\ left = [c \in Callers |-> 0]
    /\ removed = [c \in Callers |-> FALSE]
    /\ broken = {}
    /\ touched = [c \in Callers |-> {}]
    /\ contested = {}
    /\ strayed = {}
    /\ drained = {}

Goto(c, l) == pc' = [pc EXCEPT ![c] = l]

(* The operation is over, with or without success. *)
Finish(c) ==
    /\ Goto(c, "idle")
    /\ op' = [op EXCEPT ![c] = "add"]
    /\ cur' = [cur EXCEPT ![c] = NoName]
    /\ todo' = [todo EXCEPT ![c] = NoDefs]
    /\ gone' = [gone EXCEPT ![c] = {}]
    /\ conf' = [conf EXCEPT ![c] = NoDefs]
    /\ spawned' = [spawned EXCEPT ![c] = 0]
    /\ left' = [left EXCEPT ![c] = 0]
    /\ removed' = [removed EXCEPT ![c] = FALSE]
    /\ touched' = [touched EXCEPT ![c] = {}]

(* The sources other callers are at work on. *)
Others(c) == {cur[o] : o \in Callers \ {c}} \ {NoName}

(* Others in the middle of a reload cannot rely on s any more. *)
Touch(c, s) ==
    touched' = [o \in Callers |-> IF op[o] = "reload" /\ o # c THEN touched[o] \cup {s} ELSE touched[o]]

(* c takes up s, and puts the list and the catalog right if it is alone on *)
(* s until it is done (`heals`).                                           *)
TakeUp(c, s, heals) ==
    /\ cur' = [cur EXCEPT ![c] = s]
    /\ Touch(c, s)
    /\ contested' = IF s \in Others(c) THEN contested \cup {s}
                    ELSE IF heals THEN contested \ {s} ELSE contested
    /\ strayed' = IF s \in Others(c) THEN strayed \cup {s} ELSE strayed
    /\ drained' = drained \ {s}

-----------------------------------------------------------------------------
(* Starting an operation.                                                  *)

Begin(c, o, l) ==
    /\ pc[c] = "idle"
    /\ op' = [op EXCEPT ![c] = o]
    /\ Goto(c, l)

AddSource(c, s, d) ==
    /\ Begin(c, "add", "pick")
    /\ todo' = [todo EXCEPT ![c] = [NoDefs EXCEPT ![s] = d]]
    /\ UNCHANGED <<engine, cur, gone, conf, spawned, left, removed, ghosts>>

(* The listed definitions of one source or of all, cloned from the list. *)
RefreshCatalog(c, S) ==
    /\ \A s \in S : listed[s] # NoDef
    /\ S # {}
    /\ Begin(c, "refresh", "pick")
    /\ todo' = [todo EXCEPT ![c] = [s \in Names |-> IF s \in S THEN listed[s] ELSE NoDef]]
    /\ UNCHANGED <<engine, cur, gone, conf, spawned, left, removed, ghosts>>

RemoveSource(c, s) ==
    /\ Begin(c, "remove", "pick")
    /\ gone' = [gone EXCEPT ![c] = {s}]
    /\ UNCHANGED <<engine, cur, todo, conf, spawned, left, removed, ghosts>>

(* Mutant: sources the configuration no longer has are not looked for. *)
ReloadConfig_KeepsOld(c, config) ==
    /\ Begin(c, "reload", "pick")
    /\ conf' = [conf EXCEPT ![c] = config]
    /\ todo' = [todo EXCEPT ![c] = [s \in Names |-> IF listed[s] # config[s] THEN config[s] ELSE NoDef]]
    /\ touched' = [touched EXCEPT ![c] = Others(c)]
    /\ UNCHANGED <<engine, cur, gone, spawned, left, removed, broken, contested, strayed, drained>>

(* reload_config compares the configuration file, whatever has become of   *)
(* it, with the listed definitions, once, before its first await.          *)
ReloadConfig(c, config) ==
    /\ Begin(c, "reload", "pick")
    /\ conf' = [conf EXCEPT ![c] = config]
    /\ todo' = [todo EXCEPT ![c] = [s \in Names |-> IF listed[s] # config[s] THEN config[s] ELSE NoDef]]
    /\ gone' = [gone EXCEPT ![c] = {s \in Names : listed[s] # NoDef /\ config[s] = NoDef}]
    /\ touched' = [touched EXCEPT ![c] = Others(c)]
    /\ UNCHANGED <<engine, cur, spawned, left, removed, broken, contested, strayed, drained>>

-----------------------------------------------------------------------------
(* register_source.                                                        *)

Pending(c) == {s \in Names : todo[c][s] # NoDef}

(* Mutant: the handles are dropped, the tasks are not aborted. *)
AbortRefreshers_DropsHandles(s) ==
    /\ handles' = [handles EXCEPT ![s] = 0]
    /\ UNCHANGED loops

(* abort_refreshers: the tasks whose handles are in the map. *)
AbortRefreshers(s) ==
    /\ loops' = [loops EXCEPT ![s] = @ - handles[s]]
    /\ handles' = [handles EXCEPT ![s] = 0]

Pick(c) ==
    /\ pc[c] = "pick"
    /\ \E s \in Pending(c) :
         /\ TakeUp(c, s, TRUE)
         /\ AbortRefreshers(s)
    /\ Goto(c, "dereg")
    /\ UNCHANGED <<listed, tables, attached, fn, op, todo, gone, conf, spawned, left, removed, broken>>

Deregister(c) ==
    /\ pc[c] = "dereg"
    /\ tables' = [tables EXCEPT ![cur[c]] = NoDef]
    /\ Goto(c, "registry")
    /\ UNCHANGED <<listed, loops, handles, attached, fn, op, cur, todo, gone, conf, spawned, left, removed, ghosts>>

(* What stands in the way of a registrar: ATTACH of a name that is still   *)
(* attached, register_table of a table that is already there.              *)
Clash(s, d) == IF d \in AttachDefs THEN s \in attached ELSE tables[s] # NoDef

(* The registrar succeeds, after any number of awaits.  An ATTACH source   *)
(* replaces the schema, the others add their tables to it.                 *)
RegistryOk(c) ==
    LET s == cur[c]
    IN  /\ pc[c] = "registry"
        /\ ~Clash(s, todo[c][s])
        /\ tables' = [tables EXCEPT ![s] = todo[c][s]]
        /\ attached' = IF todo[c][s] \in AttachDefs THEN attached \cup {s} ELSE attached
        /\ left' = [left EXCEPT ![c] = LoopsOf(todo[c][s])]
        /\ Goto(c, "wrap")
        /\ UNCHANGED <<listed, loops, handles, fn, op, cur, todo, gone, conf, spawned, removed, ghosts>>

(* The registrar fails: `?` ends the whole operation.  The old tables are  *)
(* gone; the source list still has the old definition, if any.  A          *)
(* registrar that adds tables one by one may leave some behind.            *)
RegistryFails(c) ==
    LET s == cur[c]
    IN  /\ pc[c] = "registry"
        /\ "source" \in Faults \/ Clash(s, todo[c][s])
        /\ \E t \in {tables[s]} \cup (IF todo[c][s] \in AttachDefs THEN {} ELSE {Partial}) :
               tables' = [tables EXCEPT ![s] = t]
        /\ broken' = broken \cup {s}
        /\ Finish(c)
        /\ UNCHANGED <<listed, loops, handles, attached, fn, contested, strayed, drained>>

(* The tables are wrapped one after the other, each with a refresher for   *)
(* a background policy; nothing to wrap if the schema is gone when the     *)
(* first is looked up.                                                     *)
Wrap(c) ==
    /\ pc[c] = "wrap"
    /\ IF left[c] = 0 \/ (left[c] = TableCount /\ tables[cur[c]] = NoDef)
       THEN /\ Goto(c, IF spawned[c] = 0 THEN "list" ELSE "handles")
            /\ left' = [left EXCEPT ![c] = 0]
            /\ UNCHANGED <<loops, spawned>>
       ELSE /\ loops' = [loops EXCEPT ![cur[c]] = @ + 1]
            /\ spawned' = [spawned EXCEPT ![c] = @ + 1]
            /\ left' = [left EXCEPT ![c] = @ - 1]
            /\ UNCHANGED pc
    /\ UNCHANGED <<listed, tables, handles, attached, fn, op, cur, todo, gone, conf, removed, ghosts>>

(* A table of an attached database that cannot be looked up is passed over. *)
WrapSkips(c) ==
    /\ "source" \in Faults
    /\ pc[c] = "wrap"
    /\ todo[c][cur[c]] \in AttachDefs
    /\ left[c] > 0
    /\ left' = [left EXCEPT ![c] = @ - 1]
    /\ UNCHANGED <<engine, pc, op, cur, todo, gone, conf, spawned, removed, ghosts>>

(* HashMap::insert of the handles, replacing any others. *)
KeepHandles(c) ==
    /\ pc[c] = "handles"
    /\ handles' = [handles EXCEPT ![cur[c]] = spawned[c]]
    /\ spawned' = [spawned EXCEPT ![c] = 0]
    /\ Goto(c, "list")
    /\ UNCHANGED <<listed, tables, loops, attached, fn, op, cur, todo, gone, conf, left, removed, ghosts>>

(* The source is listed, with the connection its registrar has opened; a   *)
(* function that used the previous one goes on using it.                   *)
List(c) ==
    LET s == cur[c]
    IN  /\ pc[c] = "list"
        /\ listed' = [listed EXCEPT ![s] = todo[c][s]]
        /\ fn' = [fn EXCEPT ![s] = IF @ = "shared" THEN "parallel" ELSE @]
        /\ todo' = [todo EXCEPT ![c][s] = NoDef]
        /\ cur' = [cur EXCEPT ![c] = NoName]
        /\ broken' = broken \ {s}
        /\ Goto(c, "pick")
        /\ UNCHANGED <<tables, loops, handles, attached, op, gone, conf, spawned, left, removed, touched, contested, strayed, drained>>

(* The handler is dropped at an await: in the registrar, while the next    *)
(* table of an attached database is looked up, or while a function opens   *)
(* its connection.  The handles it holds are dropped, not aborted.         *)
Disconnect(c) ==
    /\ "disconnect" \in Faults
    /\ \/ pc[c] = "registry"
       \/ pc[c] = "wrap" /\ todo[c][cur[c]] \in AttachDefs /\ left[c] > 0
       \/ pc[c] = "functions"
    /\ broken' = IF pc[c] = "functions" THEN broken ELSE broken \cup {cur[c]}
    /\ strayed' = IF spawned[c] = 0 THEN strayed ELSE strayed \cup {cur[c]}
    /\ Finish(c)
    /\ UNCHANGED <<engine, contested, drained>>

-----------------------------------------------------------------------------
(* remove_source_inner.                                                    *)

PickRemoval(c) ==
    /\ pc[c] = "pick"
    /\ Pending(c) = {}
    /\ \E s \in gone[c] :
         /\ TakeUp(c, s, listed[s] # NoDef)
         /\ AbortRefreshers(s)
    /\ Goto(c, "forget")
    /\ UNCHANGED <<listed, tables, attached, fn, op, todo, gone, conf, spawned, left, removed, broken>>

Forget(c) ==
    /\ pc[c] = "forget"
    /\ removed' = [removed EXCEPT ![c] = listed[cur[c]] # NoDef]
    /\ listed' = [listed EXCEPT ![cur[c]] = NoDef]
    /\ Goto(c, "schema")
    /\ UNCHANGED <<tables, loops, handles, attached, fn, op, cur, todo, gone, conf, spawned, left, ghosts>>

(* Mutant: the tables of a removed source stay in the catalog. *)
DropSchema_Skipped(c) ==
    /\ pc[c] = "schema"
    /\ broken' = IF removed[c] THEN broken \ {cur[c]} ELSE broken
    /\ removed' = [removed EXCEPT ![c] = FALSE]
    /\ Goto(c, "unfunction")
    /\ UNCHANGED <<engine, op, cur, todo, gone, conf, spawned, left, touched, contested, strayed, drained>>

(* The tables go only if the source was listed. *)
DropSchema(c) ==
    /\ pc[c] = "schema"
    /\ tables' = IF removed[c] THEN [tables EXCEPT ![cur[c]] = NoDef] ELSE tables
    /\ broken' = IF removed[c] THEN broken \ {cur[c]} ELSE broken
    /\ removed' = [removed EXCEPT ![c] = FALSE]
    /\ Goto(c, "unfunction")
    /\ UNCHANGED <<listed, loops, handles, attached, fn, op, cur, todo, gone, conf, spawned, left, touched, contested, strayed, drained>>

(* remove_by_source, and the function's UDTF with it. *)
RemoveFunctions(c) ==
    /\ pc[c] = "unfunction"
    /\ fn' = [fn EXCEPT ![cur[c]] = "none"]
    /\ gone' = [gone EXCEPT ![c] = @ \ {cur[c]}]
    /\ cur' = [cur EXCEPT ![c] = NoName]
    /\ Goto(c, "pick")
    /\ UNCHANGED <<listed, tables, loops, handles, attached, op, todo, conf, spawned, left, removed, ghosts>>

(* Everything is registered and removed: only a reload goes on. *)
Return(c) ==
    /\ pc[c] = "pick"
    /\ Pending(c) = {} /\ gone[c] = {}
    /\ IF op[c] = "reload"
       THEN Goto(c, "drain") /\ UNCHANGED <<op, cur, todo, gone, conf, spawned, left, removed, touched>>
       ELSE Finish(c)
    /\ UNCHANGED <<engine, broken, contested, strayed, drained>>

-----------------------------------------------------------------------------
(* The end of reload_config: all functions are dropped and built again.    *)

DrainFunctions(c) ==
    /\ pc[c] = "drain"
    /\ fn' = [s \in Names |-> "none"]
    /\ gone' = [gone EXCEPT ![c] = {s \in Names : conf[c][s] \in FnDefs}]
    /\ Goto(c, "functions")
    /\ UNCHANGED <<listed, tables, loops, handles, attached, op, cur, todo, conf, spawned, left, removed, ghosts>>

(* register_functions: a function inherits the connection of its source,   *)
(* or opens its own if the source is not listed (`gone` holds the          *)
(* functions still to be registered).                                      *)
RegisterFunction(c) ==
    /\ pc[c] = "functions"
    /\ \E s \in gone[c] :
         /\ fn' = [fn EXCEPT ![s] = IF listed[s] \in FnDefs THEN "shared" ELSE "parallel"]
         /\ gone' = [gone EXCEPT ![c] = @ \ {s}]
    /\ UNCHANGED <<listed, tables, loops, handles, attached, pc, op, cur, todo, conf, spawned, left, removed, ghosts>>

(* One that cannot be built ends the reload, without the others. *)
FunctionFails(c) ==
    /\ "source" \in Faults
    /\ pc[c] = "functions"
    /\ gone[c] # {}
    /\ Finish(c)
    /\ UNCHANGED <<engine, broken, contested, strayed, drained>>

Reloaded(c) ==
    /\ pc[c] = "functions"
    /\ gone[c] = {}
    /\ Finish(c)
    /\ UNCHANGED <<engine, broken, contested, strayed, drained>>

-----------------------------------------------------------------------------

(* shutdown: every handle is taken out of the map and aborted; what is at  *)
(* work goes on.                                                           *)
Shutdown ==
    /\ \E s \in Names : handles[s] # 0
    /\ loops' = [s \in Names |-> loops[s] - handles[s]]
    /\ handles' = [s \in Names |-> 0]
    /\ drained' = drained \cup {s \in Names : handles[s] # 0}
    /\ UNCHANGED <<listed, tables, attached, fn, task, broken, touched, contested, strayed>>

(* The bound on refreshers, which leak without end. *)
MayRegister(S) == \A s \in S : loops[s] <= MaxLoops

Start(c) ==
    \/ /\ c \in Editors
       /\ \E s \in Names :
            \/ MayRegister({s}) /\ \E d \in Defs : AddSource(c, s, d)
            \/ MayRegister({s}) /\ RefreshCatalog(c, {s})
            \/ RemoveSource(c, s)
    \/ /\ c \in Editors
       /\ MayRegister(Names)
       /\ RefreshCatalog(c, {s \in Names : listed[s] # NoDef})
    \/ /\ c \in Reloaders
       /\ MayRegister(Names)
       /\ \E config \in [Names -> Defs \cup {NoDef}] : ReloadConfig(c, config)

Step(c) ==
    \/ Pick(c)
    \/ Deregister(c)
    \/ RegistryOk(c)
    \/ RegistryFails(c)
    \/ Wrap(c)
    \/ WrapSkips(c)
    \/ KeepHandles(c)
    \/ List(c)
    \/ PickRemoval(c)
    \/ Forget(c)
    \/ DropSchema(c)
    \/ RemoveFunctions(c)
    \/ Return(c)
    \/ DrainFunctions(c)
    \/ RegisterFunction(c)
    \/ FunctionFails(c)
    \/ Reloaded(c)

Next ==
    \/ \E c \in Callers : Start(c) \/ Step(c) \/ Disconnect(c)
    \/ Shutdown

Spec == Init /\ [][Next]_vars

-----------------------------------------------------------------------------
(* Properties.                                                             *)

(* The ranges of the variables.                                            *)
TypeOK ==
    /\ listed \in [Names -> Defs \cup {NoDef}]
    /\ tables \in [Names -> Defs \cup {NoDef, Partial}]
    /\ loops \in [Names -> Int]
    /\ handles \in [Names -> Nat]
    /\ attached \subseteq Names
    /\ fn \in [Names -> {"none", "shared", "parallel"}]
    /\ drained \subseteq Names
    /\ pc \in [Callers -> Pcs]
    /\ op \in [Callers -> {"add", "refresh", "remove", "reload"}]
    /\ cur \in [Callers -> Names \cup {NoName}]
    /\ todo \in [Callers -> [Names -> Defs \cup {NoDef}]]
    /\ gone \in [Callers -> SUBSET Names]
    /\ conf \in [Callers -> [Names -> Defs \cup {NoDef}]]
    /\ spawned \in [Callers -> Nat]
    /\ left \in [Callers -> Nat]
    /\ removed \in [Callers -> BOOLEAN]
    /\ broken \subseteq Names
    /\ touched \in [Callers -> SUBSET Names]
    /\ contested \subseteq Names
    /\ strayed \subseteq Names

AtRest(s) == \A c \in Callers : cur[c] # s

(* What list_sources shows is what queries find, once nobody works on the  *)
(* source and unless its last registration failed, or two callers worked   *)
(* on it at a time and none has done so alone since: no interleaving of    *)
(* operations, no stale snapshot of a reload and no shutdown makes the two *)
(* differ, and one operation alone puts right what others left behind.     *)
ServedAsListed ==
    \A s \in Names \ (broken \cup contested) : AtRest(s) => tables[s] = listed[s]

(* Unless two callers have worked on the source at a time, or a handler    *)
(* was dropped while it held new handles, every running refresher can be   *)
(* aborted; and whatever came before, a registration that is alone leaves  *)
(* a source with exactly the handles of its policy (of an attached         *)
(* database, those of the tables it could look up).                        *)
RefreshersFollow ==
    \A s \in Names : AtRest(s) =>
        /\ s \notin strayed => loops[s] = handles[s]
        /\ s \notin broken \cup contested \cup drained =>
               /\ handles[s] <= LoopsOf(listed[s])
               /\ listed[s] \notin AttachDefs => handles[s] = LoopsOf(listed[s])

(* A reload that succeeds brings the list to the configuration it has      *)
(* read, and with it the tables, but for sources another caller has worked *)
(* on meanwhile, and tables that earlier failures or overlapping           *)
(* operations had already put out of step with an unchanged definition.    *)
ReloadConverges ==
    [][\A c \in Callers : Reloaded(c) =>
          \A s \in Names \ touched[c] : AtRest(s) =>
              /\ listed[s] = conf[c][s]
              /\ s \notin broken \cup contested => tables[s] = conf[c][s]]_vars

=============================================================================
