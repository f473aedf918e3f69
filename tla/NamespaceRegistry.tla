-------------------------- MODULE NamespaceRegistry --------------------------
(***************************************************************************)
(* Materialize namespaces: one CacheManager per namespace under the storage *)
(* root, opened on demand and memoized.  A manager keeps a copy of its      *)
(* manifest in memory and merges each change into the manifest on disk; the *)
(* steps inside a manager are those of CacheStore and are taken whole here. *)
(*                                                                          *)
(* memo is the registry's map from a namespace to its manager (0: not open),*)
(* mem the manifest each manager holds (manager 1 is the default one), and  *)
(* disk what lies under the storage root.                                   *)
(***************************************************************************)
EXTENDS WireCodec

CONSTANTS DefaultNs,   \* the workspace's own namespace
          ExtraNs      \* the other names that validate_namespace accepts

ASSUME NsAssumption == DefaultNs \notin ExtraNs /\ "" \notin ExtraNs \cup {DefaultNs}

EmptyDir == [dir |-> FALSE, manifest |-> FALSE, tables |-> {}, files |-> {}]

InitStore ==
    [memo |-> [n \in ExtraNs |-> 0],
     mem |-> <<{}>>,
     disk |-> [n \in ExtraNs \cup {DefaultNs} |-> [EmptyDir EXCEPT !.dir = (n = DefaultNs)]]]

Internal(text) == Err(Failure("Internal", text))

\* The namespace of a request: None for the default one.
ValidateNamespace(n) == IF n \in ExtraNs THEN Ok(Some(n)) ELSE Internal("invalid namespace")
Normalize(ns) ==
    IF ns \in {None, Some(""), Some(DefaultNs)} THEN Ok(None) ELSE ValidateNamespace(ns[1])

\* A namespace exists once it is memoized or has a manifest on disk.
Exists(store, n) == store.memo[n] # 0 \/ store.disk[n].manifest

\* Mutant: the map is not looked at again under the write lock.
OpenOrCreate_NoRecheck(store, n) ==
    [store |-> [store EXCEPT !.memo[n] = Len(store.mem) + 1,
                             !.mem = Append(@, store.disk[n].tables),
                             !.disk[n].dir = TRUE],
     mgr |-> Len(store.mem) + 1]

\* open_or_create under the write lock: whoever came first wins.
OpenOrCreate(store, n) ==
    IF store.memo[n] # 0 THEN [store |-> store, mgr |-> store.memo[n]]
    ELSE [store |-> [store EXCEPT !.memo[n] = Len(store.mem) + 1,
                                  !.mem = Append(@, store.disk[n].tables),
                                  !.disk[n].dir = TRUE],
          mgr |-> Len(store.mem) + 1]

\* The Parquet file of a table, then its manifest entry.
WriteParquet(store, n, t) ==
    [store EXCEPT !.disk[n].dir = TRUE, !.disk[n].files = @ \cup {t}]
Upsert(store, n, m, t) ==
    [store EXCEPT !.disk[n].manifest = TRUE, !.disk[n].tables = @ \cup {t},
                  !.mem[m] = store.disk[n].tables \cup {t}]

\* The manifest is rewritten even when there is nothing to drop.
DropTable(store, n, m, t) ==
    [store EXCEPT !.disk[n].manifest = TRUE, !.disk[n].tables = @ \ {t},
                  !.mem[m] = store.disk[n].tables \ {t},
                  !.disk[n].files = IF t \in store.disk[n].tables THEN @ \ {t} ELSE @]

\* remove: forget the manager, then erase the directory.
Removable(n) ==
    IF n \in {"", DefaultNs} THEN Internal("cannot drop the default workspace namespace")
    ELSE ValidateNamespace(n)
Forget(store, n) == [store EXCEPT !.memo[n] = 0]
Erase(store, n) ==
    IF store.disk[n].manifest THEN [store EXCEPT !.disk[n] = EmptyDir] ELSE store

\* The manager that a lookup of namespace n would use, and what it holds;
\* the catalog shows SQL those of its tables whose file is there.
Holding(store, n) ==
    IF n = DefaultNs THEN store.mem[1]
    ELSE IF store.memo[n] # 0 THEN store.mem[store.memo[n]]
    ELSE IF store.disk[n].manifest THEN store.disk[n].tables ELSE {}
NamespaceTables(store, n) == Holding(store, n) \cap store.disk[n].files

=============================================================================
