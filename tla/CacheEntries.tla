---------------------------- MODULE CacheEntries ----------------------------
(***************************************************************************)
(* The data of a pawrly cache directory: manifest entries, the manifest    *)
(* and the pure functions the cache manager applies to it.                 *)
(* (crates/pawrly-engine/src/cache.rs)                                     *)
(*                                                                         *)
(* Abstraction.  A table's Parquet path is a function of its name, so the  *)
(* name stands for the path.  The contents of a table are the version of   *)
(* its producer (source, query, file or URL) they were read from: 0 is the *)
(* oldest.  row_count and size_bytes are what the writer believes it       *)
(* stored, so the version stands for them too.                             *)
(***************************************************************************)
EXTENDS Naturals

CONSTANTS
    Tables,     \* the table names of one cache directory
    Pinned,     \* those under the reserved `materialized` schema
    TtlTables,  \* the cached tables whose policy is CachePolicy::Ttl
    Ttl,        \* their time to live
    MaxVersion, \* the last version a producer reaches
    NoEntry,    \* "the manifest has no entry for this table"
    Never       \* the expires_at of an entry that does not expire

ASSUME TablesAssumption ==
    /\ Pinned \subseteq Tables
    /\ TtlTables \subseteq Tables \ Pinned

ASSUME NumbersAssumption ==
    /\ Ttl \in Nat
    /\ MaxVersion \in Nat
    /\ Never \notin Nat

Versions == 0..MaxVersion

(* Tables with a live upstream, wrapped in a CachedTableProvider. *)
Copies == Tables \ Pinned

Entry == [origin : {"CacheCopy", "Materialized"},
          expires_at : Nat \cup {Never},
          rows : Versions]

ASSUME NoEntryAssumption == NoEntry \notin Entry

Manifest == [Tables -> Entry \cup {NoEntry}]

EmptyManifest == [t \in Tables |-> NoEntry]

(* Origin::is_materialized *)
IsMaterialized(e) == e.origin = "Materialized"

(* The expiry test shared by `fresh` and `vacuum`: no expires_at, or a     *)
(* time before it.                                                         *)
Unexpired(e, now) == e.expires_at = Never \/ now < e.expires_at

(* The entry `fresh` finds for t in manifest m at time now, if any. *)
Fresh(m, t, now) == m[t] # NoEntry /\ Unexpired(m[t], now)

(* ttl_expiry: only a TTL policy expires; refresh and cron tables are kept *)
(* current by their background loop, materialized tables are pinned.       *)
Expiry(t, now) == IF t \in TtlTables THEN now + Ttl ELSE Never

(* The entry write_through or materialize builds at time now for t. *)
NewEntry(t, r, now) ==
    [origin |-> IF t \in Pinned THEN "Materialized" ELSE "CacheCopy",
     expires_at |-> Expiry(t, now),
     rows |-> r]

(* upsert *)
With(m, t, e) == [m EXCEPT ![t] = e]

Without(m, S) == [t \in Tables |-> IF t \in S THEN NoEntry ELSE m[t]]

(* The entries a vacuum that read the clock at `now` drops from m: expired *)
(* cache copies, never a materialized table.                               *)
Expired(m, now) ==
    {t \in Tables : /\ m[t] # NoEntry
                    /\ ~IsMaterialized(m[t])
                    /\ ~Unexpired(m[t], now)}

=============================================================================
