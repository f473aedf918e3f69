----------------------------- MODULE CacheStore -----------------------------
(***************************************************************************)
(* The parquet cache of one pawrly cache directory, shared by several      *)
(* processes (CLI, daemon) with several threads each.                      *)
(* (crates/pawrly-engine/src/cache.rs: CacheManager, CachedTableProvider)  *)
(*                                                                         *)
(* State on disk: the manifest, the data file of each table, the manifest  *)
(* lock.  State in a process: its in-memory manifest, read without any     *)
(* file lock by every lookup.  An actor is a thread or task running one    *)
(* cache operation at a time; each file system call and each critical      *)
(* section of an operation is a step of its own, so that operations of     *)
(* different actors interleave where the code lets them.                   *)
(*                                                                         *)
(* Abstraction.  A write to `tmp/` is private to its writer until the      *)
(* rename, so the two are one step, Land; whatever makes the write or the  *)
(* rename fail (a full disk, or a sweep of `tmp/` that caught a writer     *)
(* stalled for more than an hour) is LandFails.  The in-process            *)
(* flush_lock and the cross-process manifest.lock are always taken         *)
(* together in that order and are one lock.                                *)
(***************************************************************************)
EXTENDS CacheEntries

CONSTANTS
    Procs,      \* processes with this cache directory open
    Actors,     \* threads and tasks that run cache operations
    Owner,      \* the process of each actor
    Operations, \* the operations actors may start
    Faults,     \* the faults that may happen
    MaxClock,   \* bound on the wall clock
    NoTable,    \* no table: an idle actor, or a vacuum
    Absent,     \* "no such file"
    Corrupt,    \* a data file that does not open or decode as Parquet
    Free        \* nobody holds the manifest lock

AllOperations == {"scan", "refresh", "materialize", "refresh_materialized",
                  "invalidate", "drop_materialized", "vacuum"}

AllFaults == {"crash", "bitrot", "io", "unreadable"}

ASSUME ActorsAssumption ==
    /\ Owner \in [Actors -> Procs]
    /\ Operations \subseteq AllOperations
    /\ Faults \subseteq AllFaults
    /\ MaxClock \in Nat

ASSUME MarkersAssumption ==
    /\ NoTable \notin Tables
    /\ Absent \notin Versions
    /\ Corrupt \notin Versions
    /\ Corrupt # Absent
    /\ Free \notin Actors

VARIABLES
    clock,      \* the wall clock
    source,     \* the version every producer would return now
    disk,       \* manifest.json
    file,       \* data/<schema>/<table>/part-000000.parquet
    lock,       \* the holder of the manifest lock
    up,         \* the running processes
    mem,        \* CacheManager.manifest of each process
    pc,         \* where each actor is in its operation
    op,         \* the operation it runs
    tab,        \* the table it works on
    rows,       \* the version it has fetched
    stamp,      \* the time it has read from the clock
    edit,       \* the closure it passes to with_locked_manifest
    buf,        \* the manifest it has read under the lock
    pend,       \* the tables whose files it is about to delete
    floor       \* ghost: the oldest version a file may hold, per table

shared == <<clock, source, disk, file, lock, up, mem>>
local == <<pc, op, tab, rows, stamp, edit, buf, pend>>
vars == <<clock, source, disk, file, lock, up, mem,
          pc, op, tab, rows, stamp, edit, buf, pend, floor>>

Pcs == {"idle", "read", "fetch", "land", "lock", "modify", "publish",
        "aside", "unlink", "reap", "sweep", "list"}

Edits == {"upsert", "remove", "drop", "reclaim"}

Contents == Versions \cup {Absent, Corrupt}

Init ==
    /\ clock = 0
    /\ source = 0
    /\ disk = EmptyManifest
    /\ file = [t \in Tables |-> Absent]
    /\ lock = Free
    /\ up = Procs
    /\ mem = [p \in Procs |-> EmptyManifest]
    /\ pc = [a \in Actors |-> "idle"]
    /\ op = [a \in Actors |-> "vacuum"]
    /\ tab = [a \in Actors |-> NoTable]
    /\ rows = [a \in Actors |-> 0]
    /\ stamp = [a \in Actors |-> 0]
    /\ edit = [a \in Actors |-> "reclaim"]
    /\ buf = [a \in Actors |-> EmptyManifest]
    /\ pend = [a \in Actors |-> {}]
    /\ floor = [t \in Tables |-> 0]

(* The bookkeeping of a finished operation: its locals are forgotten. *)
Finish(a) ==
    /\ pc' = [pc EXCEPT ![a] = "idle"]
    /\ op' = [op EXCEPT ![a] = "vacuum"]
    /\ tab' = [tab EXCEPT ![a] = NoTable]
    /\ rows' = [rows EXCEPT ![a] = 0]
    /\ stamp' = [stamp EXCEPT ![a] = 0]
    /\ edit' = [edit EXCEPT ![a] = "reclaim"]
    /\ buf' = [buf EXCEPT ![a] = EmptyManifest]
    /\ pend' = [pend EXCEPT ![a] = {}]

Goto(a, l) == pc' = [pc EXCEPT ![a] = l]

-----------------------------------------------------------------------------
(* Starting an operation.                                                  *)

Begin(a, o, t, l) ==
    /\ o \in Operations
    /\ Owner[a] \in up
    /\ pc[a] = "idle"
    /\ op' = [op EXCEPT ![a] = o]
    /\ tab' = [tab EXCEPT ![a] = t]
    /\ Goto(a, l)

(* CachedTableProvider::scan: a fresh entry of the in-memory manifest      *)
(* sends the scan to the file, anything else to the source.                *)
BeginScan(a, t) ==
    /\ t \in Copies
    /\ Begin(a, "scan", t, IF Fresh(mem[Owner[a]], t, clock) THEN "read" ELSE "fetch")
    /\ UNCHANGED <<shared, rows, stamp, edit, buf, pend, floor>>

(* CacheManager::refresh, called by refresh_table and by the refreshers. *)
BeginRefresh(a, t) ==
    /\ t \in Copies
    /\ Begin(a, "refresh", t, "fetch")
    /\ UNCHANGED <<shared, rows, stamp, edit, buf, pend, floor>>

(* LocalEngine::materialize: produce the batches, then store them. *)
BeginMaterialize(a, t) ==
    /\ t \in Pinned
    /\ Begin(a, "materialize", t, "fetch")
    /\ UNCHANGED <<shared, rows, stamp, edit, buf, pend, floor>>

(* refresh_table of a materialized table: only if the in-memory manifest   *)
(* has a spec to run again.                                                *)
BeginRefreshMaterialized(a, t) ==
    /\ t \in Pinned
    /\ mem[Owner[a]][t] # NoEntry
    /\ IsMaterialized(mem[Owner[a]][t])
    /\ Begin(a, "refresh_materialized", t, "fetch")
    /\ UNCHANGED <<shared, rows, stamp, edit, buf, pend, floor>>

(* CacheManager::invalidate takes any table name, materialized or not. *)
BeginInvalidate(a, t) ==
    /\ t \in Tables
    /\ Begin(a, "invalidate", t, "lock")
    /\ edit' = [edit EXCEPT ![a] = "remove"]
    /\ UNCHANGED <<shared, rows, stamp, buf, pend, floor>>

BeginDropMaterialized(a, t) ==
    /\ t \in Pinned
    /\ Begin(a, "drop_materialized", t, "lock")
    /\ edit' = [edit EXCEPT ![a] = "drop"]
    /\ UNCHANGED <<shared, rows, stamp, buf, pend, floor>>

(* vacuum reads the clock before it waits for the lock. *)
BeginVacuum(a) ==
    /\ Begin(a, "vacuum", NoTable, "lock")
    /\ edit' = [edit EXCEPT ![a] = "reclaim"]
    /\ stamp' = [stamp EXCEPT ![a] = clock]
    /\ UNCHANGED <<shared, rows, buf, pend, floor>>

-----------------------------------------------------------------------------
(* The read path.                                                          *)

(* A hit: the file opens and decodes, its rows are the scan's answer. *)
ReadHit(a) ==
    /\ pc[a] = "read"
    /\ file[tab[a]] \in Versions
    /\ Finish(a)
    /\ UNCHANGED <<shared, floor>>

(* The file is missing or does not decode: quarantine the entry. *)
ReadBad(a) ==
    /\ pc[a] = "read"
    /\ file[tab[a]] \notin Versions
    /\ edit' = [edit EXCEPT ![a] = "remove"]
    /\ Goto(a, "lock")
    /\ UNCHANGED <<shared, op, tab, rows, stamp, buf, pend, floor>>

(* Mutant: after quarantine the scan tries the file again. *)
MoveAside_Rereads(a) ==
    /\ pc[a] = "aside"
    /\ file' = [file EXCEPT ![tab[a]] = Absent]
    /\ pend' = [pend EXCEPT ![a] = {}]
    /\ buf' = [buf EXCEPT ![a] = EmptyManifest]
    /\ Goto(a, "read")
    /\ UNCHANGED <<clock, source, disk, lock, up, mem, op, tab, rows, stamp, edit, floor>>

(* The rest of quarantine: whatever file is at the path now is moved to    *)
(* corrupt/ (or deleted when the move fails); then the scan is a miss.     *)
MoveAside(a) ==
    /\ pc[a] = "aside"
    /\ file' = [file EXCEPT ![tab[a]] = Absent]
    /\ pend' = [pend EXCEPT ![a] = {}]
    /\ buf' = [buf EXCEPT ![a] = EmptyManifest]
    /\ Goto(a, "fetch")
    /\ UNCHANGED <<clock, source, disk, lock, up, mem, op, tab, rows, stamp, edit, floor>>

(* The awaits of the inner scan (or of produce_materialize) and collect. *)
Fetch(a) ==
    /\ pc[a] = "fetch"
    /\ rows' = [rows EXCEPT ![a] = source]
    /\ Goto(a, "land")
    /\ UNCHANGED <<shared, op, tab, stamp, edit, buf, pend, floor>>

FetchFails(a) ==
    /\ "io" \in Faults
    /\ pc[a] = "fetch"
    /\ Finish(a)
    /\ UNCHANGED <<shared, floor>>

(* atomic_write_parquet, and the clock read that stamps the new entry. *)
Land(a) ==
    /\ pc[a] = "land"
    /\ file' = [file EXCEPT ![tab[a]] = rows[a]]
    /\ stamp' = [stamp EXCEPT ![a] = clock]
    /\ edit' = [edit EXCEPT ![a] = "upsert"]
    /\ Goto(a, "lock")
    /\ UNCHANGED <<clock, source, disk, lock, up, mem, op, tab, rows, buf, pend, floor>>

(* A failed write: a scan still serves the live rows, other operations     *)
(* return the error; either way nothing was stored.                        *)
LandFails(a) ==
    /\ "io" \in Faults
    /\ pc[a] = "land"
    /\ Finish(a)
    /\ UNCHANGED <<shared, floor>>

-----------------------------------------------------------------------------
(* with_locked_manifest: lock, read the disk, apply the closure, write the *)
(* disk, replace the in-memory copy, unlock.                               *)

(* Mutant: nobody waits for the lock. *)
LockFree_Ignored == TRUE

(* lock_exclusive on manifest.lock succeeds. *)
LockFree == lock = Free

(* Mutant: the closure runs on the in-memory copy. *)
ReadManifest_Cached(a) == mem[Owner[a]]

(* read_manifest_disk: the manifest on disk, not the in-memory copy. *)
ReadManifest(a) == disk

LockManifest(a) ==
    /\ pc[a] = "lock"
    /\ LockFree
    /\ lock' = a
    /\ buf' = [buf EXCEPT ![a] = ReadManifest(a)]
    /\ Goto(a, "modify")
    /\ UNCHANGED <<clock, source, disk, file, up, mem, op, tab, rows, stamp, edit, pend, floor>>

(* read_manifest_disk takes a manifest it cannot read for an empty one. *)
LockManifestUnreadable(a) ==
    /\ "unreadable" \in Faults
    /\ pc[a] = "lock"
    /\ LockFree
    /\ lock' = a
    /\ buf' = [buf EXCEPT ![a] = EmptyManifest]
    /\ Goto(a, "modify")
    /\ UNCHANGED <<clock, source, disk, file, up, mem, op, tab, rows, stamp, edit, pend, floor>>

(* The tables the actor's closure removes from the manifest it read. *)
Removed(a) ==
    CASE edit[a] = "remove" -> {t \in {tab[a]} : buf[a][t] # NoEntry}
      [] edit[a] = "drop" -> {t \in {tab[a]} : buf[a][t] # NoEntry /\ IsMaterialized(buf[a][t])}
      [] edit[a] = "reclaim" -> Expired(buf[a], stamp[a])
      [] edit[a] = "upsert" -> {}

(* The manifest the actor's closure leaves. *)
Edited(a) ==
    IF edit[a] = "upsert"
    THEN With(buf[a], tab[a], NewEntry(tab[a], rows[a], stamp[a]))
    ELSE Without(buf[a], Removed(a))

(* Mutant: the lock is released before the in-memory copy is replaced. *)
WriteManifest_Unlocks(a) ==
    /\ pc[a] = "modify"
    /\ disk' = Edited(a)
    /\ lock' = Free
    /\ buf' = [buf EXCEPT ![a] = Edited(a)]
    /\ pend' = [pend EXCEPT ![a] = Removed(a)]
    /\ Goto(a, "publish")
    /\ UNCHANGED <<clock, source, file, up, mem, op, tab, rows, stamp, edit, floor>>

(* write_manifest_disk: tmp file, fsync, rename. *)
WriteManifest(a) ==
    /\ pc[a] = "modify"
    /\ disk' = Edited(a)
    /\ buf' = [buf EXCEPT ![a] = Edited(a)]
    /\ pend' = [pend EXCEPT ![a] = Removed(a)]
    /\ Goto(a, "publish")
    /\ UNCHANGED <<clock, source, file, lock, up, mem, op, tab, rows, stamp, edit, floor>>

(* The write fails: the lock is released and the in-memory copy is left    *)
(* alone.  quarantine ignores the error, every other caller gives up.      *)
WriteManifestFails(a) ==
    /\ "io" \in Faults
    /\ pc[a] = "modify"
    /\ lock' = Free
    /\ IF op[a] = "scan" /\ edit[a] = "remove"
       THEN /\ Goto(a, "aside")
            /\ UNCHANGED <<op, tab, rows, stamp, edit, buf, pend>>
       ELSE Finish(a)
    /\ UNCHANGED <<clock, source, disk, file, up, mem, floor>>

(* What each caller does once with_locked_manifest has returned. *)
Continue(a) ==
    CASE op[a] = "vacuum" -> /\ Goto(a, "reap")
                             /\ UNCHANGED <<op, tab, rows, stamp, edit, buf, pend>>
      [] op[a] = "scan" /\ edit[a] = "remove" ->
                             /\ Goto(a, "aside")
                             /\ UNCHANGED <<op, tab, rows, stamp, edit, buf, pend>>
      [] op[a] \in {"invalidate", "drop_materialized"} /\ pend[a] # {} ->
                             /\ Goto(a, "unlink")
                             /\ UNCHANGED <<op, tab, rows, stamp, edit, buf, pend>>
      [] OTHER -> Finish(a)

(* The in-memory copy is replaced before either lock is released. *)
Publish(a) ==
    /\ pc[a] = "publish"
    /\ mem' = [mem EXCEPT ![Owner[a]] = buf[a]]
    /\ lock' = Free
    /\ Continue(a)
    /\ UNCHANGED <<clock, source, disk, file, up, floor>>

-----------------------------------------------------------------------------
(* Deleting data files, always outside the manifest lock.                  *)

(* Rows fetched for table t that have not landed yet. *)
InFlight(t) == \E b \in Actors : tab[b] = t /\ pc[b] = "land"

(* Mutant: the entry goes, the file stays. *)
Unlink_KeepsFile(a) ==
    /\ pc[a] = "unlink"
    /\ \E t \in pend[a] :
         /\ floor' = IF op[a] = "invalidate" /\ ~InFlight(t)
                     THEN [floor EXCEPT ![t] = source]
                     ELSE floor
         /\ Finish(a)
    /\ UNCHANGED shared

(* remove_file of invalidate, drop_materialized or vacuum's orphan sweep.  *)
(* The ghost floor records, for an invalidate that no fetched rows are     *)
(* about to undo, that rows older than now are not to be served again.     *)
Unlink(a) ==
    /\ pc[a] = "unlink"
    /\ \E t \in pend[a] :
         /\ file' = [file EXCEPT ![t] = Absent]
         /\ floor' = IF op[a] = "invalidate" /\ ~InFlight(t)
                     THEN [floor EXCEPT ![t] = source]
                     ELSE floor
         /\ IF pend[a] = {t}
            THEN Finish(a)
            ELSE /\ pend' = [pend EXCEPT ![a] = @ \ {t}]
                 /\ UNCHANGED <<pc, op, tab, rows, stamp, edit, buf>>
    /\ UNCHANGED <<clock, source, disk, lock, up, mem>>

(* vacuum, phase 1: the files of the entries it expired. *)
Reap(a) ==
    /\ pc[a] = "reap"
    /\ IF pend[a] = {}
       THEN /\ Goto(a, "sweep")
            /\ UNCHANGED <<file, pend>>
       ELSE \E t \in pend[a] :
            /\ file' = [file EXCEPT ![t] = Absent]
            /\ pend' = [pend EXCEPT ![a] = @ \ {t}]
            /\ UNCHANGED pc
    /\ UNCHANGED <<clock, source, disk, lock, up, mem, op, tab, rows, stamp, edit, buf, floor>>

(* vacuum, phase 2: snapshot the tables the in-memory manifest references. *)
SweepReferenced(a) ==
    /\ pc[a] = "sweep"
    /\ pend' = [pend EXCEPT ![a] = {t \in Tables : mem[Owner[a]][t] # NoEntry}]
    /\ Goto(a, "list")
    /\ UNCHANGED <<shared, op, tab, rows, stamp, edit, buf, floor>>

(* then list the data files; those not referenced are to be deleted. *)
SweepList(a) ==
    /\ pc[a] = "list"
    /\ LET orphans == {t \in Tables \ pend[a] : file[t] # Absent}
       IN  IF orphans = {}
           THEN Finish(a)
           ELSE /\ pend' = [pend EXCEPT ![a] = orphans]
                /\ Goto(a, "unlink")
                /\ UNCHANGED <<op, tab, rows, stamp, edit, buf>>
    /\ UNCHANGED <<shared, floor>>

-----------------------------------------------------------------------------
(* The environment.                                                        *)

Tick ==
    /\ clock < MaxClock
    /\ clock' = clock + 1
    /\ UNCHANGED <<source, disk, file, lock, up, mem, local, floor>>

SourceAdvances ==
    /\ source < MaxVersion
    /\ source' = source + 1
    /\ UNCHANGED <<clock, disk, file, lock, up, mem, local, floor>>

(* A data file rots on disk. *)
BitRot(t) ==
    /\ "bitrot" \in Faults
    /\ file[t] \in Versions
    /\ file' = [file EXCEPT ![t] = Corrupt]
    /\ UNCHANGED <<clock, source, disk, lock, up, mem, local, floor>>

(* A process dies: its actors stop where they are and the operating        *)
(* system releases the lock it held.                                       *)
Crash(p) ==
    /\ "crash" \in Faults
    /\ p \in up
    /\ up' = up \ {p}
    /\ lock' = IF lock \in Actors /\ Owner[lock] = p THEN Free ELSE lock
    /\ mem' = [mem EXCEPT ![p] = EmptyManifest]
    /\ pc' = [a \in Actors |-> IF Owner[a] = p THEN "idle" ELSE pc[a]]
    /\ op' = [a \in Actors |-> IF Owner[a] = p THEN "vacuum" ELSE op[a]]
    /\ tab' = [a \in Actors |-> IF Owner[a] = p THEN NoTable ELSE tab[a]]
    /\ rows' = [a \in Actors |-> IF Owner[a] = p THEN 0 ELSE rows[a]]
    /\ stamp' = [a \in Actors |-> IF Owner[a] = p THEN 0 ELSE stamp[a]]
    /\ edit' = [a \in Actors |-> IF Owner[a] = p THEN "reclaim" ELSE edit[a]]
    /\ buf' = [a \in Actors |-> IF Owner[a] = p THEN EmptyManifest ELSE buf[a]]
    /\ pend' = [a \in Actors |-> IF Owner[a] = p THEN {} ELSE pend[a]]
    /\ UNCHANGED <<clock, source, disk, file, floor>>

(* CacheManager::new reads the manifest without taking its lock. *)
Restart(p) ==
    /\ p \in Procs \ up
    /\ up' = up \cup {p}
    /\ mem' = [mem EXCEPT ![p] = disk]
    /\ UNCHANGED <<clock, source, disk, file, lock, local, floor>>

-----------------------------------------------------------------------------

Start(a) ==
    \/ \E t \in Tables :
        \/ BeginScan(a, t)
        \/ BeginRefresh(a, t)
        \/ BeginMaterialize(a, t)
        \/ BeginRefreshMaterialized(a, t)
        \/ BeginInvalidate(a, t)
        \/ BeginDropMaterialized(a, t)
    \/ BeginVacuum(a)

(* The steps an operation takes by itself once it has been started. *)
Step(a) ==
    \/ ReadHit(a)
    \/ ReadBad(a)
    \/ MoveAside(a)
    \/ Fetch(a)
    \/ FetchFails(a)
    \/ Land(a)
    \/ LandFails(a)
    \/ WriteManifest(a)
    \/ WriteManifestFails(a)
    \/ Publish(a)
    \/ Unlink(a)
    \/ Reap(a)
    \/ SweepReferenced(a)
    \/ SweepList(a)

Lock(a) == LockManifest(a) \/ LockManifestUnreadable(a)

Environment ==
    \/ Tick
    \/ SourceAdvances
    \/ \E t \in Tables : BitRot(t)
    \/ \E p \in Procs : Crash(p) \/ Restart(p)

Next ==
    \/ \E a \in Actors : Start(a) \/ Step(a) \/ Lock(a)
    \/ Environment

Spec == Init /\ [][Next]_vars

(***************************************************************************)
(* An operation under way keeps taking steps: its thread is scheduled and  *)
(* its file system calls return.  The locks are fair enough that a waiter  *)
(* is not passed over forever (flock queues its waiters, parking_lot       *)
(* mutexes hand over), hence strong fairness for taking the lock.          *)
(***************************************************************************)
Fairness == \A a \in Actors : WF_vars(Step(a)) /\ SF_vars(Lock(a))

FairSpec == Spec /\ Fairness

-----------------------------------------------------------------------------
(* Properties.                                                             *)

(* Every variable stays in its range. *)
TypeOK ==
    /\ clock \in Nat
    /\ source \in Versions
    /\ disk \in Manifest
    /\ file \in [Tables -> Contents]
    /\ lock \in Actors \cup {Free}
    /\ up \subseteq Procs
    /\ mem \in [Procs -> Manifest]
    /\ pc \in [Actors -> Pcs]
    /\ op \in [Actors -> AllOperations]
    /\ tab \in [Actors -> Tables \cup {NoTable}]
    /\ rows \in [Actors -> Versions]
    /\ stamp \in [Actors -> Nat]
    /\ edit \in [Actors -> Edits]
    /\ buf \in [Actors -> Manifest]
    /\ pend \in [Actors -> SUBSET Tables]
    /\ floor \in [Tables -> Versions]

(* Concurrent writers merge (the comments of upsert and of                 *)
(* with_locked_manifest): seen from manifest.json, the whole store behaves *)
(* as if every operation edited it atomically, whatever the interleaving,  *)
(* crashes and failed writes.                                              *)
Abstract == INSTANCE CacheManifest WITH manifest <- disk
ImplementsManifest == Abstract!Spec

(* A process's in-memory manifest is only ever replaced by what is on disk *)
(* at that moment, so it never goes back to an older manifest: the copy is *)
(* published before with_locked_manifest lets go of the lock.              *)
MemoryNeverRewinds ==
    [][\A p \in up' : mem'[p] # mem[p] => mem'[p] = disk']_vars

(* A materialized table leaves the manifest only through an operation that *)
(* names it ("materialized drops are explicit only"): never because of     *)
(* another table's write, a vacuum, an expiry or a crash.                  *)
PinnedLeavesOnlyByName ==
    [][\A t \in Pinned : disk[t] # NoEntry /\ disk'[t] = NoEntry
          => \E a \in Actors : /\ tab[a] = t
                               /\ op[a] \in {"invalidate", "drop_materialized"}
                               /\ pc[a] = "modify"]_vars

(* Once an invalidate of t has returned true with no fetched rows about to *)
(* land, no process serves rows older than that moment from the file, not  *)
(* even one whose in-memory manifest still has the removed entry.          *)
NoStaleAfterInvalidate ==
    \A t \in Tables : file[t] \in Versions => file[t] >= floor[t]

(* Every operation that was started comes to an end, a scan of a missing   *)
(* or corrupt file included: a bad file never keeps a query from ending.   *)
OperationsEnd ==
    \A a \in Actors : pc[a] # "idle" ~> pc[a] = "idle"

=============================================================================
