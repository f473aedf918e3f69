--------------------------- MODULE DurableActivity ---------------------------
(***************************************************************************)
(* The durable store behind system.activity                                *)
(* (crates/pawrly-engine/src/durable_activity.rs), in one directory shared *)
(* by several processes.                                                   *)
(*                                                                         *)
(* In each process four tasks use the store: the drain of the activity     *)
(* channel records, and flushes when the buffer is full; a timer flushes   *)
(* and applies the retention; a scan of system.activity reads; and the     *)
(* engine's Drop flushes on a clean shutdown.  The buffer has a mutex of   *)
(* its own, the manifest a file lock; the data files have none.            *)
(*                                                                         *)
(* Abstraction.  A record is known by its id.  A Parquet file has a fresh  *)
(* name and is never rewritten, so the set of its records stands for it.   *)
(***************************************************************************)
EXTENDS Integers, FiniteSets

CONSTANTS
    Records,    \* the activity records
    Procs,      \* the processes that use the directory
    Timers,     \* those with a flush timer
    Readers,    \* those whose system.activity is read
    Closers,    \* those that may shut down
    Threshold,  \* flush_threshold
    Retention,  \* retention
    MaxClock,   \* bound on the wall clock
    Faults,     \* the faults that may happen: "io", "crash"
    Free,       \* nobody holds the manifest lock
    Unborn      \* the time of a record not recorded yet

Roles == {"drain", "timer", "scan", "drop"}

\* The tasks, each a process and its role; every process records.
Actors == (Procs \X {"drain"}) \cup (Timers \X {"timer"})
              \cup (Readers \X {"scan"}) \cup (Closers \X {"drop"})

ASSUME StoreAssumption ==
    /\ Timers \subseteq Procs /\ Readers \subseteq Procs /\ Closers \subseteq Procs
    /\ Threshold \in Nat \ {0}
    /\ Retention \in Nat
    /\ MaxClock \in Nat
    /\ Faults \subseteq {"io", "crash"}
    /\ Free \notin Actors
    /\ Unborn \notin Int

VARIABLES
    clock,      \* the wall clock
    at,         \* ActivityRecord.at
    pending,    \* Inner.pending of each process
    manifest,   \* the files in manifest.json
    disk,       \* the Parquet files in the directory
    lock,       \* the holder of .manifest.lock
    up,         \* the running processes
    closing,    \* those shutting down
    pc,         \* where each actor is
    held,       \* the records its flush has taken
    buf,        \* the manifest it has read
    cutoff,     \* the retention cutoff of its prune
    got,        \* how often its scan has returned each record
    due,        \* ghost: what its shutdown should not miss
    lost        \* ghost: records given up: a failed write, a crash, retention

vars == <<clock, at, pending, manifest, disk, lock, up, closing, pc, held,
          buf, cutoff, got, due, lost>>

Pcs == {"idle", "take", "write", "lock", "push", "prune", "retain", "drop",
        "open", "answer", "exit"}

Files == (SUBSET Records) \ {{}}
NoRows == [r \in Records |-> 0]

Init ==
    /\ clock = 0
    /\ at = [r \in Records |-> Unborn]
    /\ pending = [p \in Procs |-> {}]
    /\ manifest = {}
    /\ disk = {}
    /\ lock = Free
    /\ up = Procs
    /\ closing = {}
    /\ pc = [a \in Actors |-> "idle"]
    /\ held = [a \in Actors |-> {}]
    /\ buf = [a \in Actors |-> {}]
    /\ cutoff = [a \in Actors |-> 0]
    /\ got = [a \in Actors |-> NoRows]
    /\ due = [a \in Actors |-> {}]
    /\ lost = {}

Proc(a) == a[1]
Role(a) == a[2]
Goto(a, l) == pc' = [pc EXCEPT ![a] = l]

(* Mutant: min_at is compared. *)
Older_Min(f, cut) == \E r \in f : at[r] < cut

(* FileEntry.max_at < cut: the newest record of f is older than cut. *)
Older(f, cut) == \A r \in f : at[r] < cut

(* Retention has passed for r: a prune may delete its file. *)
PastRetention(r) == at[r] < clock - Retention

-----------------------------------------------------------------------------
(* ActivityRecorder::record, on the drain task.  `at` is the time the      *)
(* query ended, which the record may reach the store after.                *)

Record(p, r) ==
    LET a == <<p, "drain">>
    IN  /\ p \in up
        /\ a \in Actors
        /\ pc[a] = "idle"
        /\ at[r] = Unborn
        /\ \E t \in {clock, clock - 1} : t >= 0 /\ at' = [at EXCEPT ![r] = t]
        /\ pending' = [pending EXCEPT ![p] = @ \cup {r}]
        /\ Goto(a, IF Cardinality(pending'[p]) >= Threshold THEN "take" ELSE "idle")
        /\ UNCHANGED <<clock, manifest, disk, lock, up, closing, held, buf, cutoff, got, due, lost>>

(* The flush timer ticks. *)
Tick(p) ==
    /\ p \in up
    /\ <<p, "timer">> \in Actors
    /\ pc[<<p, "timer">>] = "idle"
    /\ Goto(<<p, "timer">>, "take")
    /\ UNCHANGED <<clock, at, pending, manifest, disk, lock, up, closing, held, buf, cutoff, got, due, lost>>

(* Mutant: the engine is dropped without a flush. *)
Shutdown_NoFlush(p) ==
    LET a == <<p, "drop">>
    IN  /\ p \in up \ closing
        /\ a \in Actors
        /\ closing' = closing \cup {p}
        /\ due' = [due EXCEPT ![a] = pending[p]]
        /\ Goto(a, "exit")
        /\ UNCHANGED <<clock, at, pending, manifest, disk, lock, up, held, buf, cutoff, got, lost>>

(* Drop for LocalEngineInner. *)
Shutdown(p) ==
    LET a == <<p, "drop">>
    IN  /\ p \in up \ closing
        /\ a \in Actors
        /\ closing' = closing \cup {p}
        /\ due' = [due EXCEPT ![a] = pending[p]]
        /\ Goto(a, "take")
        /\ UNCHANGED <<clock, at, pending, manifest, disk, lock, up, held, buf, cutoff, got, lost>>

-----------------------------------------------------------------------------
(* flush.                                                                  *)

(* After its flush the timer prunes, and a shutdown exits. *)
AfterFlush(a) ==
    CASE Role(a) = "timer" -> "prune"
      [] Role(a) = "drop" -> "exit"
      [] OTHER -> "idle"

(* Mutant: the buffer is copied and not cleared. *)
Take_Copies(a) ==
    /\ pc[a] = "take"
    /\ held' = [held EXCEPT ![a] = pending[Proc(a)]]
    /\ Goto(a, IF pending[Proc(a)] = {} THEN AfterFlush(a) ELSE "write")
    /\ UNCHANGED <<clock, at, pending, manifest, disk, lock, up, closing, buf, cutoff, got, due, lost>>

(* mem::take under the buffer's mutex. *)
Take(a) ==
    /\ pc[a] = "take"
    /\ held' = [held EXCEPT ![a] = pending[Proc(a)]]
    /\ pending' = [pending EXCEPT ![Proc(a)] = {}]
    /\ Goto(a, IF pending[Proc(a)] = {} THEN AfterFlush(a) ELSE "write")
    /\ UNCHANGED <<clock, at, manifest, disk, lock, up, closing, buf, cutoff, got, due, lost>>

(* write_parquet: tmp, fsync, rename. *)
Write(a) ==
    /\ pc[a] = "write"
    /\ disk' = disk \cup {held[a]}
    /\ Goto(a, "lock")
    /\ UNCHANGED <<clock, at, pending, manifest, lock, up, closing, held, buf, cutoff, got, due, lost>>

(* Mutant: nobody waits for the lock. *)
LockFree_Ignored == TRUE

(* with_manifest takes the lock and reads the manifest. *)
LockFree == lock = Free

Lock(a) ==
    /\ pc[a] \in {"lock", "retain"}
    /\ LockFree
    /\ lock' = a
    /\ buf' = [buf EXCEPT ![a] = manifest]
    /\ Goto(a, IF pc[a] = "lock" THEN "push" ELSE "drop")
    /\ UNCHANGED <<clock, at, pending, manifest, disk, up, closing, held, cutoff, got, due, lost>>

(* The new file's entry is pushed and the manifest written back. *)
Push(a) ==
    /\ pc[a] = "push"
    /\ manifest' = buf[a] \cup {held[a]}
    /\ lock' = Free
    /\ held' = [held EXCEPT ![a] = {}]
    /\ buf' = [buf EXCEPT ![a] = {}]
    /\ Goto(a, AfterFlush(a))
    /\ UNCHANGED <<clock, at, pending, disk, up, closing, cutoff, got, due, lost>>

(* write_parquet or write_manifest fails: the records have left the buffer *)
(* and are gone, in the second case with an orphan file left on disk.      *)
FlushFails(a) ==
    /\ "io" \in Faults
    /\ pc[a] \in {"write", "push"}
    /\ lost' = lost \cup held[a]
    /\ lock' = IF lock = a THEN Free ELSE lock
    /\ held' = [held EXCEPT ![a] = {}]
    /\ buf' = [buf EXCEPT ![a] = {}]
    /\ Goto(a, AfterFlush(a))
    /\ UNCHANGED <<clock, at, pending, manifest, disk, up, closing, cutoff, got, due>>

-----------------------------------------------------------------------------
(* prune.                                                                  *)

Cutoff(a) ==
    /\ pc[a] = "prune"
    /\ cutoff' = [cutoff EXCEPT ![a] = clock - Retention]
    /\ Goto(a, "retain")
    /\ UNCHANGED <<clock, at, pending, manifest, disk, lock, up, closing, held, buf, got, due, lost>>

(* The files whose newest record is older than the cutoff. *)
Stale(a) == {f \in buf[a] : Older(f, cutoff[a])}

(* retain deletes the stale files one by one; a deletion that fails is     *)
(* ignored.                                                                *)
RemoveFile(a) ==
    /\ pc[a] = "drop"
    /\ \E f \in Stale(a) \cap disk : disk' = disk \ {f}
    /\ UNCHANGED <<clock, at, pending, manifest, lock, up, closing, pc, held, buf, cutoff, got, due, lost>>

(* ... and the manifest is written back without them. *)
DropEntries(a) ==
    /\ pc[a] = "drop"
    /\ "io" \in Faults \/ Stale(a) \cap disk = {}
    /\ manifest' = buf[a] \ Stale(a)
    /\ lost' = lost \cup UNION Stale(a)
    /\ lock' = Free
    /\ buf' = [buf EXCEPT ![a] = {}]
    /\ cutoff' = [cutoff EXCEPT ![a] = 0]
    /\ Goto(a, "idle")
    /\ UNCHANGED <<clock, at, pending, disk, up, closing, held, got, due>>

(* write_manifest fails: the entries stay, of files that may be gone. *)
PruneFails(a) ==
    /\ "io" \in Faults
    /\ pc[a] = "drop"
    /\ lock' = Free
    /\ buf' = [buf EXCEPT ![a] = {}]
    /\ cutoff' = [cutoff EXCEPT ![a] = 0]
    /\ Goto(a, "idle")
    /\ UNCHANGED <<clock, at, pending, manifest, disk, up, closing, held, got, due, lost>>

-----------------------------------------------------------------------------
(* read_batches: the manifest, then its files, then the buffer; no lock.   *)

Add(a, S) == got' = [got EXCEPT ![a] = [r \in Records |-> @[r] + (IF r \in S THEN 1 ELSE 0)]]

ReadManifest(p) ==
    LET a == <<p, "scan">>
    IN  /\ p \in up \ closing
        /\ a \in Actors
        /\ pc[a] = "idle"
        /\ buf' = [buf EXCEPT ![a] = manifest]
        /\ Goto(a, "open")
        /\ UNCHANGED <<clock, at, pending, manifest, disk, lock, up, closing, held, cutoff, got, due, lost>>

(* A file that is gone is skipped. *)
OpenFile(a) ==
    /\ pc[a] = "open"
    /\ \E f \in buf[a] :
         /\ IF f \in disk THEN Add(a, f) ELSE UNCHANGED got
         /\ buf' = [buf EXCEPT ![a] = @ \ {f}]
    /\ UNCHANGED <<clock, at, pending, manifest, disk, lock, up, closing, pc, held, cutoff, due, lost>>

ReadPending(a) ==
    /\ pc[a] = "open"
    /\ buf[a] = {}
    /\ Add(a, pending[Proc(a)])
    /\ Goto(a, "answer")
    /\ UNCHANGED <<clock, at, pending, manifest, disk, lock, up, closing, held, buf, cutoff, due, lost>>

Answer(a) ==
    /\ pc[a] = "answer"
    /\ got' = [got EXCEPT ![a] = NoRows]
    /\ Goto(a, "idle")
    /\ UNCHANGED <<clock, at, pending, manifest, disk, lock, up, closing, held, buf, cutoff, due, lost>>

-----------------------------------------------------------------------------
(* The environment.                                                        *)

Advance ==
    /\ clock < MaxClock
    /\ clock' = clock + 1
    /\ UNCHANGED <<at, pending, manifest, disk, lock, up, closing, pc, held, buf, cutoff, got, due, lost>>

(* A process ends, by a crash or after its shutdown: what it had not       *)
(* written is lost, and the operating system releases its lock.            *)
End(p) ==
    LET own == {a \in Actors : Proc(a) = p}
        Reset(f, v) == [a \in Actors |-> IF a \in own THEN v ELSE f[a]]
        unlisted == UNION {held[a] : a \in own}
    IN  /\ up' = up \ {p}
        /\ closing' = closing \ {p}
        /\ lost' = lost \cup pending[p] \cup unlisted
        /\ pending' = [pending EXCEPT ![p] = {}]
        /\ lock' = IF lock \in own THEN Free ELSE lock
        /\ pc' = Reset(pc, "idle")
        /\ held' = Reset(held, {})
        /\ buf' = Reset(buf, {})
        /\ cutoff' = Reset(cutoff, 0)
        /\ got' = Reset(got, NoRows)
        /\ due' = Reset(due, {})
        /\ UNCHANGED <<clock, at, manifest, disk>>

Crash(p) == "crash" \in Faults /\ p \in up /\ End(p)

(* The runtime lets tasks in the middle of a flush or a prune return. *)
Exiting(p) ==
    /\ p \in closing
    /\ \A a \in Actors : Proc(a) = p =>
          pc[a] \in (IF Role(a) = "drop" THEN {"exit"} ELSE {"idle", "open", "answer"})

Exit(p) == Exiting(p) /\ End(p)

(* open: retention is applied once, as by the timer. *)
Open(p) ==
    /\ p \in Procs \ up
    /\ up' = up \cup {p}
    /\ IF <<p, "timer">> \in Actors THEN Goto(<<p, "timer">>, "prune") ELSE UNCHANGED pc
    /\ UNCHANGED <<clock, at, pending, manifest, disk, lock, closing, held, buf, cutoff, got, due, lost>>

-----------------------------------------------------------------------------

Step(a) ==
    \/ Take(a)
    \/ Write(a)
    \/ Push(a)
    \/ FlushFails(a)
    \/ Cutoff(a)
    \/ RemoveFile(a)
    \/ DropEntries(a)
    \/ PruneFails(a)
    \/ OpenFile(a)
    \/ ReadPending(a)
    \/ Answer(a)

Next ==
    \/ \E a \in Actors : Step(a) \/ Lock(a)
    \/ \E p \in Procs :
        \/ \E r \in Records : Record(p, r)
        \/ Tick(p)
        \/ Shutdown(p)
        \/ ReadManifest(p)
        \/ Crash(p)
        \/ Exit(p)
        \/ Open(p)
    \/ Advance

Spec == Init /\ [][Next]_vars

-----------------------------------------------------------------------------
(* Properties.                                                             *)

TypeOK ==
    /\ clock \in Nat
    /\ at \in [Records -> Nat \cup {Unborn}]
    /\ pending \in [Procs -> SUBSET Records]
    /\ manifest \subseteq Files
    /\ disk \subseteq Files
    /\ lock \in Actors \cup {Free}
    /\ up \subseteq Procs
    /\ closing \subseteq up
    /\ pc \in [Actors -> Pcs]
    /\ held \in [Actors -> SUBSET Records]
    /\ buf \in [Actors -> SUBSET Files]
    /\ cutoff \in [Actors -> Int]
    /\ got \in [Actors -> [Records -> Nat]]
    /\ due \in [Actors -> SUBSET Records]
    /\ lost \subseteq Records

(* Every record that reached the store is in exactly one place: in one     *)
(* buffer, in the hands of one flush, in one file of the manifest, or      *)
(* given up.  In particular files and buffers never overlap, and no flush  *)
(* undoes that of another process.                                         *)
Accounted ==
    \A r \in Records :
        Cardinality({p \in Procs : r \in pending[p]})
          + Cardinality({a \in Actors : r \in held[a]})
          + Cardinality({f \in manifest : r \in f})
          + (IF r \in lost THEN 1 ELSE 0)
        = (IF at[r] = Unborn THEN 0 ELSE 1)

(* "files and the pending buffer never overlap": no scan returns a record  *)
(* twice, though it reads the manifest, the files and the buffer without   *)
(* any lock while flushes move records from one to the other.              *)
ReadOnce == \A a \in Actors, r \in Records : got[a][r] <= 1

Readable(m, d) == UNION (m \cap d)

(* A record that is in the readable history stays there until retention    *)
(* has passed, whatever other processes flush, prune or crash.             *)
HistoryKept ==
    [][\A r \in Readable(manifest, disk) :
          r \in Readable(manifest', disk') \/ PastRetention(r)]_vars

(* A clean shutdown persists what was in the buffer when it began, also    *)
(* when another task's flush had taken it first.                           *)
ShutdownPersists ==
    \A p \in Procs :
        Exiting(p) => due[<<p, "drop">>] \subseteq (UNION manifest) \cup lost

=============================================================================
