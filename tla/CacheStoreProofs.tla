-------------------------- MODULE CacheStoreProofs --------------------------
(***************************************************************************)
(* Proofs about CacheStore, for every number of processes, actors and      *)
(* tables.                                                                 *)
(*                                                                         *)
(* TypeOK and the safety properties are not inductive by themselves.  What *)
(* makes them so is collected in IInv:                                     *)
(*   LockInv    the actors between "read the manifest" and "publish it"    *)
(*              are exactly the holder of the lock;                        *)
(*   EditInv    an actor on its way to the manifest carries a closure that *)
(*              fits its operation, a table, and a time that has passed;   *)
(*   OriginInv  a manifest entry is materialized iff its table is Pinned;  *)
(*   FloorInv   no file and no fetched rows are older than the ghost floor.*)
(* What ties the working copy of the lock holder to the disk is BufferInv; *)
(* it holds unless the manifest may be unreadable.                         *)
(***************************************************************************)
EXTENDS CacheStore, TLAPS

LockInv == \A a \in Actors : pc[a] \in {"modify", "publish"} <=> lock = a

PublishInv == \A a \in Actors : pc[a] = "publish" => buf[a] = disk

BufferInv == \A a \in Actors : pc[a] = "modify" => buf[a] = disk

WriterOps == {"scan", "refresh", "materialize", "refresh_materialized"}

OpInv ==
    \A a \in Actors :
        /\ pc[a] \in {"read", "aside", "fetch", "land"} => op[a] \in WriterOps
        /\ pc[a] # "idle" /\ op[a] # "vacuum" => tab[a] \in Tables
        /\ op[a] = "scan" => tab[a] \in Copies
        /\ pc[a] \in {"read", "aside"} => op[a] = "scan"

EditInv ==
    \A a \in Actors :
        /\ stamp[a] <= clock
        /\ pc[a] \in {"lock", "modify", "publish"} =>
             /\ edit[a] = "upsert" => op[a] \in WriterOps
             /\ edit[a] = "remove" => op[a] \in {"scan", "invalidate"}
             /\ edit[a] = "drop" => op[a] = "drop_materialized"
             /\ edit[a] = "reclaim" => op[a] = "vacuum"

OriginOf(m) == \A t \in Tables : m[t] # NoEntry => (IsMaterialized(m[t]) <=> t \in Pinned)

OriginInv ==
    /\ OriginOf(disk)
    /\ \A a \in Actors : OriginOf(buf[a])

FloorInv ==
    /\ \A t \in Tables : floor[t] <= source
    /\ NoStaleAfterInvalidate
    /\ \A a \in Actors : pc[a] = "land" => floor[tab[a]] <= rows[a]

IInv == TypeOK /\ LockInv /\ PublishInv /\ OpInv /\ EditInv /\ OriginInv /\ FloorInv


(* The empty manifest, which an idle actor's buffer holds, is a manifest. *)
LEMMA EmptyManifestTyped == EmptyManifest \in Manifest
BY DEF EmptyManifest, Manifest

(* The version an idle actor's rows hold. *)
LEMMA ZeroVersion == 0 \in Versions
BY NumbersAssumption DEF Versions

(* write_through and materialize build well-formed entries. *)
LEMMA NewEntryTyped ==
    ASSUME NEW t, NEW r \in Versions, NEW now \in Nat
    PROVE  NewEntry(t, r, now) \in Entry
<1>1. Expiry(t, now) \in Nat \cup {Never}
  BY NumbersAssumption DEF Expiry
<1>2. QED
  BY <1>1 DEF NewEntry, Entry

(* Every closure passed to with_locked_manifest leaves a manifest. *)
LEMMA EditedTyped ==
    ASSUME TypeOK, NEW a \in Actors
    PROVE  Edited(a) \in Manifest
<1>1. buf[a] \in Manifest /\ rows[a] \in Versions /\ stamp[a] \in Nat
  BY DEF TypeOK
<1>2. NewEntry(tab[a], rows[a], stamp[a]) \in Entry
  BY <1>1, NewEntryTyped
<1>3. With(buf[a], tab[a], NewEntry(tab[a], rows[a], stamp[a])) \in Manifest
  BY <1>1, <1>2 DEF With, Manifest
<1>4. \A S : Without(buf[a], S) \in Manifest
  BY <1>1 DEF Without, Manifest
<1>5. QED
  BY <1>3, <1>4 DEF Edited

(* An operation removes tables only. *)
LEMMA RemovedTyped ==
    ASSUME TypeOK, NEW a \in Actors, edit[a] \in {"remove", "drop"} => tab[a] \in Tables
    PROVE  Removed(a) \subseteq Tables
<1>1. edit[a] \in Edits
  BY DEF TypeOK
<1>2. QED
  BY <1>1 DEF Removed, Expired, Edits

LEMMA VersionsNat == Versions \subseteq Nat
BY NumbersAssumption DEF Versions

(* The ways an operation may go on once its closure has been published. *)
Continued(a) ==
    \/ Finish(a)
    \/ /\ \/ Goto(a, "reap") /\ op[a] = "vacuum"
          \/ Goto(a, "aside") /\ op[a] = "scan"
          \/ Goto(a, "unlink") /\ op[a] \in {"invalidate", "drop_materialized"}
       /\ UNCHANGED <<op, tab, rows, stamp, edit, buf, pend>>

LEMMA ContinueCases == ASSUME NEW a, Continue(a) PROVE Continued(a)
BY Zenon DEF Continue, Continued

LEMMA EmptyOrigin == OriginOf(EmptyManifest)
BY DEF OriginOf, EmptyManifest

(* The closures keep the origin of an entry in line with its schema. *)
LEMMA EditedOrigin ==
    ASSUME TypeOK, NEW a \in Actors, OriginOf(buf[a])
    PROVE  OriginOf(Edited(a))
<1>1. buf[a] \in [Tables -> Entry \cup {NoEntry}]
  BY DEF TypeOK, Manifest
<1>2. OriginOf(With(buf[a], tab[a], NewEntry(tab[a], rows[a], stamp[a])))
  BY <1>1 DEF With, OriginOf, NewEntry, IsMaterialized
<1>3. \A S : OriginOf(Without(buf[a], S))
  BY DEF Without, OriginOf
<1>4. QED
  BY <1>2, <1>3 DEF Edited


(* Every step keeps every variable in its range. *)
LEMMA TypeNext ==
    ASSUME TypeOK, OpInv, EditInv, [Next]_vars
    PROVE  TypeOK'
<1> USE DEF TypeOK, Pcs, Edits, AllOperations, Contents
<1>1. ASSUME NEW a \in Actors, NEW t \in Tables, BeginScan(a, t) PROVE TypeOK'
  BY <1>1 DEF BeginScan, Begin, Goto, shared, local
<1>2. ASSUME NEW a \in Actors, NEW t \in Tables, BeginRefresh(a, t) PROVE TypeOK'
  BY <1>2 DEF BeginRefresh, Begin, Goto, shared, local
<1>3. ASSUME NEW a \in Actors, NEW t \in Tables, BeginMaterialize(a, t) PROVE TypeOK'
  BY <1>3 DEF BeginMaterialize, Begin, Goto, shared, local
<1>4. ASSUME NEW a \in Actors, NEW t \in Tables, BeginRefreshMaterialized(a, t) PROVE TypeOK'
  BY <1>4 DEF BeginRefreshMaterialized, Begin, Goto, shared, local
<1>5. ASSUME NEW a \in Actors, NEW t \in Tables, BeginInvalidate(a, t) PROVE TypeOK'
  BY <1>5 DEF BeginInvalidate, Begin, Goto, shared, local
<1>6. ASSUME NEW a \in Actors, NEW t \in Tables, BeginDropMaterialized(a, t) PROVE TypeOK'
  BY <1>6 DEF BeginDropMaterialized, Begin, Goto, shared, local
<1>7. ASSUME NEW a \in Actors, BeginVacuum(a) PROVE TypeOK'
  BY <1>7 DEF BeginVacuum, Begin, Goto, shared, local
<1>8. ASSUME NEW a \in Actors, ReadHit(a) PROVE TypeOK'
  BY <1>8, EmptyManifestTyped, ZeroVersion DEF ReadHit, Finish, shared, local
<1>9. ASSUME NEW a \in Actors, ReadBad(a) PROVE TypeOK'
  BY <1>9 DEF ReadBad, Goto, shared, local
<1>10. ASSUME NEW a \in Actors, MoveAside(a) PROVE TypeOK'
  BY <1>10, EmptyManifestTyped, ZeroVersion DEF MoveAside, Goto, shared, local
<1>11. ASSUME NEW a \in Actors, Fetch(a) PROVE TypeOK'
  BY <1>11 DEF Fetch, Goto, shared, local
<1>12. ASSUME NEW a \in Actors, FetchFails(a) PROVE TypeOK'
  BY <1>12, EmptyManifestTyped, ZeroVersion DEF FetchFails, Finish, shared, local
<1>13. ASSUME NEW a \in Actors, Land(a) PROVE TypeOK'
  BY <1>13 DEF Land, Goto, shared, local
<1>14. ASSUME NEW a \in Actors, LandFails(a) PROVE TypeOK'
  BY <1>14, EmptyManifestTyped, ZeroVersion DEF LandFails, Finish, shared, local
<1>15. ASSUME NEW a \in Actors, LockManifest(a) PROVE TypeOK'
  BY <1>15 DEF LockManifest, Goto, LockFree, ReadManifest, shared, local
<1>16. ASSUME NEW a \in Actors, LockManifestUnreadable(a) PROVE TypeOK'
  BY <1>16, EmptyManifestTyped, ZeroVersion DEF LockManifestUnreadable, Goto, LockFree, shared, local
<1>17. ASSUME NEW a \in Actors, WriteManifest(a) PROVE TypeOK'
  <2>1. Edited(a) \in Manifest
    BY EditedTyped
  <2>2. edit[a] \in {"remove", "drop"} => tab[a] \in Tables
    BY <1>17 DEF WriteManifest, OpInv, EditInv
  <2>3. Removed(a) \subseteq Tables
    BY <2>2, RemovedTyped
  <2>4. QED
    BY <1>17, <2>1, <2>3 DEF WriteManifest, Goto, shared, local
<1>18. ASSUME NEW a \in Actors, WriteManifestFails(a) PROVE TypeOK'
  BY <1>18, EmptyManifestTyped, ZeroVersion DEF WriteManifestFails, Goto, Finish, shared, local
<1>19. ASSUME NEW a \in Actors, Publish(a) PROVE TypeOK'
  <2>1. Continued(a)
    BY <1>19, ContinueCases DEF Publish
  <2>2. QED
    <3>1. CASE Finish(a)
      BY <1>19, <3>1, EmptyManifestTyped, ZeroVersion DEF Publish, Finish
    <3>2. CASE ~Finish(a)
      BY <1>19, <2>1, <3>2 DEF Publish, Continued, Goto
    <3>3. QED
      BY <3>1, <3>2
<1>20. ASSUME NEW a \in Actors, Unlink(a) PROVE TypeOK'
  BY <1>20, EmptyManifestTyped, ZeroVersion, SMTT(30) DEF Unlink, Finish, shared, local
<1>21. ASSUME NEW a \in Actors, Reap(a) PROVE TypeOK'
  BY <1>21 DEF Reap, Goto, shared, local
<1>22. ASSUME NEW a \in Actors, SweepReferenced(a) PROVE TypeOK'
  BY <1>22 DEF SweepReferenced, Goto, shared, local
<1>23. ASSUME NEW a \in Actors, SweepList(a) PROVE TypeOK'
  BY <1>23, EmptyManifestTyped, ZeroVersion, SMTT(30) DEF SweepList, Goto, Finish, shared, local
<1>24. CASE Tick
  BY <1>24 DEF Tick, shared, local
<1>25. CASE SourceAdvances
  <2>1. source + 1 \in Versions
    BY <1>25, NumbersAssumption DEF SourceAdvances, Versions
  <2>2. QED
    BY <1>25, <2>1 DEF SourceAdvances, local
<1>26. ASSUME NEW t \in Tables, BitRot(t) PROVE TypeOK'
  BY <1>26 DEF BitRot, shared, local
<1>27. ASSUME NEW p \in Procs, Crash(p) PROVE TypeOK'
  BY <1>27, EmptyManifestTyped, ZeroVersion DEF Crash, shared, local
<1>28. ASSUME NEW p \in Procs, Restart(p) PROVE TypeOK'
  BY <1>28 DEF Restart, shared, local
<1>29. CASE UNCHANGED vars
  BY <1>29 DEF vars
<1>30. QED
  BY <1>1, <1>2, <1>3, <1>4, <1>5, <1>6, <1>7, <1>8, <1>9, <1>10, <1>11, <1>12, <1>13, <1>14, <1>15, <1>16, <1>17, <1>18, <1>19, <1>20, <1>21, <1>22, <1>23, <1>24, <1>25, <1>26, <1>27, <1>28, <1>29 DEF Next, Start, Step, Lock, Environment

(* The manifest lock is held exactly between reading and publishing. *)
LEMMA LockNext ==
    ASSUME TypeOK, LockInv, [Next]_vars
    PROVE  LockInv'
<1> USE DEF LockInv, TypeOK
<1>1. ASSUME NEW a \in Actors, NEW t \in Tables, BeginScan(a, t) PROVE LockInv'
  BY <1>1, MarkersAssumption, ActorsAssumption DEF BeginScan, Begin, Goto, shared, local
<1>2. ASSUME NEW a \in Actors, NEW t \in Tables, BeginRefresh(a, t) PROVE LockInv'
  BY <1>2, MarkersAssumption, ActorsAssumption DEF BeginRefresh, Begin, Goto, shared, local
<1>3. ASSUME NEW a \in Actors, NEW t \in Tables, BeginMaterialize(a, t) PROVE LockInv'
  BY <1>3, MarkersAssumption, ActorsAssumption DEF BeginMaterialize, Begin, Goto, shared, local
<1>4. ASSUME NEW a \in Actors, NEW t \in Tables, BeginRefreshMaterialized(a, t) PROVE LockInv'
  BY <1>4, MarkersAssumption, ActorsAssumption DEF BeginRefreshMaterialized, Begin, Goto, shared, local
<1>5. ASSUME NEW a \in Actors, NEW t \in Tables, BeginInvalidate(a, t) PROVE LockInv'
  BY <1>5, MarkersAssumption, ActorsAssumption DEF BeginInvalidate, Begin, Goto, shared, local
<1>6. ASSUME NEW a \in Actors, NEW t \in Tables, BeginDropMaterialized(a, t) PROVE LockInv'
  BY <1>6, MarkersAssumption, ActorsAssumption DEF BeginDropMaterialized, Begin, Goto, shared, local
<1>7. ASSUME NEW a \in Actors, BeginVacuum(a) PROVE LockInv'
  BY <1>7, MarkersAssumption, ActorsAssumption DEF BeginVacuum, Begin, Goto, shared, local
<1>8. ASSUME NEW a \in Actors, ReadHit(a) PROVE LockInv'
  BY <1>8, MarkersAssumption, ActorsAssumption DEF ReadHit, Finish, shared, local
<1>9. ASSUME NEW a \in Actors, ReadBad(a) PROVE LockInv'
  BY <1>9, MarkersAssumption, ActorsAssumption DEF ReadBad, Goto, shared, local
<1>10. ASSUME NEW a \in Actors, MoveAside(a) PROVE LockInv'
  BY <1>10, MarkersAssumption, ActorsAssumption DEF MoveAside, Goto, shared, local
<1>11. ASSUME NEW a \in Actors, Fetch(a) PROVE LockInv'
  BY <1>11, MarkersAssumption, ActorsAssumption DEF Fetch, Goto, shared, local
<1>12. ASSUME NEW a \in Actors, FetchFails(a) PROVE LockInv'
  BY <1>12, MarkersAssumption, ActorsAssumption DEF FetchFails, Finish, shared, local
<1>13. ASSUME NEW a \in Actors, Land(a) PROVE LockInv'
  BY <1>13, MarkersAssumption, ActorsAssumption DEF Land, Goto, shared, local
<1>14. ASSUME NEW a \in Actors, LandFails(a) PROVE LockInv'
  BY <1>14, MarkersAssumption, ActorsAssumption DEF LandFails, Finish, shared, local
<1>15. ASSUME NEW a \in Actors, LockManifest(a) PROVE LockInv'
  BY <1>15, MarkersAssumption, ActorsAssumption DEF LockManifest, Goto, LockFree, ReadManifest, shared, local
<1>16. ASSUME NEW a \in Actors, LockManifestUnreadable(a) PROVE LockInv'
  BY <1>16, MarkersAssumption, ActorsAssumption DEF LockManifestUnreadable, Goto, LockFree, shared, local
<1>17. ASSUME NEW a \in Actors, WriteManifest(a) PROVE LockInv'
  BY <1>17, MarkersAssumption, ActorsAssumption DEF WriteManifest, Goto, shared, local
<1>18. ASSUME NEW a \in Actors, WriteManifestFails(a) PROVE LockInv'
  BY <1>18, MarkersAssumption, ActorsAssumption DEF WriteManifestFails, Goto, Finish, shared, local
<1>19. ASSUME NEW a \in Actors, Publish(a) PROVE LockInv'
  <2>1. Continued(a)
    BY <1>19, ContinueCases DEF Publish
  <2>2. QED
    BY <1>19, <2>1, MarkersAssumption DEF Publish, Continued, Goto, Finish
<1>20. ASSUME NEW a \in Actors, Unlink(a) PROVE LockInv'
  BY <1>20, MarkersAssumption, ActorsAssumption DEF Unlink, Finish, shared, local
<1>21. ASSUME NEW a \in Actors, Reap(a) PROVE LockInv'
  BY <1>21, MarkersAssumption, ActorsAssumption DEF Reap, Goto, shared, local
<1>22. ASSUME NEW a \in Actors, SweepReferenced(a) PROVE LockInv'
  BY <1>22, MarkersAssumption, ActorsAssumption DEF SweepReferenced, Goto, shared, local
<1>23. ASSUME NEW a \in Actors, SweepList(a) PROVE LockInv'
  BY <1>23, MarkersAssumption, ActorsAssumption DEF SweepList, Goto, Finish, shared, local
<1>24. CASE Tick
  BY <1>24, MarkersAssumption, ActorsAssumption DEF Tick, shared, local
<1>25. CASE SourceAdvances
  BY <1>25, MarkersAssumption, ActorsAssumption DEF SourceAdvances, shared, local
<1>26. ASSUME NEW t \in Tables, BitRot(t) PROVE LockInv'
  BY <1>26, MarkersAssumption, ActorsAssumption DEF BitRot, shared, local
<1>27. ASSUME NEW p \in Procs, Crash(p) PROVE LockInv'
  BY <1>27, MarkersAssumption, ActorsAssumption DEF Crash, shared, local
<1>28. ASSUME NEW p \in Procs, Restart(p) PROVE LockInv'
  BY <1>28, MarkersAssumption, ActorsAssumption DEF Restart, shared, local
<1>29. CASE UNCHANGED vars
  BY <1>29 DEF vars
<1>30. QED
  BY <1>1, <1>2, <1>3, <1>4, <1>5, <1>6, <1>7, <1>8, <1>9, <1>10, <1>11, <1>12, <1>13, <1>14, <1>15, <1>16, <1>17, <1>18, <1>19, <1>20, <1>21, <1>22, <1>23, <1>24, <1>25, <1>26, <1>27, <1>28, <1>29 DEF Next, Start, Step, Lock, Environment

(* The operation and the table an actor works on fit where it is in it. *)
LEMMA OpNext ==
    ASSUME TypeOK, OpInv, [Next]_vars
    PROVE  OpInv'
<1> USE DEF OpInv, WriterOps, Copies, TypeOK
<1>1. ASSUME NEW a \in Actors, NEW t \in Tables, BeginScan(a, t) PROVE OpInv'
  BY <1>1 DEF BeginScan, Begin, Goto, shared, local
<1>2. ASSUME NEW a \in Actors, NEW t \in Tables, BeginRefresh(a, t) PROVE OpInv'
  BY <1>2 DEF BeginRefresh, Begin, Goto, shared, local
<1>3. ASSUME NEW a \in Actors, NEW t \in Tables, BeginMaterialize(a, t) PROVE OpInv'
  BY <1>3 DEF BeginMaterialize, Begin, Goto, shared, local
<1>4. ASSUME NEW a \in Actors, NEW t \in Tables, BeginRefreshMaterialized(a, t) PROVE OpInv'
  BY <1>4 DEF BeginRefreshMaterialized, Begin, Goto, shared, local
<1>5. ASSUME NEW a \in Actors, NEW t \in Tables, BeginInvalidate(a, t) PROVE OpInv'
  BY <1>5 DEF BeginInvalidate, Begin, Goto, shared, local
<1>6. ASSUME NEW a \in Actors, NEW t \in Tables, BeginDropMaterialized(a, t) PROVE OpInv'
  BY <1>6 DEF BeginDropMaterialized, Begin, Goto, shared, local
<1>7. ASSUME NEW a \in Actors, BeginVacuum(a) PROVE OpInv'
  BY <1>7 DEF BeginVacuum, Begin, Goto, shared, local
<1>8. ASSUME NEW a \in Actors, ReadHit(a) PROVE OpInv'
  BY <1>8 DEF ReadHit, Finish, shared, local
<1>9. ASSUME NEW a \in Actors, ReadBad(a) PROVE OpInv'
  BY <1>9 DEF ReadBad, Goto, shared, local
<1>10. ASSUME NEW a \in Actors, MoveAside(a) PROVE OpInv'
  BY <1>10 DEF MoveAside, Goto, shared, local
<1>11. ASSUME NEW a \in Actors, Fetch(a) PROVE OpInv'
  BY <1>11 DEF Fetch, Goto, shared, local
<1>12. ASSUME NEW a \in Actors, FetchFails(a) PROVE OpInv'
  BY <1>12 DEF FetchFails, Finish, shared, local
<1>13. ASSUME NEW a \in Actors, Land(a) PROVE OpInv'
  BY <1>13 DEF Land, Goto, shared, local
<1>14. ASSUME NEW a \in Actors, LandFails(a) PROVE OpInv'
  BY <1>14 DEF LandFails, Finish, shared, local
<1>15. ASSUME NEW a \in Actors, LockManifest(a) PROVE OpInv'
  BY <1>15 DEF LockManifest, Goto, LockFree, ReadManifest, shared, local
<1>16. ASSUME NEW a \in Actors, LockManifestUnreadable(a) PROVE OpInv'
  BY <1>16 DEF LockManifestUnreadable, Goto, LockFree, shared, local
<1>17. ASSUME NEW a \in Actors, WriteManifest(a) PROVE OpInv'
  BY <1>17 DEF WriteManifest, Goto, shared, local
<1>18. ASSUME NEW a \in Actors, WriteManifestFails(a) PROVE OpInv'
  BY <1>18 DEF WriteManifestFails, Goto, Finish, shared, local
<1>19. ASSUME NEW a \in Actors, Publish(a) PROVE OpInv'
  <2>1. Continued(a)
    BY <1>19, ContinueCases DEF Publish
  <2>2. QED
    BY <1>19, <2>1, MarkersAssumption DEF Publish, Continued, Goto, Finish
<1>20. ASSUME NEW a \in Actors, Unlink(a) PROVE OpInv'
  BY <1>20 DEF Unlink, Finish, shared, local
<1>21. ASSUME NEW a \in Actors, Reap(a) PROVE OpInv'
  BY <1>21 DEF Reap, Goto, shared, local
<1>22. ASSUME NEW a \in Actors, SweepReferenced(a) PROVE OpInv'
  BY <1>22 DEF SweepReferenced, Goto, shared, local
<1>23. ASSUME NEW a \in Actors, SweepList(a) PROVE OpInv'
  BY <1>23 DEF SweepList, Goto, Finish, shared, local
<1>24. CASE Tick
  BY <1>24 DEF Tick, shared, local
<1>25. CASE SourceAdvances
  BY <1>25 DEF SourceAdvances, shared, local
<1>26. ASSUME NEW t \in Tables, BitRot(t) PROVE OpInv'
  BY <1>26 DEF BitRot, shared, local
<1>27. ASSUME NEW p \in Procs, Crash(p) PROVE OpInv'
  BY <1>27 DEF Crash, shared, local
<1>28. ASSUME NEW p \in Procs, Restart(p) PROVE OpInv'
  BY <1>28 DEF Restart, shared, local
<1>29. CASE UNCHANGED vars
  BY <1>29 DEF vars
<1>30. QED
  BY <1>1, <1>2, <1>3, <1>4, <1>5, <1>6, <1>7, <1>8, <1>9, <1>10, <1>11, <1>12, <1>13, <1>14, <1>15, <1>16, <1>17, <1>18, <1>19, <1>20, <1>21, <1>22, <1>23, <1>24, <1>25, <1>26, <1>27, <1>28, <1>29 DEF Next, Start, Step, Lock, Environment

(* The closure an actor carries fits its operation. *)
LEMMA EditNext ==
    ASSUME TypeOK, OpInv, EditInv, [Next]_vars
    PROVE  EditInv'
<1> USE DEF OpInv, EditInv, WriterOps, TypeOK
<1>1. ASSUME NEW a \in Actors, NEW t \in Tables, BeginScan(a, t) PROVE EditInv'
  BY <1>1 DEF BeginScan, Begin, Goto, shared, local
<1>2. ASSUME NEW a \in Actors, NEW t \in Tables, BeginRefresh(a, t) PROVE EditInv'
  BY <1>2 DEF BeginRefresh, Begin, Goto, shared, local
<1>3. ASSUME NEW a \in Actors, NEW t \in Tables, BeginMaterialize(a, t) PROVE EditInv'
  BY <1>3 DEF BeginMaterialize, Begin, Goto, shared, local
<1>4. ASSUME NEW a \in Actors, NEW t \in Tables, BeginRefreshMaterialized(a, t) PROVE EditInv'
  BY <1>4 DEF BeginRefreshMaterialized, Begin, Goto, shared, local
<1>5. ASSUME NEW a \in Actors, NEW t \in Tables, BeginInvalidate(a, t) PROVE EditInv'
  BY <1>5 DEF BeginInvalidate, Begin, Goto, shared, local
<1>6. ASSUME NEW a \in Actors, NEW t \in Tables, BeginDropMaterialized(a, t) PROVE EditInv'
  BY <1>6 DEF BeginDropMaterialized, Begin, Goto, shared, local
<1>7. ASSUME NEW a \in Actors, BeginVacuum(a) PROVE EditInv'
  BY <1>7 DEF BeginVacuum, Begin, Goto, shared, local
<1>8. ASSUME NEW a \in Actors, ReadHit(a) PROVE EditInv'
  BY <1>8 DEF ReadHit, Finish, shared, local
<1>9. ASSUME NEW a \in Actors, ReadBad(a) PROVE EditInv'
  BY <1>9 DEF ReadBad, Goto, shared, local
<1>10. ASSUME NEW a \in Actors, MoveAside(a) PROVE EditInv'
  BY <1>10 DEF MoveAside, Goto, shared, local
<1>11. ASSUME NEW a \in Actors, Fetch(a) PROVE EditInv'
  BY <1>11 DEF Fetch, Goto, shared, local
<1>12. ASSUME NEW a \in Actors, FetchFails(a) PROVE EditInv'
  BY <1>12 DEF FetchFails, Finish, shared, local
<1>13. ASSUME NEW a \in Actors, Land(a) PROVE EditInv'
  BY <1>13 DEF Land, Goto, shared, local
<1>14. ASSUME NEW a \in Actors, LandFails(a) PROVE EditInv'
  BY <1>14 DEF LandFails, Finish, shared, local
<1>15. ASSUME NEW a \in Actors, LockManifest(a) PROVE EditInv'
  BY <1>15 DEF LockManifest, Goto, LockFree, ReadManifest, shared, local
<1>16. ASSUME NEW a \in Actors, LockManifestUnreadable(a) PROVE EditInv'
  BY <1>16 DEF LockManifestUnreadable, Goto, LockFree, shared, local
<1>17. ASSUME NEW a \in Actors, WriteManifest(a) PROVE EditInv'
  BY <1>17 DEF WriteManifest, Goto, shared, local
<1>18. ASSUME NEW a \in Actors, WriteManifestFails(a) PROVE EditInv'
  BY <1>18 DEF WriteManifestFails, Goto, Finish, shared, local
<1>19. ASSUME NEW a \in Actors, Publish(a) PROVE EditInv'
  <2>1. Continued(a)
    BY <1>19, ContinueCases DEF Publish
  <2>2. QED
    BY <1>19, <2>1, MarkersAssumption DEF Publish, Continued, Goto, Finish
<1>20. ASSUME NEW a \in Actors, Unlink(a) PROVE EditInv'
  BY <1>20 DEF Unlink, Finish, shared, local
<1>21. ASSUME NEW a \in Actors, Reap(a) PROVE EditInv'
  BY <1>21 DEF Reap, Goto, shared, local
<1>22. ASSUME NEW a \in Actors, SweepReferenced(a) PROVE EditInv'
  BY <1>22 DEF SweepReferenced, Goto, shared, local
<1>23. ASSUME NEW a \in Actors, SweepList(a) PROVE EditInv'
  BY <1>23 DEF SweepList, Goto, Finish, shared, local
<1>24. CASE Tick
  BY <1>24 DEF Tick, shared, local
<1>25. CASE SourceAdvances
  BY <1>25 DEF SourceAdvances, shared, local
<1>26. ASSUME NEW t \in Tables, BitRot(t) PROVE EditInv'
  BY <1>26 DEF BitRot, shared, local
<1>27. ASSUME NEW p \in Procs, Crash(p) PROVE EditInv'
  BY <1>27 DEF Crash, shared, local
<1>28. ASSUME NEW p \in Procs, Restart(p) PROVE EditInv'
  BY <1>28 DEF Restart, shared, local
<1>29. CASE UNCHANGED vars
  BY <1>29 DEF vars
<1>30. QED
  BY <1>1, <1>2, <1>3, <1>4, <1>5, <1>6, <1>7, <1>8, <1>9, <1>10, <1>11, <1>12, <1>13, <1>14, <1>15, <1>16, <1>17, <1>18, <1>19, <1>20, <1>21, <1>22, <1>23, <1>24, <1>25, <1>26, <1>27, <1>28, <1>29 DEF Next, Start, Step, Lock, Environment

(* An actor that has written the manifest holds what is on disk. *)
LEMMA PublishNext ==
    ASSUME TypeOK, LockInv, PublishInv, [Next]_vars
    PROVE  PublishInv'
<1> USE DEF PublishInv, LockInv, TypeOK
<1>1. ASSUME NEW a \in Actors, NEW t \in Tables, BeginScan(a, t) PROVE PublishInv'
  BY <1>1 DEF BeginScan, Begin, Goto, shared, local
<1>2. ASSUME NEW a \in Actors, NEW t \in Tables, BeginRefresh(a, t) PROVE PublishInv'
  BY <1>2 DEF BeginRefresh, Begin, Goto, shared, local
<1>3. ASSUME NEW a \in Actors, NEW t \in Tables, BeginMaterialize(a, t) PROVE PublishInv'
  BY <1>3 DEF BeginMaterialize, Begin, Goto, shared, local
<1>4. ASSUME NEW a \in Actors, NEW t \in Tables, BeginRefreshMaterialized(a, t) PROVE PublishInv'
  BY <1>4 DEF BeginRefreshMaterialized, Begin, Goto, shared, local
<1>5. ASSUME NEW a \in Actors, NEW t \in Tables, BeginInvalidate(a, t) PROVE PublishInv'
  BY <1>5 DEF BeginInvalidate, Begin, Goto, shared, local
<1>6. ASSUME NEW a \in Actors, NEW t \in Tables, BeginDropMaterialized(a, t) PROVE PublishInv'
  BY <1>6 DEF BeginDropMaterialized, Begin, Goto, shared, local
<1>7. ASSUME NEW a \in Actors, BeginVacuum(a) PROVE PublishInv'
  BY <1>7 DEF BeginVacuum, Begin, Goto, shared, local
<1>8. ASSUME NEW a \in Actors, ReadHit(a) PROVE PublishInv'
  BY <1>8 DEF ReadHit, Finish, shared, local
<1>9. ASSUME NEW a \in Actors, ReadBad(a) PROVE PublishInv'
  BY <1>9 DEF ReadBad, Goto, shared, local
<1>10. ASSUME NEW a \in Actors, MoveAside(a) PROVE PublishInv'
  BY <1>10 DEF MoveAside, Goto, shared, local
<1>11. ASSUME NEW a \in Actors, Fetch(a) PROVE PublishInv'
  BY <1>11 DEF Fetch, Goto, shared, local
<1>12. ASSUME NEW a \in Actors, FetchFails(a) PROVE PublishInv'
  BY <1>12 DEF FetchFails, Finish, shared, local
<1>13. ASSUME NEW a \in Actors, Land(a) PROVE PublishInv'
  BY <1>13 DEF Land, Goto, shared, local
<1>14. ASSUME NEW a \in Actors, LandFails(a) PROVE PublishInv'
  BY <1>14 DEF LandFails, Finish, shared, local
<1>15. ASSUME NEW a \in Actors, LockManifest(a) PROVE PublishInv'
  BY <1>15 DEF LockManifest, Goto, LockFree, ReadManifest, shared, local
<1>16. ASSUME NEW a \in Actors, LockManifestUnreadable(a) PROVE PublishInv'
  BY <1>16 DEF LockManifestUnreadable, Goto, LockFree, shared, local
<1>17. ASSUME NEW a \in Actors, WriteManifest(a) PROVE PublishInv'
  BY <1>17 DEF WriteManifest, Goto, shared, local
<1>18. ASSUME NEW a \in Actors, WriteManifestFails(a) PROVE PublishInv'
  BY <1>18 DEF WriteManifestFails, Goto, Finish, shared, local
<1>19. ASSUME NEW a \in Actors, Publish(a) PROVE PublishInv'
  <2>1. Continued(a)
    BY <1>19, ContinueCases DEF Publish
  <2>2. QED
    BY <1>19, <2>1, MarkersAssumption DEF Publish, Continued, Goto, Finish
<1>20. ASSUME NEW a \in Actors, Unlink(a) PROVE PublishInv'
  BY <1>20 DEF Unlink, Finish, shared, local
<1>21. ASSUME NEW a \in Actors, Reap(a) PROVE PublishInv'
  BY <1>21 DEF Reap, Goto, shared, local
<1>22. ASSUME NEW a \in Actors, SweepReferenced(a) PROVE PublishInv'
  BY <1>22 DEF SweepReferenced, Goto, shared, local
<1>23. ASSUME NEW a \in Actors, SweepList(a) PROVE PublishInv'
  BY <1>23 DEF SweepList, Goto, Finish, shared, local
<1>24. CASE Tick
  BY <1>24 DEF Tick, shared, local
<1>25. CASE SourceAdvances
  BY <1>25 DEF SourceAdvances, shared, local
<1>26. ASSUME NEW t \in Tables, BitRot(t) PROVE PublishInv'
  BY <1>26 DEF BitRot, shared, local
<1>27. ASSUME NEW p \in Procs, Crash(p) PROVE PublishInv'
  BY <1>27 DEF Crash, shared, local
<1>28. ASSUME NEW p \in Procs, Restart(p) PROVE PublishInv'
  BY <1>28 DEF Restart, shared, local
<1>29. CASE UNCHANGED vars
  BY <1>29 DEF vars
<1>30. QED
  BY <1>1, <1>2, <1>3, <1>4, <1>5, <1>6, <1>7, <1>8, <1>9, <1>10, <1>11, <1>12, <1>13, <1>14, <1>15, <1>16, <1>17, <1>18, <1>19, <1>20, <1>21, <1>22, <1>23, <1>24, <1>25, <1>26, <1>27, <1>28, <1>29 DEF Next, Start, Step, Lock, Environment

(* So does one that has read it, unless it could not be read. *)
LEMMA BufferNext ==
    ASSUME "unreadable" \notin Faults, TypeOK, LockInv, BufferInv, [Next]_vars
    PROVE  BufferInv'
<1> USE DEF BufferInv, LockInv, TypeOK
<1>1. ASSUME NEW a \in Actors, NEW t \in Tables, BeginScan(a, t) PROVE BufferInv'
  BY <1>1 DEF BeginScan, Begin, Goto, shared, local
<1>2. ASSUME NEW a \in Actors, NEW t \in Tables, BeginRefresh(a, t) PROVE BufferInv'
  BY <1>2 DEF BeginRefresh, Begin, Goto, shared, local
<1>3. ASSUME NEW a \in Actors, NEW t \in Tables, BeginMaterialize(a, t) PROVE BufferInv'
  BY <1>3 DEF BeginMaterialize, Begin, Goto, shared, local
<1>4. ASSUME NEW a \in Actors, NEW t \in Tables, BeginRefreshMaterialized(a, t) PROVE BufferInv'
  BY <1>4 DEF BeginRefreshMaterialized, Begin, Goto, shared, local
<1>5. ASSUME NEW a \in Actors, NEW t \in Tables, BeginInvalidate(a, t) PROVE BufferInv'
  BY <1>5 DEF BeginInvalidate, Begin, Goto, shared, local
<1>6. ASSUME NEW a \in Actors, NEW t \in Tables, BeginDropMaterialized(a, t) PROVE BufferInv'
  BY <1>6 DEF BeginDropMaterialized, Begin, Goto, shared, local
<1>7. ASSUME NEW a \in Actors, BeginVacuum(a) PROVE BufferInv'
  BY <1>7 DEF BeginVacuum, Begin, Goto, shared, local
<1>8. ASSUME NEW a \in Actors, ReadHit(a) PROVE BufferInv'
  BY <1>8 DEF ReadHit, Finish, shared, local
<1>9. ASSUME NEW a \in Actors, ReadBad(a) PROVE BufferInv'
  BY <1>9 DEF ReadBad, Goto, shared, local
<1>10. ASSUME NEW a \in Actors, MoveAside(a) PROVE BufferInv'
  BY <1>10 DEF MoveAside, Goto, shared, local
<1>11. ASSUME NEW a \in Actors, Fetch(a) PROVE BufferInv'
  BY <1>11 DEF Fetch, Goto, shared, local
<1>12. ASSUME NEW a \in Actors, FetchFails(a) PROVE BufferInv'
  BY <1>12 DEF FetchFails, Finish, shared, local
<1>13. ASSUME NEW a \in Actors, Land(a) PROVE BufferInv'
  BY <1>13 DEF Land, Goto, shared, local
<1>14. ASSUME NEW a \in Actors, LandFails(a) PROVE BufferInv'
  BY <1>14 DEF LandFails, Finish, shared, local
<1>15. ASSUME NEW a \in Actors, LockManifest(a) PROVE BufferInv'
  BY <1>15 DEF LockManifest, Goto, LockFree, ReadManifest, shared, local
<1>16. ASSUME NEW a \in Actors, LockManifestUnreadable(a) PROVE BufferInv'
  BY <1>16 DEF LockManifestUnreadable, Goto, LockFree, shared, local
<1>17. ASSUME NEW a \in Actors, WriteManifest(a) PROVE BufferInv'
  BY <1>17 DEF WriteManifest, Goto, shared, local
<1>18. ASSUME NEW a \in Actors, WriteManifestFails(a) PROVE BufferInv'
  BY <1>18 DEF WriteManifestFails, Goto, Finish, shared, local
<1>19. ASSUME NEW a \in Actors, Publish(a) PROVE BufferInv'
  <2>1. Continued(a)
    BY <1>19, ContinueCases DEF Publish
  <2>2. QED
    BY <1>19, <2>1, MarkersAssumption DEF Publish, Continued, Goto, Finish
<1>20. ASSUME NEW a \in Actors, Unlink(a) PROVE BufferInv'
  BY <1>20 DEF Unlink, Finish, shared, local
<1>21. ASSUME NEW a \in Actors, Reap(a) PROVE BufferInv'
  BY <1>21 DEF Reap, Goto, shared, local
<1>22. ASSUME NEW a \in Actors, SweepReferenced(a) PROVE BufferInv'
  BY <1>22 DEF SweepReferenced, Goto, shared, local
<1>23. ASSUME NEW a \in Actors, SweepList(a) PROVE BufferInv'
  BY <1>23 DEF SweepList, Goto, Finish, shared, local
<1>24. CASE Tick
  BY <1>24 DEF Tick, shared, local
<1>25. CASE SourceAdvances
  BY <1>25 DEF SourceAdvances, shared, local
<1>26. ASSUME NEW t \in Tables, BitRot(t) PROVE BufferInv'
  BY <1>26 DEF BitRot, shared, local
<1>27. ASSUME NEW p \in Procs, Crash(p) PROVE BufferInv'
  BY <1>27 DEF Crash, shared, local
<1>28. ASSUME NEW p \in Procs, Restart(p) PROVE BufferInv'
  BY <1>28 DEF Restart, shared, local
<1>29. CASE UNCHANGED vars
  BY <1>29 DEF vars
<1>30. QED
  BY <1>1, <1>2, <1>3, <1>4, <1>5, <1>6, <1>7, <1>8, <1>9, <1>10, <1>11, <1>12, <1>13, <1>14, <1>15, <1>16, <1>17, <1>18, <1>19, <1>20, <1>21, <1>22, <1>23, <1>24, <1>25, <1>26, <1>27, <1>28, <1>29 DEF Next, Start, Step, Lock, Environment

(* A manifest entry is materialized iff its table is. *)
LEMMA OriginNext ==
    ASSUME TypeOK, OriginInv, [Next]_vars
    PROVE  OriginInv'
<1> USE DEF OriginInv, TypeOK
<1>1. ASSUME NEW a \in Actors, NEW t \in Tables, BeginScan(a, t) PROVE OriginInv'
  BY <1>1 DEF BeginScan, Begin, Goto, shared, local
<1>2. ASSUME NEW a \in Actors, NEW t \in Tables, BeginRefresh(a, t) PROVE OriginInv'
  BY <1>2 DEF BeginRefresh, Begin, Goto, shared, local
<1>3. ASSUME NEW a \in Actors, NEW t \in Tables, BeginMaterialize(a, t) PROVE OriginInv'
  BY <1>3 DEF BeginMaterialize, Begin, Goto, shared, local
<1>4. ASSUME NEW a \in Actors, NEW t \in Tables, BeginRefreshMaterialized(a, t) PROVE OriginInv'
  BY <1>4 DEF BeginRefreshMaterialized, Begin, Goto, shared, local
<1>5. ASSUME NEW a \in Actors, NEW t \in Tables, BeginInvalidate(a, t) PROVE OriginInv'
  BY <1>5 DEF BeginInvalidate, Begin, Goto, shared, local
<1>6. ASSUME NEW a \in Actors, NEW t \in Tables, BeginDropMaterialized(a, t) PROVE OriginInv'
  BY <1>6 DEF BeginDropMaterialized, Begin, Goto, shared, local
<1>7. ASSUME NEW a \in Actors, BeginVacuum(a) PROVE OriginInv'
  BY <1>7 DEF BeginVacuum, Begin, Goto, shared, local
<1>8. ASSUME NEW a \in Actors, ReadHit(a) PROVE OriginInv'
  BY <1>8, EmptyOrigin DEF ReadHit, Finish, shared, local
<1>9. ASSUME NEW a \in Actors, ReadBad(a) PROVE OriginInv'
  BY <1>9 DEF ReadBad, Goto, shared, local
<1>10. ASSUME NEW a \in Actors, MoveAside(a) PROVE OriginInv'
  BY <1>10, EmptyOrigin DEF MoveAside, Goto, shared, local
<1>11. ASSUME NEW a \in Actors, Fetch(a) PROVE OriginInv'
  BY <1>11 DEF Fetch, Goto, shared, local
<1>12. ASSUME NEW a \in Actors, FetchFails(a) PROVE OriginInv'
  BY <1>12, EmptyOrigin DEF FetchFails, Finish, shared, local
<1>13. ASSUME NEW a \in Actors, Land(a) PROVE OriginInv'
  BY <1>13 DEF Land, Goto, shared, local
<1>14. ASSUME NEW a \in Actors, LandFails(a) PROVE OriginInv'
  BY <1>14, EmptyOrigin DEF LandFails, Finish, shared, local
<1>15. ASSUME NEW a \in Actors, LockManifest(a) PROVE OriginInv'
  BY <1>15 DEF LockManifest, Goto, LockFree, ReadManifest, shared, local
<1>16. ASSUME NEW a \in Actors, LockManifestUnreadable(a) PROVE OriginInv'
  BY <1>16, EmptyOrigin DEF LockManifestUnreadable, Goto, LockFree, shared, local
<1>17. ASSUME NEW a \in Actors, WriteManifest(a) PROVE OriginInv'
  <2>1. OriginOf(Edited(a))
    BY EditedOrigin
  <2>2. QED
    BY <1>17, <2>1 DEF WriteManifest, Goto
<1>18. ASSUME NEW a \in Actors, WriteManifestFails(a) PROVE OriginInv'
  BY <1>18, EmptyOrigin DEF WriteManifestFails, Goto, Finish, shared, local
<1>19. ASSUME NEW a \in Actors, Publish(a) PROVE OriginInv'
  <2>1. Continued(a)
    BY <1>19, ContinueCases DEF Publish
  <2>2. QED
    BY <1>19, <2>1, EmptyOrigin DEF Publish, Continued, Goto, Finish
<1>20. ASSUME NEW a \in Actors, Unlink(a) PROVE OriginInv'
  BY <1>20, EmptyOrigin DEF Unlink, Finish, shared, local
<1>21. ASSUME NEW a \in Actors, Reap(a) PROVE OriginInv'
  BY <1>21 DEF Reap, Goto, shared, local
<1>22. ASSUME NEW a \in Actors, SweepReferenced(a) PROVE OriginInv'
  BY <1>22 DEF SweepReferenced, Goto, shared, local
<1>23. ASSUME NEW a \in Actors, SweepList(a) PROVE OriginInv'
  BY <1>23, EmptyOrigin DEF SweepList, Goto, Finish, shared, local
<1>24. CASE Tick
  BY <1>24 DEF Tick, shared, local
<1>25. CASE SourceAdvances
  BY <1>25 DEF SourceAdvances, shared, local
<1>26. ASSUME NEW t \in Tables, BitRot(t) PROVE OriginInv'
  BY <1>26 DEF BitRot, shared, local
<1>27. ASSUME NEW p \in Procs, Crash(p) PROVE OriginInv'
  BY <1>27, EmptyOrigin DEF Crash, shared, local
<1>28. ASSUME NEW p \in Procs, Restart(p) PROVE OriginInv'
  BY <1>28 DEF Restart, shared, local
<1>29. CASE UNCHANGED vars
  BY <1>29 DEF vars
<1>30. QED
  BY <1>1, <1>2, <1>3, <1>4, <1>5, <1>6, <1>7, <1>8, <1>9, <1>10, <1>11, <1>12, <1>13, <1>14, <1>15, <1>16, <1>17, <1>18, <1>19, <1>20, <1>21, <1>22, <1>23, <1>24, <1>25, <1>26, <1>27, <1>28, <1>29 DEF Next, Start, Step, Lock, Environment

(* Neither a file nor rows about to land are older than the floor. *)
LEMMA FloorNext ==
    ASSUME TypeOK, OpInv, FloorInv, [Next]_vars
    PROVE  FloorInv'
<1> USE DEF FloorInv, NoStaleAfterInvalidate, TypeOK, Contents
<1>1. ASSUME NEW a \in Actors, NEW t \in Tables, BeginScan(a, t) PROVE FloorInv'
  BY <1>1, MarkersAssumption DEF BeginScan, Begin, Goto, shared, local
<1>2. ASSUME NEW a \in Actors, NEW t \in Tables, BeginRefresh(a, t) PROVE FloorInv'
  BY <1>2, MarkersAssumption DEF BeginRefresh, Begin, Goto, shared, local
<1>3. ASSUME NEW a \in Actors, NEW t \in Tables, BeginMaterialize(a, t) PROVE FloorInv'
  BY <1>3, MarkersAssumption DEF BeginMaterialize, Begin, Goto, shared, local
<1>4. ASSUME NEW a \in Actors, NEW t \in Tables, BeginRefreshMaterialized(a, t) PROVE FloorInv'
  BY <1>4, MarkersAssumption DEF BeginRefreshMaterialized, Begin, Goto, shared, local
<1>5. ASSUME NEW a \in Actors, NEW t \in Tables, BeginInvalidate(a, t) PROVE FloorInv'
  BY <1>5, MarkersAssumption DEF BeginInvalidate, Begin, Goto, shared, local
<1>6. ASSUME NEW a \in Actors, NEW t \in Tables, BeginDropMaterialized(a, t) PROVE FloorInv'
  BY <1>6, MarkersAssumption DEF BeginDropMaterialized, Begin, Goto, shared, local
<1>7. ASSUME NEW a \in Actors, BeginVacuum(a) PROVE FloorInv'
  BY <1>7, MarkersAssumption DEF BeginVacuum, Begin, Goto, shared, local
<1>8. ASSUME NEW a \in Actors, ReadHit(a) PROVE FloorInv'
  BY <1>8, MarkersAssumption DEF ReadHit, Finish, shared, local
<1>9. ASSUME NEW a \in Actors, ReadBad(a) PROVE FloorInv'
  BY <1>9, MarkersAssumption DEF ReadBad, Goto, shared, local
<1>10. ASSUME NEW a \in Actors, MoveAside(a) PROVE FloorInv'
  BY <1>10, MarkersAssumption DEF MoveAside, Goto, shared, local
<1>11. ASSUME NEW a \in Actors, Fetch(a) PROVE FloorInv'
  <2>1. tab[a] \in Tables
    BY <1>11 DEF Fetch, OpInv, WriterOps
  <2>2. QED
    BY <1>11, <2>1 DEF Fetch, Goto, shared, local
<1>12. ASSUME NEW a \in Actors, FetchFails(a) PROVE FloorInv'
  BY <1>12, MarkersAssumption DEF FetchFails, Finish, shared, local
<1>13. ASSUME NEW a \in Actors, Land(a) PROVE FloorInv'
  BY <1>13, MarkersAssumption DEF Land, Goto, shared, local
<1>14. ASSUME NEW a \in Actors, LandFails(a) PROVE FloorInv'
  BY <1>14, MarkersAssumption DEF LandFails, Finish, shared, local
<1>15. ASSUME NEW a \in Actors, LockManifest(a) PROVE FloorInv'
  BY <1>15, MarkersAssumption DEF LockManifest, Goto, LockFree, ReadManifest, shared, local
<1>16. ASSUME NEW a \in Actors, LockManifestUnreadable(a) PROVE FloorInv'
  BY <1>16, MarkersAssumption DEF LockManifestUnreadable, Goto, LockFree, shared, local
<1>17. ASSUME NEW a \in Actors, WriteManifest(a) PROVE FloorInv'
  BY <1>17, MarkersAssumption DEF WriteManifest, Goto, shared, local
<1>18. ASSUME NEW a \in Actors, WriteManifestFails(a) PROVE FloorInv'
  BY <1>18, MarkersAssumption DEF WriteManifestFails, Goto, Finish, shared, local
<1>19. ASSUME NEW a \in Actors, Publish(a) PROVE FloorInv'
  <2>1. Continued(a)
    BY <1>19, ContinueCases DEF Publish
  <2>2. QED
    BY <1>19, <2>1, MarkersAssumption DEF Publish, Continued, Goto, Finish
<1>20. ASSUME NEW a \in Actors, Unlink(a) PROVE FloorInv'
  <2>1. PICK t \in pend[a] :
           /\ file' = [file EXCEPT ![t] = Absent]
           /\ floor' = IF op[a] = "invalidate" /\ ~InFlight(t)
                       THEN [floor EXCEPT ![t] = source]
                       ELSE floor
    BY <1>20 DEF Unlink
  <2>2. /\ \A b \in Actors : pc'[b] = "land" => pc[b] = "land" /\ tab'[b] = tab[b] /\ rows'[b] = rows[b]
        /\ source' = source
    BY <1>20 DEF Unlink, Finish
  <2>3. \A u \in Tables : floor'[u] <= source
    BY <2>1, VersionsNat
  <2>4. NoStaleAfterInvalidate'
    BY <2>1, MarkersAssumption
  <2>5. ASSUME NEW b \in Actors, pc'[b] = "land" PROVE floor'[tab'[b]] <= rows'[b]
    BY <2>1, <2>2, <2>5 DEF InFlight
  <2>6. QED
    BY <2>2, <2>3, <2>4, <2>5
<1>21. ASSUME NEW a \in Actors, Reap(a) PROVE FloorInv'
  BY <1>21, MarkersAssumption DEF Reap, Goto, shared, local
<1>22. ASSUME NEW a \in Actors, SweepReferenced(a) PROVE FloorInv'
  BY <1>22, MarkersAssumption DEF SweepReferenced, Goto, shared, local
<1>23. ASSUME NEW a \in Actors, SweepList(a) PROVE FloorInv'
  BY <1>23, MarkersAssumption DEF SweepList, Goto, Finish, shared, local
<1>24. CASE Tick
  BY <1>24, MarkersAssumption DEF Tick, shared, local
<1>25. CASE SourceAdvances
  <2>1. /\ source \in Nat
        /\ \A t \in Tables : floor[t] \in Nat /\ floor[t] <= source + 1
    <3>1. source \in Nat /\ \A t \in Tables : floor[t] \in Nat
      BY VersionsNat
    <3>2. QED
      BY <3>1
  <2>2. QED
    BY <1>25, <2>1 DEF SourceAdvances, shared, local
<1>26. ASSUME NEW t \in Tables, BitRot(t) PROVE FloorInv'
  BY <1>26, MarkersAssumption DEF BitRot, shared, local
<1>27. ASSUME NEW p \in Procs, Crash(p) PROVE FloorInv'
  BY <1>27, MarkersAssumption DEF Crash, shared, local
<1>28. ASSUME NEW p \in Procs, Restart(p) PROVE FloorInv'
  BY <1>28, MarkersAssumption DEF Restart, shared, local
<1>29. CASE UNCHANGED vars
  BY <1>29 DEF vars
<1>30. QED
  BY <1>1, <1>2, <1>3, <1>4, <1>5, <1>6, <1>7, <1>8, <1>9, <1>10, <1>11, <1>12, <1>13, <1>14, <1>15, <1>16, <1>17, <1>18, <1>19, <1>20, <1>21, <1>22, <1>23, <1>24, <1>25, <1>26, <1>27, <1>28, <1>29 DEF Next, Start, Step, Lock, Environment

-----------------------------------------------------------------------------

(* The inductive invariant holds initially. *)
LEMMA IInvInit == Init => IInv
<1> SUFFICES ASSUME Init PROVE IInv
  OBVIOUS
<1>1. TypeOK
  BY EmptyManifestTyped, ZeroVersion DEF Init, TypeOK, Pcs, Edits, AllOperations, Contents
<1>2. LockInv
  BY MarkersAssumption DEF Init, LockInv
<1>3. PublishInv /\ OpInv /\ EditInv
  BY DEF Init, PublishInv, OpInv, EditInv
<1>4. OriginInv
  BY EmptyOrigin DEF Init, OriginInv
<1>5. FloorInv
  BY MarkersAssumption DEF Init, FloorInv, NoStaleAfterInvalidate
<1>6. QED
  BY <1>1, <1>2, <1>3, <1>4, <1>5 DEF IInv

(* Every step preserves it. *)
LEMMA IInvNext == IInv /\ [Next]_vars => IInv'
BY TypeNext, LockNext, PublishNext, OpNext, EditNext, OriginNext, FloorNext DEF IInv

(* The inductive invariant is an invariant: the manifest lock brackets     *)
(* every read-modify-write, every closure fits the operation that carries  *)
(* it, and no landed or fetched rows are older than the floor.             *)
THEOREM Invariance == Spec => []IInv
BY IInvInit, IInvNext, PTL DEF Spec

(* Type correctness of the cache: every variable stays in its range.       *)
THEOREM TypeCorrect == Spec => []TypeOK
<1>1. IInv => TypeOK
  BY DEF IInv
<1>2. QED
  BY <1>1, Invariance, PTL

(* After an invalidate that no fetched rows can undo, no process ever      *)
(* reads older rows from the table's file, for any number of processes     *)
(* with stale in-memory manifests.                                         *)
THEOREM InvalidateIsFinal == Spec => []NoStaleAfterInvalidate
<1>1. IInv => NoStaleAfterInvalidate
  BY DEF IInv, FloorInv
<1>2. QED
  BY <1>1, Invariance, PTL

(* An actor that publishes has the manifest that is on disk. *)
LEMMA MemoryStep ==
    ASSUME IInv, [Next]_vars
    PROVE  [\A p \in up' : mem'[p] # mem[p] => mem'[p] = disk']_vars
<1> SUFFICES ASSUME NEW p \in up', mem'[p] # mem[p], ~UNCHANGED vars
             PROVE  mem'[p] = disk'
  OBVIOUS
<1>1. mem \in [Procs -> Manifest] /\ up \subseteq Procs
  BY DEF IInv, TypeOK
<1>2. mem' # mem
  OBVIOUS
<1>3. \/ \E a \in Actors : Publish(a)
      \/ \E q \in Procs : Crash(q) \/ Restart(q)
  BY <1>2 DEF Next, Start, Step, Lock, Environment, shared, local, Begin, BeginScan,
     BeginRefresh, BeginMaterialize, BeginRefreshMaterialized, BeginInvalidate,
     BeginDropMaterialized, BeginVacuum, ReadHit, ReadBad, MoveAside, Fetch, FetchFails, Land,
     LandFails, LockManifest, LockManifestUnreadable, WriteManifest, WriteManifestFails,
     Unlink, Reap, SweepReferenced, SweepList, Tick, SourceAdvances, BitRot, vars
<1>4. CASE \E a \in Actors : Publish(a)
  BY <1>1, <1>4, ActorsAssumption DEF Publish, IInv, PublishInv
<1>5. CASE \E q \in Procs : Crash(q)
  BY <1>1, <1>5 DEF Crash
<1>6. CASE \E q \in Procs : Restart(q)
  BY <1>1, <1>6 DEF Restart
<1>7. QED
  BY <1>3, <1>4, <1>5, <1>6

(* A process's view of the manifest only moves forward: what it publishes  *)
(* is what is on disk at that moment.                                      *)
THEOREM MemoryMovesForward == Spec => MemoryNeverRewinds
<1>1. IInv /\ [Next]_vars => [\A p \in up' : mem'[p] # mem[p] => mem'[p] = disk']_vars
  BY MemoryStep
<1>2. QED
  BY <1>1, Invariance, PTL DEF Spec, MemoryNeverRewinds

-----------------------------------------------------------------------------
(* With a readable manifest, the lock holder's copy is what is on disk.    *)

LEMMA BufferInvariance ==
    ASSUME "unreadable" \notin Faults
    PROVE  Spec => []BufferInv
<1>1. Init => BufferInv
  BY DEF Init, BufferInv
<1>2. IInv /\ BufferInv /\ [Next]_vars => BufferInv'
  BY BufferNext DEF IInv
<1>3. QED
  BY <1>1, <1>2, Invariance, PTL DEF Spec

(* Only WriteManifest writes manifest.json. *)
LEMMA DiskWriters ==
    ASSUME [Next]_vars, disk' # disk
    PROVE  \E a \in Actors : WriteManifest(a)
BY DEF Next, Start, Step, Lock, Environment, shared, local, Begin, BeginScan,
     BeginRefresh, BeginMaterialize, BeginRefreshMaterialized, BeginInvalidate,
     BeginDropMaterialized, BeginVacuum, ReadHit, ReadBad, MoveAside, Fetch, FetchFails, Land,
     LandFails, LockManifest, LockManifestUnreadable, WriteManifestFails, Publish,
     Unlink, Reap, SweepReferenced, SweepList, Tick, SourceAdvances, BitRot, Crash, Restart, vars

(* Only Tick moves the clock. *)
LEMMA ClockMovers ==
    ASSUME [Next]_vars, clock' # clock
    PROVE  Tick
BY DEF Next, Start, Step, Lock, Environment, shared, local, Begin, BeginScan,
     BeginRefresh, BeginMaterialize, BeginRefreshMaterialized, BeginInvalidate,
     BeginDropMaterialized, BeginVacuum, ReadHit, ReadBad, MoveAside, Fetch, FetchFails, Land,
     LandFails, LockManifest, LockManifestUnreadable, WriteManifest, WriteManifestFails, Publish,
     Unlink, Reap, SweepReferenced, SweepList, SourceAdvances, BitRot, Crash, Restart, vars

(* What a write of the manifest amounts to, in terms of the manifest on    *)
(* disk alone.                                                             *)
LEMMA WriteEffect ==
    ASSUME IInv, BufferInv, NEW a \in Actors, WriteManifest(a)
    PROVE  \/ /\ edit[a] = "upsert" /\ tab[a] \in Tables
              /\ disk' = With(disk, tab[a], NewEntry(tab[a], rows[a], stamp[a]))
           \/ /\ edit[a] \in {"remove", "drop"} /\ tab[a] \in Tables
              /\ disk' = Without(disk, {tab[a]}) \/ disk' = disk
           \/ /\ edit[a] = "reclaim"
              /\ disk' = Without(disk, Expired(disk, stamp[a]))
<1>1. pc[a] = "modify" /\ disk' = Edited(a) /\ buf[a] = disk
  BY DEF WriteManifest, BufferInv
<1>2. edit[a] \in Edits /\ disk \in [Tables -> Entry \cup {NoEntry}]
  BY DEF IInv, TypeOK, Manifest
<1>3. edit[a] # "reclaim" => tab[a] \in Tables
  BY <1>1, <1>2 DEF IInv, OpInv, EditInv, WriterOps, Edits
<1>4. CASE edit[a] = "upsert"
  BY <1>1, <1>3, <1>4 DEF Edited
<1>5. CASE edit[a] \in {"remove", "drop"}
  <2>1. Removed(a) = {tab[a]} \/ Removed(a) = {}
    BY <1>5 DEF Removed
  <2>2. Without(disk, {}) = disk
    BY <1>2 DEF Without
  <2>3. QED
    BY <1>1, <1>3, <1>5, <2>1, <2>2 DEF Edited
<1>6. CASE edit[a] = "reclaim"
  BY <1>1, <1>6 DEF Edited, Removed
<1>7. QED
  BY <1>2, <1>4, <1>5, <1>6 DEF Edits

(* A step of the store is a step of the abstract manifest, or a stutter. *)
LEMMA StepRefines ==
    ASSUME IInv, BufferInv, [Next]_vars
    PROVE  [Abstract!Next]_<<disk, clock>>
<1> SUFFICES ASSUME ~UNCHANGED <<disk, clock>> PROVE Abstract!Next
  OBVIOUS
<1>1. CASE disk' # disk
  <2>1. PICK a \in Actors : WriteManifest(a)
    BY <1>1, DiskWriters
  <2>2. clock' = clock
    BY <2>1 DEF WriteManifest
  <2>3. rows[a] \in Versions /\ stamp[a] \in 0..clock
    BY DEF IInv, TypeOK, EditInv
  <2>4. CASE /\ tab[a] \in Tables
             /\ disk' = With(disk, tab[a], NewEntry(tab[a], rows[a], stamp[a]))
    <3>1. Abstract!Upsert(tab[a])
      BY <2>2, <2>3, <2>4 DEF Abstract!Upsert, With, NewEntry, Expiry, Versions,
         Abstract!With, Abstract!NewEntry, Abstract!Expiry, Abstract!Versions
    <3>2. QED
      BY <2>4, <3>1 DEF Abstract!Next
  <2>5. CASE tab[a] \in Tables /\ disk' = Without(disk, {tab[a]})
    <3>1. Abstract!Remove(tab[a])
      BY <2>2, <2>5 DEF Abstract!Remove, Without, Abstract!Without
    <3>2. QED
      BY <2>5, <3>1 DEF Abstract!Next
  <2>6. CASE disk' = Without(disk, Expired(disk, stamp[a]))
    <3>1. Abstract!Reclaim
      BY <2>2, <2>3, <2>6 DEF Abstract!Reclaim, Without, Expired, IsMaterialized, Unexpired,
         Abstract!Without, Abstract!Expired, Abstract!IsMaterialized, Abstract!Unexpired
    <3>2. QED
      BY <3>1 DEF Abstract!Next
  <2>7. QED
    BY <1>1, <2>1, <2>4, <2>5, <2>6, WriteEffect
<1>2. CASE clock' # clock
  <2>1. Tick
    BY <1>2, ClockMovers
  <2>2. QED
    BY <2>1 DEF Tick, Abstract!Tick, Abstract!Next
<1>3. QED
  BY <1>1, <1>2

(* Concurrent writers merge: as long as manifest.json can be read, the     *)
(* store implements the abstract manifest, whatever the number of          *)
(* processes, threads and tables, and wherever processes crash.            *)
THEOREM WritersMerge ==
    ASSUME "unreadable" \notin Faults
    PROVE  Spec => ImplementsManifest
<1>1. Init => Abstract!Init
  BY DEF Init, Abstract!Init, EmptyManifest, Abstract!EmptyManifest
<1>2. IInv /\ BufferInv /\ [Next]_vars => [Abstract!Next]_<<disk, clock>>
  BY StepRefines
<1>3. QED
  BY <1>1, <1>2, Invariance, BufferInvariance, PTL DEF Spec, ImplementsManifest, Abstract!Spec

(* A step that takes a materialized entry away names its table. *)
LEMMA PinnedStep ==
    ASSUME IInv, BufferInv, [Next]_vars,
           NEW t \in Pinned, disk[t] # NoEntry, disk'[t] = NoEntry
    PROVE  \E a \in Actors : /\ tab[a] = t
                             /\ op[a] \in {"invalidate", "drop_materialized"}
                             /\ pc[a] = "modify"
<1>1. t \in Tables /\ t \notin Copies /\ disk \in [Tables -> Entry \cup {NoEntry}]
  BY TablesAssumption DEF Copies, IInv, TypeOK, Manifest
<1>2. PICK a \in Actors : WriteManifest(a)
  BY DiskWriters
<1>3. pc[a] = "modify" /\ rows[a] \in Versions /\ stamp[a] \in Nat
  BY <1>2 DEF WriteManifest, IInv, TypeOK
<1>4. NewEntry(tab[a], rows[a], stamp[a]) # NoEntry
  BY <1>3, NewEntryTyped, NoEntryAssumption
<1>5. disk' # With(disk, tab[a], NewEntry(tab[a], rows[a], stamp[a]))
  BY <1>1, <1>4 DEF With
<1>6. disk' # Without(disk, Expired(disk, stamp[a]))
  BY <1>1 DEF Without, Expired, IInv, OriginInv, OriginOf
<1>7. edit[a] \in {"remove", "drop"} /\ disk' = Without(disk, {tab[a]})
  BY <1>2, <1>5, <1>6, WriteEffect
<1>8. tab[a] = t
  BY <1>1, <1>7 DEF Without
<1>9. op[a] \in {"scan", "invalidate", "drop_materialized"} /\ op[a] # "scan"
  BY <1>1, <1>3, <1>7, <1>8 DEF IInv, EditInv, OpInv
<1>10. QED
  BY <1>3, <1>8, <1>9

(* A materialized table leaves the manifest only through a drop or an      *)
(* invalidate that names it, as long as manifest.json can be read.         *)
THEOREM PinnedIsExplicit ==
    ASSUME "unreadable" \notin Faults
    PROVE  Spec => PinnedLeavesOnlyByName
<1>1. IInv /\ BufferInv /\ [Next]_vars
      => [\A t \in Pinned : disk[t] # NoEntry /\ disk'[t] = NoEntry
            => \E a \in Actors : /\ tab[a] = t
                                 /\ op[a] \in {"invalidate", "drop_materialized"}
                                 /\ pc[a] = "modify"]_vars
  BY PinnedStep
<1>2. QED
  BY <1>1, Invariance, BufferInvariance, PTL DEF Spec, PinnedLeavesOnlyByName

=============================================================================
