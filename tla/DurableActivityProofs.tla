------------------------ MODULE DurableActivityProofs ------------------------
(***************************************************************************)
(* Proofs about DurableActivity, for every set of records, processes and   *)
(* tasks, every threshold and retention, and with I/O errors and crashes.  *)
(*                                                                         *)
(* The argument: the manifest lock brackets every read-modify-write of the *)
(* manifest (LockInv), a task holds records exactly while it flushes       *)
(* (PcInv), so the places a record can be in stay disjoint (Apart) and     *)
(* every record that was born is in one of them (Born).  From this follow  *)
(* what a scan may read without a lock (ScanInv), what a shutdown leaves   *)
(* behind (DueInv) and what a prune may delete (CutoffInv).                *)
(***************************************************************************)
EXTENDS DurableActivity, FiniteSetTheorems, TLAPS

Flushing == {"write", "lock", "push"}

(* The tasks of a role only visit that role's steps; a process that is not *)
(* running has no step under way, and one that is not shutting down has no *)
(* shutdown under way.                                                     *)
PcInv ==
    \A a \in Actors :
        /\ pc[a] \in {"open", "answer"} => Role(a) = "scan"
        /\ Role(a) = "scan" => pc[a] \in {"idle", "open", "answer"}
        /\ pc[a] \in {"prune", "retain", "drop"} => Role(a) = "timer"
        /\ pc[a] = "exit" => Role(a) = "drop"
        /\ Proc(a) \notin up => pc[a] = "idle"
        /\ Role(a) = "drop" /\ Proc(a) \notin closing => pc[a] = "idle"
        /\ held[a] # {} <=> pc[a] \in Flushing

(* Whoever is between reading and writing the manifest holds the lock, and *)
(* what it read is still what is there.                                    *)
LockInv ==
    \A a \in Actors :
        /\ pc[a] \in {"push", "drop"} <=> lock = a
        /\ lock = a => buf[a] = manifest

(* No record is in two places. *)
Apart ==
    \A r \in Records :
        /\ \A p, q \in Procs : r \in pending[p] /\ r \in pending[q] => p = q
        /\ \A a, b \in Actors : r \in held[a] /\ r \in held[b] => a = b
        /\ \A f, g \in manifest : r \in f /\ r \in g => f = g
        /\ \A p \in Procs : r \in pending[p] =>
              /\ \A a \in Actors : r \notin held[a]
              /\ \A f \in manifest : r \notin f
              /\ r \notin lost
        /\ \A a \in Actors : r \in held[a] =>
              /\ \A f \in manifest : r \notin f
              /\ r \notin lost
        /\ \A f \in manifest : r \in f => r \notin lost

(* The record is in one of the places. *)
Somewhere(r) ==
    \/ \E p \in Procs : r \in pending[p]
    \/ \E a \in Actors : r \in held[a]
    \/ \E f \in manifest : r \in f
    \/ r \in lost

Born == \A r \in Records : at[r] # Unborn <=> Somewhere(r)

(* The record has left the buffers and the flushes for good. *)
Settled(r) ==
    /\ at[r] # Unborn
    /\ \A p \in Procs : r \notin pending[p]
    /\ \A a \in Actors : r \notin held[a]

(* What a scan still has to open, and what it has returned, is settled,    *)
(* and it opens nothing that it has returned.                              *)
ScanInv ==
    \A a \in Actors :
        /\ \A r \in Records : got[a][r] <= 1
        /\ pc[a] \notin {"open", "answer"} => \A r \in Records : got[a][r] = 0
        /\ pc[a] = "open" =>
              /\ \A f \in buf[a] : \A r \in f : Settled(r) /\ got[a][r] = 0
              /\ \A f, g \in buf[a], r \in Records : r \in f /\ r \in g => f = g
              /\ \A r \in Records : got[a][r] # 0 => Settled(r)

(* What was in the buffer when a shutdown began is still there only until  *)
(* its own flush takes it, then in the hands of a flush of its process,    *)
(* then listed, or given up.                                               *)
DueInv ==
    /\ \A p \in closing : <<p, "drop">> \in Actors
    /\ \A a \in Actors : Role(a) = "drop" /\ Proc(a) \in closing =>
          \A r \in due[a] :
              \/ pc[a] = "take" /\ r \in pending[Proc(a)]
              \/ \E b \in Actors : Proc(b) = Proc(a) /\ r \in held[b]
              \/ \E f \in manifest : r \in f
              \/ r \in lost

(* A prune under way deletes nothing that retention still protects. *)
CutoffInv ==
    \A a \in Actors : pc[a] \in {"retain", "drop"} => cutoff[a] <= clock - Retention

IInv ==
    /\ TypeOK
    /\ PcInv
    /\ LockInv
    /\ Apart
    /\ Born
    /\ ScanInv
    /\ DueInv
    /\ CutoffInv

-----------------------------------------------------------------------------
(* A task is its process and its role. *)
LEMMA TaskOf ==
    /\ \A a \in Actors : Proc(a) \in Procs /\ Role(a) \in Roles /\ a = <<Proc(a), Role(a)>>
    /\ \A p, x : Proc(<<p, x>>) = p /\ Role(<<p, x>>) = x
<1>1. \A p, x : Proc(<<p, x>>) = p /\ Role(<<p, x>>) = x BY DEF Proc, Role
<1>2. Actors \subseteq Procs \X Roles BY StoreAssumption DEF Actors, Roles
<1>3. ASSUME NEW a \in Actors PROVE Proc(a) \in Procs /\ Role(a) \in Roles /\ a = <<Proc(a), Role(a)>>
  <2>1. PICK p \in Procs, x \in Roles : a = <<p, x>> BY <1>2
  <2> QED BY <1>1, <2>1
<1> QED BY <1>1, <1>3

(* Where a task goes after its flush. *)
LEMMA AfterFlushIs ==
    ASSUME NEW a
    PROVE  /\ AfterFlush(a) \in {"prune", "exit", "idle"}
           /\ AfterFlush(a) = "prune" => Role(a) = "timer"
           /\ AfterFlush(a) = "exit" => Role(a) = "drop"
BY DEF AfterFlush

(* The rows a scan adds to its answer are counted per record. *)
LEMMA AddIs ==
    ASSUME TypeOK, NEW a \in Actors, NEW S, Add(a, S)
    PROVE  /\ got' \in [Actors -> [Records -> Nat]]
           /\ \A b \in Actors : b # a => got'[b] = got[b]
           /\ \A r \in Records : got'[a][r] = got[a][r] + (IF r \in S THEN 1 ELSE 0)
BY DEF TypeOK, Add

(* A flush never writes an empty file. *)
LEMMA HeldIsFile ==
    ASSUME TypeOK, PcInv, NEW a \in Actors, pc[a] \in Flushing
    PROVE  held[a] \in Files
<1>1. held[a] # {}
  BY DEF PcInv
<1>2. held[a] \subseteq Records
  BY DEF TypeOK
<1>3. QED
  BY <1>1, <1>2 DEF Files

-----------------------------------------------------------------------------
(* Preservation, one lemma per part of the invariant. *)

(* Every step keeps the variables in their ranges. *)
LEMMA TypeNext ==
    ASSUME TypeOK, PcInv, [Next]_vars
    PROVE  TypeOK'
<1> USE StoreAssumption DEF TypeOK, Pcs
<1>1. ASSUME NEW a \in Actors, Take(a) PROVE TypeOK'
  BY <1>1, TaskOf, AfterFlushIs DEF Take, Goto
<1>2. ASSUME NEW a \in Actors, Write(a) PROVE TypeOK'
  <2>1. held[a] \in Files
    BY <1>2, HeldIsFile DEF Write, Flushing
  <2>2. QED
    BY <1>2, <2>1 DEF Write, Goto
<1>3. ASSUME NEW a \in Actors, Push(a) PROVE TypeOK'
  <2>1. held[a] \in Files
    BY <1>3, HeldIsFile DEF Push, Flushing
  <2>2. QED
    BY <1>3, <2>1, AfterFlushIs DEF Push, Goto
<1>4. ASSUME NEW a \in Actors, FlushFails(a) PROVE TypeOK'
  BY <1>4, AfterFlushIs DEF FlushFails, Goto
<1>5. ASSUME NEW a \in Actors, Cutoff(a) PROVE TypeOK'
  BY <1>5 DEF Cutoff, Goto
<1>6. ASSUME NEW a \in Actors, RemoveFile(a) PROVE TypeOK'
  BY <1>6 DEF RemoveFile
<1>7. ASSUME NEW a \in Actors, DropEntries(a) PROVE TypeOK'
  <2>1. Stale(a) \subseteq buf[a] /\ UNION Stale(a) \subseteq Records
    BY DEF Stale, Files
  <2>2. QED
    BY <1>7, <2>1 DEF DropEntries, Goto
<1>8. ASSUME NEW a \in Actors, PruneFails(a) PROVE TypeOK'
  BY <1>8 DEF PruneFails, Goto
<1>9. ASSUME NEW a \in Actors, OpenFile(a) PROVE TypeOK'
  <2>1. PICK f \in buf[a] : /\ IF f \in disk THEN Add(a, f) ELSE UNCHANGED got
                            /\ buf' = [buf EXCEPT ![a] = @ \ {f}]
    BY <1>9 DEF OpenFile
  <2>2. got' \in [Actors -> [Records -> Nat]]
    BY <2>1, AddIs
  <2>3. buf' \in [Actors -> SUBSET Files]
    <3>1. buf[a] \ {f} \in SUBSET Files
      OBVIOUS
    <3>2. QED
      BY <2>1, <3>1
  <2>4. QED
    BY <1>9, <2>2, <2>3 DEF OpenFile
<1>10. ASSUME NEW a \in Actors, ReadPending(a) PROVE TypeOK'
  BY <1>10, AddIs DEF ReadPending, Goto
<1>11. ASSUME NEW a \in Actors, Answer(a) PROVE TypeOK'
  BY <1>11 DEF Answer, Goto, NoRows
<1>12. ASSUME NEW a \in Actors, Lock(a) PROVE TypeOK'
  BY <1>12 DEF Lock, LockFree, Goto
<1>13. ASSUME NEW p \in Procs, NEW r \in Records, Record(p, r) PROVE TypeOK'
  BY <1>13 DEF Record, Goto
<1>14. ASSUME NEW p \in Procs, Tick(p) PROVE TypeOK'
  BY <1>14 DEF Tick, Goto
<1>15. ASSUME NEW p \in Procs, Shutdown(p) PROVE TypeOK'
  BY <1>15 DEF Shutdown, Goto
<1>16. ASSUME NEW p \in Procs, ReadManifest(p) PROVE TypeOK'
  BY <1>16 DEF ReadManifest, Goto
<1>17. ASSUME NEW p \in Procs, Crash(p) PROVE TypeOK'
  BY <1>17 DEF Crash, End, NoRows
<1>18. ASSUME NEW p \in Procs, Exit(p) PROVE TypeOK'
  BY <1>18 DEF Exit, Exiting, End, NoRows
<1>19. ASSUME NEW p \in Procs, Open(p) PROVE TypeOK'
  BY <1>19 DEF Open, Goto
<1>20. ASSUME Advance PROVE TypeOK'
  BY <1>20 DEF Advance
<1>21. ASSUME UNCHANGED vars PROVE TypeOK'
  BY <1>21 DEF vars
<1>22. QED
  BY <1>1, <1>2, <1>3, <1>4, <1>5, <1>6, <1>7, <1>8, <1>9, <1>10, <1>11,
     <1>12, <1>13, <1>14, <1>15, <1>16, <1>17, <1>18, <1>19, <1>20, <1>21
  DEF Next, Step

(* Every step keeps a task within its role. *)
LEMMA PcNext ==
    ASSUME TypeOK, PcInv, [Next]_vars
    PROVE  PcInv'
<1> USE TaskOf DEF TypeOK, PcInv, Flushing
<1>1. ASSUME NEW a \in Actors, Take(a) PROVE PcInv'
  BY <1>1, AfterFlushIs DEF Take, Goto
<1>2. ASSUME NEW a \in Actors, Write(a) PROVE PcInv'
  BY <1>2 DEF Write, Goto
<1>3. ASSUME NEW a \in Actors, Push(a) PROVE PcInv'
  BY <1>3, AfterFlushIs DEF Push, Goto
<1>4. ASSUME NEW a \in Actors, FlushFails(a) PROVE PcInv'
  BY <1>4, AfterFlushIs DEF FlushFails, Goto
<1>5. ASSUME NEW a \in Actors, Cutoff(a) PROVE PcInv'
  BY <1>5 DEF Cutoff, Goto
<1>6. ASSUME NEW a \in Actors, RemoveFile(a) PROVE PcInv'
  BY <1>6 DEF RemoveFile
<1>7. ASSUME NEW a \in Actors, DropEntries(a) PROVE PcInv'
  BY <1>7 DEF DropEntries, Goto, Stale
<1>8. ASSUME NEW a \in Actors, PruneFails(a) PROVE PcInv'
  BY <1>8 DEF PruneFails, Goto
<1>9. ASSUME NEW a \in Actors, OpenFile(a) PROVE PcInv'
  BY <1>9 DEF OpenFile, Add
<1>10. ASSUME NEW a \in Actors, ReadPending(a) PROVE PcInv'
  BY <1>10 DEF ReadPending, Add, Goto
<1>11. ASSUME NEW a \in Actors, Answer(a) PROVE PcInv'
  BY <1>11 DEF Answer, Goto, NoRows
<1>12. ASSUME NEW a \in Actors, Lock(a) PROVE PcInv'
  BY <1>12 DEF Lock, LockFree, Goto
<1>13. ASSUME NEW p \in Procs, NEW r \in Records, Record(p, r) PROVE PcInv'
  <2> DEFINE d == <<p, "drain">>
  <2>1. d \in Actors /\ pc[d] = "idle" /\ \E l \in {"take", "idle"} : pc' = [pc EXCEPT ![d] = l]
    BY <1>13 DEF Record, Goto
  <2>2. UNCHANGED <<up, closing, held>>
    BY <1>13 DEF Record
  <2>3. Role(d) = "drain" /\ Proc(d) = p /\ p \in up
    BY <1>13 DEF Record
  <2> HIDE DEF d
  <2>4. QED
    BY <2>1, <2>2, <2>3
<1>14. ASSUME NEW p \in Procs, Tick(p) PROVE PcInv'
  BY <1>14, ZenonT(40) DEF Tick, Goto
<1>15. ASSUME NEW p \in Procs, Shutdown(p) PROVE PcInv'
  BY <1>15 DEF Shutdown, Goto
<1>16. ASSUME NEW p \in Procs, ReadManifest(p) PROVE PcInv'
  BY <1>16 DEF ReadManifest, Goto
<1>17. ASSUME NEW p \in Procs, Crash(p) PROVE PcInv'
  BY <1>17 DEF Crash, End, NoRows
<1>18. ASSUME NEW p \in Procs, Exit(p) PROVE PcInv'
  BY <1>18 DEF Exit, Exiting, End, NoRows
<1>19. ASSUME NEW p \in Procs, Open(p) PROVE PcInv'
  <2> DEFINE d == <<p, "timer">>
  <2>1. pc' = [pc EXCEPT ![d] = "prune"] \/ pc' = pc
    BY <1>19 DEF Open, Goto
  <2>2. UNCHANGED <<closing, held>> /\ p \notin up /\ up' = up \cup {p}
    BY <1>19 DEF Open
  <2>3. Role(d) = "timer" /\ Proc(d) = p
    OBVIOUS
  <2> HIDE DEF d
  <2>4. QED
    BY <2>1, <2>2, <2>3
<1>20. ASSUME Advance PROVE PcInv'
  BY <1>20 DEF Advance
<1>21. ASSUME UNCHANGED vars PROVE PcInv'
  BY <1>21 DEF vars
<1>22. QED
  BY <1>1, <1>2, <1>3, <1>4, <1>5, <1>6, <1>7, <1>8, <1>9, <1>10, <1>11,
     <1>12, <1>13, <1>14, <1>15, <1>16, <1>17, <1>18, <1>19, <1>20, <1>21
  DEF Next, Step

(* Every step keeps the manifest as its holder read it. *)
LEMMA LockNext ==
    ASSUME TypeOK, PcInv, LockInv, [Next]_vars
    PROVE  LockInv'
<1> USE StoreAssumption, TaskOf DEF TypeOK, PcInv, LockInv, Flushing
<1>1. ASSUME NEW a \in Actors, Take(a) PROVE LockInv'
  BY <1>1, AfterFlushIs DEF Take, Goto
<1>2. ASSUME NEW a \in Actors, Write(a) PROVE LockInv'
  BY <1>2 DEF Write, Goto
<1>3. ASSUME NEW a \in Actors, Push(a) PROVE LockInv'
  BY <1>3, AfterFlushIs, SMTT(30) DEF Push, Goto
<1>4. ASSUME NEW a \in Actors, FlushFails(a) PROVE LockInv'
  BY <1>4, AfterFlushIs, SMTT(30) DEF FlushFails, Goto
<1>5. ASSUME NEW a \in Actors, Cutoff(a) PROVE LockInv'
  BY <1>5 DEF Cutoff, Goto
<1>6. ASSUME NEW a \in Actors, RemoveFile(a) PROVE LockInv'
  BY <1>6 DEF RemoveFile
<1>7. ASSUME NEW a \in Actors, DropEntries(a) PROVE LockInv'
  BY <1>7 DEF DropEntries, Goto, Stale
<1>8. ASSUME NEW a \in Actors, PruneFails(a) PROVE LockInv'
  BY <1>8 DEF PruneFails, Goto
<1>9. ASSUME NEW a \in Actors, OpenFile(a) PROVE LockInv'
  BY <1>9 DEF OpenFile, Add
<1>10. ASSUME NEW a \in Actors, ReadPending(a) PROVE LockInv'
  BY <1>10 DEF ReadPending, Add, Goto
<1>11. ASSUME NEW a \in Actors, Answer(a) PROVE LockInv'
  BY <1>11 DEF Answer, Goto, NoRows
<1>12. ASSUME NEW a \in Actors, Lock(a) PROVE LockInv'
  BY <1>12 DEF Lock, LockFree, Goto
<1>13. ASSUME NEW p \in Procs, NEW r \in Records, Record(p, r) PROVE LockInv'
  BY <1>13, ZenonT(40) DEF Record, Goto
<1>14. ASSUME NEW p \in Procs, Tick(p) PROVE LockInv'
  BY <1>14 DEF Tick, Goto
<1>15. ASSUME NEW p \in Procs, Shutdown(p) PROVE LockInv'
  BY <1>15 DEF Shutdown, Goto
<1>16. ASSUME NEW p \in Procs, ReadManifest(p) PROVE LockInv'
  BY <1>16, SMTT(90) DEF ReadManifest, Goto
<1>17. ASSUME NEW p \in Procs, Crash(p) PROVE LockInv'
  BY <1>17 DEF Crash, End, NoRows
<1>18. ASSUME NEW p \in Procs, Exit(p) PROVE LockInv'
  BY <1>18 DEF Exit, Exiting, End, NoRows
<1>19. ASSUME NEW p \in Procs, Open(p) PROVE LockInv'
  <2> DEFINE d == <<p, "timer">>
  <2>1. pc' = [pc EXCEPT ![d] = "prune"] \/ pc' = pc
    BY <1>19 DEF Open, Goto
  <2>2. UNCHANGED <<lock, buf, manifest>> /\ p \notin up
    BY <1>19 DEF Open
  <2>3. Role(d) = "timer" /\ Proc(d) = p
    OBVIOUS
  <2> HIDE DEF d
  <2>4. QED
    BY <2>1, <2>2, <2>3
<1>20. ASSUME Advance PROVE LockInv'
  BY <1>20 DEF Advance
<1>21. ASSUME UNCHANGED vars PROVE LockInv'
  BY <1>21 DEF vars
<1>22. QED
  BY <1>1, <1>2, <1>3, <1>4, <1>5, <1>6, <1>7, <1>8, <1>9, <1>10, <1>11,
     <1>12, <1>13, <1>14, <1>15, <1>16, <1>17, <1>18, <1>19, <1>20, <1>21
  DEF Next, Step

(* Every step keeps the places of a record disjoint. *)
LEMMA ApartNext ==
    ASSUME TypeOK, PcInv, LockInv, Apart, Born, [Next]_vars
    PROVE  Apart'
<1> USE TaskOf DEF TypeOK, PcInv, LockInv, Apart, Born, Somewhere, Flushing
<1>1. ASSUME NEW a \in Actors, Take(a) PROVE Apart'
  BY <1>1, AfterFlushIs DEF Take, Goto
<1>2. ASSUME NEW a \in Actors, Write(a) PROVE Apart'
  BY <1>2 DEF Write, Goto
<1>3. ASSUME NEW a \in Actors, Push(a) PROVE Apart'
  BY <1>3, AfterFlushIs DEF Push, Goto
<1>4. ASSUME NEW a \in Actors, FlushFails(a) PROVE Apart'
  BY <1>4, AfterFlushIs DEF FlushFails, Goto
<1>5. ASSUME NEW a \in Actors, Cutoff(a) PROVE Apart'
  BY <1>5 DEF Cutoff, Goto
<1>6. ASSUME NEW a \in Actors, RemoveFile(a) PROVE Apart'
  BY <1>6 DEF RemoveFile
<1>7. ASSUME NEW a \in Actors, DropEntries(a) PROVE Apart'
  BY <1>7 DEF DropEntries, Goto, Stale
<1>8. ASSUME NEW a \in Actors, PruneFails(a) PROVE Apart'
  BY <1>8 DEF PruneFails, Goto
<1>9. ASSUME NEW a \in Actors, OpenFile(a) PROVE Apart'
  BY <1>9 DEF OpenFile, Add
<1>10. ASSUME NEW a \in Actors, ReadPending(a) PROVE Apart'
  BY <1>10 DEF ReadPending, Add, Goto
<1>11. ASSUME NEW a \in Actors, Answer(a) PROVE Apart'
  BY <1>11 DEF Answer, Goto, NoRows
<1>12. ASSUME NEW a \in Actors, Lock(a) PROVE Apart'
  BY <1>12 DEF Lock, LockFree, Goto
<1>13. ASSUME NEW p \in Procs, NEW r \in Records, Record(p, r) PROVE Apart'
  BY <1>13 DEF Record, Goto
<1>14. ASSUME NEW p \in Procs, Tick(p) PROVE Apart'
  BY <1>14 DEF Tick, Goto
<1>15. ASSUME NEW p \in Procs, Shutdown(p) PROVE Apart'
  BY <1>15 DEF Shutdown, Goto
<1>16. ASSUME NEW p \in Procs, ReadManifest(p) PROVE Apart'
  BY <1>16 DEF ReadManifest, Goto
<1>17. ASSUME NEW p \in Procs, Crash(p) PROVE Apart'
  BY <1>17 DEF Crash, End, NoRows
<1>18. ASSUME NEW p \in Procs, Exit(p) PROVE Apart'
  BY <1>18 DEF Exit, Exiting, End, NoRows
<1>19. ASSUME NEW p \in Procs, Open(p) PROVE Apart'
  BY <1>19 DEF Open, Goto
<1>20. ASSUME Advance PROVE Apart'
  BY <1>20 DEF Advance
<1>21. ASSUME UNCHANGED vars PROVE Apart'
  BY <1>21 DEF vars
<1>22. QED
  BY <1>1, <1>2, <1>3, <1>4, <1>5, <1>6, <1>7, <1>8, <1>9, <1>10, <1>11,
     <1>12, <1>13, <1>14, <1>15, <1>16, <1>17, <1>18, <1>19, <1>20, <1>21
  DEF Next, Step

(* No step loses a record, and only Record makes one. *)
LEMMA BornNext ==
    ASSUME TypeOK, PcInv, LockInv, Born, [Next]_vars
    PROVE  Born'
<1> USE StoreAssumption, TaskOf DEF TypeOK, PcInv, LockInv, Born, Somewhere, Flushing
<1>1. ASSUME NEW a \in Actors, Take(a) PROVE Born'
  <2>1. at' = at
    BY <1>1 DEF Take
  <2>2. ASSUME NEW s \in Records, Somewhere(s) PROVE Somewhere(s)'
    <3>1. CASE \E p \in Procs : s \in pending[p]
      BY <1>1, <3>1 DEF Take
    <3>2. CASE \E b \in Actors : s \in held[b]
      BY SMTT(60), <1>1, <3>2 DEF Take
    <3>3. QED
      BY <1>1, <2>2, <3>1, <3>2 DEF Take
  <2>3. ASSUME NEW s \in Records, Somewhere(s)' PROVE Somewhere(s)
    BY <1>1, <2>3 DEF Take
  <2>4. QED
    BY <2>1, <2>2, <2>3
<1>2. ASSUME NEW a \in Actors, Write(a) PROVE Born'
  BY <1>2 DEF Write, Goto
<1>3. ASSUME NEW a \in Actors, Push(a) PROVE Born'
  <2>1. at' = at
    BY <1>3 DEF Push
  <2>2. ASSUME NEW s \in Records PROVE Somewhere(s)' <=> Somewhere(s)
    BY <1>3, AfterFlushIs DEF Push, Goto
  <2>3. QED
    BY <2>1, <2>2
<1>4. ASSUME NEW a \in Actors, FlushFails(a) PROVE Born'
  <2>1. at' = at
    BY <1>4 DEF FlushFails
  <2>2. ASSUME NEW s \in Records PROVE Somewhere(s)' <=> Somewhere(s)
    BY <1>4, AfterFlushIs DEF FlushFails, Goto
  <2>3. QED
    BY <2>1, <2>2
<1>5. ASSUME NEW a \in Actors, Cutoff(a) PROVE Born'
  BY <1>5 DEF Cutoff, Goto
<1>6. ASSUME NEW a \in Actors, RemoveFile(a) PROVE Born'
  BY <1>6 DEF RemoveFile
<1>7. ASSUME NEW a \in Actors, DropEntries(a) PROVE Born'
  <2>1. at' = at
    BY <1>7 DEF DropEntries
  <2>2. ASSUME NEW s \in Records PROVE Somewhere(s)' <=> Somewhere(s)
    BY <1>7, AfterFlushIs DEF DropEntries, Goto, Stale
  <2>3. QED
    BY <2>1, <2>2
<1>8. ASSUME NEW a \in Actors, PruneFails(a) PROVE Born'
  BY <1>8 DEF PruneFails, Goto
<1>9. ASSUME NEW a \in Actors, OpenFile(a) PROVE Born'
  BY <1>9 DEF OpenFile, Add
<1>10. ASSUME NEW a \in Actors, ReadPending(a) PROVE Born'
  BY <1>10 DEF ReadPending, Add, Goto
<1>11. ASSUME NEW a \in Actors, Answer(a) PROVE Born'
  BY <1>11 DEF Answer, Goto, NoRows
<1>12. ASSUME NEW a \in Actors, Lock(a) PROVE Born'
  BY <1>12 DEF Lock, LockFree, Goto
<1>13. ASSUME NEW p \in Procs, NEW r \in Records, Record(p, r) PROVE Born'
  <2>1. PICK t \in {clock, clock - 1} : t >= 0 /\ at' = [at EXCEPT ![r] = t]
    BY <1>13 DEF Record
  <2>2. ASSUME NEW s \in Records PROVE Somewhere(s)' <=> Somewhere(s) \/ s = r
    BY <1>13 DEF Record, Goto
  <2>3. t # Unborn
    OBVIOUS
  <2>4. ASSUME NEW s \in Records PROVE at'[s] # Unborn <=> at[s] # Unborn \/ s = r
    BY <2>1, <2>3
  <2>5. QED
    BY <2>2, <2>4
<1>14. ASSUME NEW p \in Procs, Tick(p) PROVE Born'
  BY <1>14 DEF Tick, Goto
<1>15. ASSUME NEW p \in Procs, Shutdown(p) PROVE Born'
  BY <1>15 DEF Shutdown, Goto
<1>16. ASSUME NEW p \in Procs, ReadManifest(p) PROVE Born'
  BY <1>16 DEF ReadManifest, Goto
<1>17. ASSUME NEW p \in Procs, Crash(p) PROVE Born'
  <2>1. at' = at
    BY <1>17 DEF Crash, End
  <2>2. ASSUME NEW s \in Records PROVE Somewhere(s)' <=> Somewhere(s)
    BY <1>17, AfterFlushIs DEF Crash, End, NoRows
  <2>3. QED
    BY <2>1, <2>2
<1>18. ASSUME NEW p \in Procs, Exit(p) PROVE Born'
  <2>1. at' = at
    BY <1>18 DEF Exit, End
  <2>2. ASSUME NEW s \in Records PROVE Somewhere(s)' <=> Somewhere(s)
    BY <1>18, AfterFlushIs DEF Exit, Exiting, End, NoRows
  <2>3. QED
    BY <2>1, <2>2
<1>19. ASSUME NEW p \in Procs, Open(p) PROVE Born'
  BY <1>19 DEF Open, Goto
<1>20. ASSUME Advance PROVE Born'
  BY <1>20 DEF Advance
<1>21. ASSUME UNCHANGED vars PROVE Born'
  BY <1>21 DEF vars
<1>22. QED
  BY <1>1, <1>2, <1>3, <1>4, <1>5, <1>6, <1>7, <1>8, <1>9, <1>10, <1>11,
     <1>12, <1>13, <1>14, <1>15, <1>16, <1>17, <1>18, <1>19, <1>20, <1>21
  DEF Next, Step

(* A record that has left the buffers and the flushes stays out of them. *)
LEMMA SettledStable ==
    ASSUME TypeOK, NEW s \in Records, Settled(s), [Next]_vars
    PROVE  Settled(s)'
<1> USE TaskOf DEF TypeOK, Settled
<1>1. ASSUME NEW a \in Actors, Take(a) PROVE Settled(s)'
  BY <1>1 DEF Take, Goto
<1>2. ASSUME NEW a \in Actors, Write(a) PROVE Settled(s)'
  BY <1>2 DEF Write, Goto
<1>3. ASSUME NEW a \in Actors, Push(a) PROVE Settled(s)'
  BY <1>3 DEF Push, Goto
<1>4. ASSUME NEW a \in Actors, FlushFails(a) PROVE Settled(s)'
  BY <1>4 DEF FlushFails, Goto
<1>5. ASSUME NEW a \in Actors, Cutoff(a) PROVE Settled(s)'
  BY <1>5 DEF Cutoff, Goto
<1>6. ASSUME NEW a \in Actors, RemoveFile(a) PROVE Settled(s)'
  BY <1>6 DEF RemoveFile
<1>7. ASSUME NEW a \in Actors, DropEntries(a) PROVE Settled(s)'
  BY <1>7 DEF DropEntries, Goto, Stale
<1>8. ASSUME NEW a \in Actors, PruneFails(a) PROVE Settled(s)'
  BY <1>8 DEF PruneFails, Goto
<1>9. ASSUME NEW a \in Actors, OpenFile(a) PROVE Settled(s)'
  BY <1>9 DEF OpenFile, Add
<1>10. ASSUME NEW a \in Actors, ReadPending(a) PROVE Settled(s)'
  BY <1>10 DEF ReadPending, Add, Goto
<1>11. ASSUME NEW a \in Actors, Answer(a) PROVE Settled(s)'
  BY <1>11 DEF Answer, Goto, NoRows
<1>12. ASSUME NEW a \in Actors, Lock(a) PROVE Settled(s)'
  BY <1>12 DEF Lock, LockFree, Goto
<1>13. ASSUME NEW p \in Procs, NEW r \in Records, Record(p, r) PROVE Settled(s)'
  BY <1>13 DEF Record, Goto
<1>14. ASSUME NEW p \in Procs, Tick(p) PROVE Settled(s)'
  BY <1>14 DEF Tick, Goto
<1>15. ASSUME NEW p \in Procs, Shutdown(p) PROVE Settled(s)'
  BY <1>15 DEF Shutdown, Goto
<1>16. ASSUME NEW p \in Procs, ReadManifest(p) PROVE Settled(s)'
  BY <1>16 DEF ReadManifest, Goto
<1>17. ASSUME NEW p \in Procs, Crash(p) PROVE Settled(s)'
  BY <1>17 DEF Crash, End, NoRows
<1>18. ASSUME NEW p \in Procs, Exit(p) PROVE Settled(s)'
  BY <1>18 DEF Exit, Exiting, End, NoRows
<1>19. ASSUME NEW p \in Procs, Open(p) PROVE Settled(s)'
  BY <1>19 DEF Open, Goto
<1>20. ASSUME Advance PROVE Settled(s)'
  BY <1>20 DEF Advance
<1>21. ASSUME UNCHANGED vars PROVE Settled(s)'
  BY <1>21 DEF vars
<1>22. QED
  BY <1>1, <1>2, <1>3, <1>4, <1>5, <1>6, <1>7, <1>8, <1>9, <1>10, <1>11,
     <1>12, <1>13, <1>14, <1>15, <1>16, <1>17, <1>18, <1>19, <1>20, <1>21
  DEF Next, Step

(* A step that leaves the scans' files and rows alone, and moves another   *)
(* task, keeps what is known of the scans.                                 *)
LEMMA ScanUntouched ==
    ASSUME TypeOK, ScanInv, [Next]_vars, UNCHANGED <<got, buf>>,
           NEW d, NEW l, pc' = [pc EXCEPT ![d] = l],
           pc[d] \notin {"open", "answer"}, l \notin {"open", "answer"}
    PROVE  ScanInv'
<1>1. \A s \in Records : Settled(s) => Settled(s)'
  BY SettledStable
<1>2. ASSUME NEW a \in Actors
      PROVE  pc'[a] = pc[a] \/ (pc[a] \notin {"open", "answer"} /\ pc'[a] \notin {"open", "answer"})
  BY DEF TypeOK
<1>3. QED
  BY <1>1, <1>2 DEF ScanInv, TypeOK, Files

(* Every step leaves a scan only settled records to open. *)
LEMMA ScanNext ==
    ASSUME TypeOK, PcInv, Apart, Born, ScanInv, [Next]_vars
    PROVE  ScanInv'
<1> USE DEF TypeOK, ScanInv, Files
<1> DEFINE Stays == \A s \in Records : Settled(s) => Settled(s)'
<1>0. Stays
  BY SettledStable
<1>1. ASSUME NEW a \in Actors, Take(a) PROVE ScanInv'
  <2>1. PICK l \in {"prune", "exit", "idle", "write"} : pc' = [pc EXCEPT ![a] = l]
    BY <1>1, AfterFlushIs DEF Take, Goto
  <2>2. UNCHANGED <<got, buf>> /\ pc[a] = "take"
    BY <1>1 DEF Take
  <2>3. QED
    BY <2>1, <2>2, ScanUntouched, ZenonT(30)
<1>2. ASSUME NEW a \in Actors, Write(a) PROVE ScanInv'
  BY <1>0, <1>2 DEF Write, Goto
<1>3. ASSUME NEW a \in Actors, Push(a) PROVE ScanInv'
  BY <1>0, <1>3, AfterFlushIs DEF Push, Goto
<1>4. ASSUME NEW a \in Actors, FlushFails(a) PROVE ScanInv'
  BY <1>0, <1>4, AfterFlushIs DEF FlushFails, Goto
<1>5. ASSUME NEW a \in Actors, Cutoff(a) PROVE ScanInv'
  BY <1>0, <1>5 DEF Cutoff, Goto
<1>6. ASSUME NEW a \in Actors, RemoveFile(a) PROVE ScanInv'
  BY <1>0, <1>6 DEF RemoveFile
<1>7. ASSUME NEW a \in Actors, DropEntries(a) PROVE ScanInv'
  BY <1>0, <1>7 DEF DropEntries, Goto, Stale
<1>8. ASSUME NEW a \in Actors, PruneFails(a) PROVE ScanInv'
  BY <1>0, <1>8 DEF PruneFails, Goto
<1>9. ASSUME NEW a \in Actors, OpenFile(a) PROVE ScanInv'
  <2>1. PICK f \in buf[a] : /\ IF f \in disk THEN Add(a, f) ELSE UNCHANGED got
                            /\ buf' = [buf EXCEPT ![a] = @ \ {f}]
    BY <1>9 DEF OpenFile
  <2>2. pc' = pc /\ pc[a] = "open"
    BY <1>9 DEF OpenFile
  <2>3. \A b \in Actors : b # a => got'[b] = got[b] /\ buf'[b] = buf[b]
    BY <2>1, AddIs
  <2>4. buf'[a] = buf[a] \ {f} /\ f \subseteq Records
    BY <2>1 DEF Files
  <2>5. \A s \in Records : got'[a][s] = got[a][s] \/ (s \in f /\ got'[a][s] = got[a][s] + 1)
    BY <2>1, AddIs
  <2>6. \A s \in f : Settled(s) /\ got[a][s] = 0
    BY <2>2
  <2>7. \A g \in buf'[a] : \A s \in g : s \notin f /\ s \in Records
    BY <2>2, <2>4 DEF Files
  <2>8. \A s \in Records : got'[a][s] <= 1 /\ (got'[a][s] # 0 => Settled(s))
    BY <2>2, <2>5, <2>6
  <2>9. \A g \in buf'[a] : \A s \in g : Settled(s) /\ got'[a][s] = 0
    BY <2>2, <2>4, <2>5, <2>7
  <2>10. \A g \in buf'[a] : \A s \in g : Settled(s)'
    BY <2>7, <2>9, <1>0
  <2>11. QED
    BY <2>2, <2>3, <2>4, <2>8, <2>9, <2>10, <1>0, SMTT(30)
<1>10. ASSUME NEW a \in Actors, ReadPending(a) PROVE ScanInv'
  <2>1. \A b \in Actors : b # a => got'[b] = got[b]
    BY <1>10, AddIs DEF ReadPending
  <2>2. \A s \in Records : got'[a][s] = got[a][s] + (IF s \in pending[Proc(a)] THEN 1 ELSE 0)
    BY <1>10, AddIs DEF ReadPending
  <2>3. pc[a] = "open" /\ pc' = [pc EXCEPT ![a] = "answer"] /\ buf' = buf
    BY <1>10 DEF ReadPending, Goto
  <2>4. \A s \in Records : got[a][s] # 0 => s \notin pending[Proc(a)]
    BY <2>3, TaskOf DEF Settled
  <2>5. \A s \in Records : got'[a][s] <= 1
    BY <2>2, <2>4, SMTT(30)
  <2>6. QED
    BY <2>1, <2>3, <2>5, <1>0
<1>11. ASSUME NEW a \in Actors, Answer(a) PROVE ScanInv'
  BY <1>0, <1>11 DEF Answer, Goto, NoRows
<1>12. ASSUME NEW a \in Actors, Lock(a) PROVE ScanInv'
  BY <1>0, <1>12 DEF Lock, LockFree, Goto
<1>13. ASSUME NEW p \in Procs, NEW r \in Records, Record(p, r) PROVE ScanInv'
  <2> DEFINE d == <<p, "drain">>
  <2>1. PICK l \in {"take", "idle"} : pc' = [pc EXCEPT ![d] = l]
    BY <1>13 DEF Record, Goto
  <2>2. UNCHANGED <<got, buf>> /\ pc[d] = "idle"
    BY <1>13 DEF Record
  <2> HIDE DEF d
  <2>3. QED
    BY <2>1, <2>2, ScanUntouched
<1>14. ASSUME NEW p \in Procs, Tick(p) PROVE ScanInv'
  <2> DEFINE d == <<p, "timer">>
  <2>1. PICK l \in {"take"} : pc' = [pc EXCEPT ![d] = l]
    BY <1>14 DEF Tick, Goto
  <2>2. UNCHANGED <<got, buf>> /\ pc[d] = "idle"
    BY <1>14 DEF Tick
  <2> HIDE DEF d
  <2>3. QED
    BY <2>1, <2>2, ScanUntouched
<1>15. ASSUME NEW p \in Procs, Shutdown(p) PROVE ScanInv'
  <2> DEFINE d == <<p, "drop">>
  <2>1. PICK l \in {"take"} : pc' = [pc EXCEPT ![d] = l]
    BY <1>15 DEF Shutdown, Goto
  <2>2. UNCHANGED <<got, buf>> /\ d \in Actors
    BY <1>15 DEF Shutdown
  <2>3. pc[d] \notin {"open", "answer"}
    BY <2>2, TaskOf DEF PcInv
  <2> HIDE DEF d
  <2>4. QED
    BY <2>1, <2>2, <2>3, ScanUntouched
<1>16. ASSUME NEW p \in Procs, ReadManifest(p) PROVE ScanInv'
  <2> DEFINE d == <<p, "scan">>
  <2>1. d \in Actors /\ pc[d] = "idle" /\ pc' = [pc EXCEPT ![d] = "open"]
    BY <1>16 DEF ReadManifest, Goto
  <2>2. got' = got /\ buf' = [buf EXCEPT ![d] = manifest]
    BY <1>16 DEF ReadManifest
  <2>3. \A f \in manifest : \A s \in f : s \in Records /\ Settled(s)
    BY DEF Settled, Apart, Born, Somewhere, Files
  <2>4. \A f, g \in manifest, s \in Records : s \in f /\ s \in g => f = g
    BY DEF Apart
  <2>5. \A f \in manifest : \A s \in f : got[d][s] = 0
    BY <2>1, <2>3
  <2> HIDE DEF d
  <2>6. QED
    BY <2>1, <2>2, <2>3, <2>4, <2>5, <1>0
<1>17. ASSUME NEW p \in Procs, Crash(p) PROVE ScanInv'
  BY <1>0, <1>17 DEF Crash, End, NoRows
<1>18. ASSUME NEW p \in Procs, Exit(p) PROVE ScanInv'
  BY <1>0, <1>18 DEF Exit, Exiting, End, NoRows
<1>19. ASSUME NEW p \in Procs, Open(p) PROVE ScanInv'
  <2> DEFINE d == <<p, "timer">>
  <2>1. UNCHANGED <<got, buf>> /\ p \notin up
    BY <1>19 DEF Open
  <2>2. CASE d \in Actors
    <3>1. PICK l \in {"prune"} : pc' = [pc EXCEPT ![d] = l]
      BY <1>19, <2>2 DEF Open, Goto
    <3>2. pc[d] = "idle"
      BY <2>1, <2>2, TaskOf DEF PcInv
    <3> HIDE DEF d
    <3>3. QED
      BY <2>1, <3>1, <3>2, ScanUntouched
  <2>3. CASE d \notin Actors
    BY <1>19, <2>1, <2>3, <1>0 DEF Open
  <2>4. QED
    BY <2>2, <2>3
<1>20. ASSUME Advance PROVE ScanInv'
  BY <1>0, <1>20 DEF Advance
<1>21. ASSUME UNCHANGED vars PROVE ScanInv'
  BY <1>0, <1>21, <1>0 DEF vars
<1>22. QED
  BY <1>1, <1>2, <1>3, <1>4, <1>5, <1>6, <1>7, <1>8, <1>9, <1>10, <1>11,
     <1>12, <1>13, <1>14, <1>15, <1>16, <1>17, <1>18, <1>19, <1>20, <1>21
  DEF Next, Step

(* No step takes what is due out of the process's reach. *)
LEMMA DueNext ==
    ASSUME TypeOK, PcInv, LockInv, DueInv, [Next]_vars
    PROVE  DueInv'
<1> USE DEF TypeOK, DueInv
<1>1. ASSUME NEW a \in Actors, Take(a) PROVE DueInv'
  <2>1. PICK l : pc' = [pc EXCEPT ![a] = l]
    BY <1>1 DEF Take, Goto
  <2>2. UNCHANGED <<closing, due, manifest, lost>>
    BY <1>1 DEF Take
  <2>3. ASSUME NEW b \in Actors, NEW s, s \in held[b] \/ s \in pending[Proc(a)], Proc(b) = Proc(a)
        PROVE  \E c \in Actors : Proc(c) = Proc(b) /\ s \in held'[c]
    BY <1>1, <2>3, TaskOf DEF Take, PcInv, Flushing
  <2>4. ASSUME NEW b \in Actors, NEW s, s \in held[b], Proc(b) # Proc(a)
        PROVE  s \in held'[b]
    BY <1>1, <2>4, TaskOf DEF Take
  <2>5. ASSUME NEW b \in Actors, pc[b] = "take", Proc(b) # Proc(a)
        PROVE  pc'[b] = "take" /\ pending'[Proc(b)] = pending[Proc(b)]
    BY <1>1, <2>1, <2>5, TaskOf DEF Take
  <2>6. QED
    BY <2>2, <2>3, <2>4, <2>5, SMTT(30)
<1>2. ASSUME NEW a \in Actors, Write(a) PROVE DueInv'
  BY <1>2 DEF Write, Goto
<1>3. ASSUME NEW a \in Actors, Push(a) PROVE DueInv'
  BY <1>3, AfterFlushIs DEF Push, Goto, LockInv
<1>4. ASSUME NEW a \in Actors, FlushFails(a) PROVE DueInv'
  BY <1>4, TaskOf, AfterFlushIs DEF FlushFails, Goto
<1>5. ASSUME NEW a \in Actors, Cutoff(a) PROVE DueInv'
  BY <1>5 DEF Cutoff, Goto
<1>6. ASSUME NEW a \in Actors, RemoveFile(a) PROVE DueInv'
  BY <1>6 DEF RemoveFile
<1>7. ASSUME NEW a \in Actors, DropEntries(a) PROVE DueInv'
  BY <1>7 DEF DropEntries, Goto, Stale, LockInv
<1>8. ASSUME NEW a \in Actors, PruneFails(a) PROVE DueInv'
  BY <1>8 DEF PruneFails, Goto
<1>9. ASSUME NEW a \in Actors, OpenFile(a) PROVE DueInv'
  BY <1>9 DEF OpenFile, Add
<1>10. ASSUME NEW a \in Actors, ReadPending(a) PROVE DueInv'
  BY <1>10 DEF ReadPending, Add, Goto
<1>11. ASSUME NEW a \in Actors, Answer(a) PROVE DueInv'
  BY <1>11 DEF Answer, Goto, NoRows
<1>12. ASSUME NEW a \in Actors, Lock(a) PROVE DueInv'
  BY <1>12 DEF Lock, LockFree, Goto
<1>13. ASSUME NEW p \in Procs, NEW r \in Records, Record(p, r) PROVE DueInv'
  BY <1>13, TaskOf, ZenonT(30) DEF Record, Goto
<1>14. ASSUME NEW p \in Procs, Tick(p) PROVE DueInv'
  BY <1>14 DEF Tick, Goto
<1>15. ASSUME NEW p \in Procs, Shutdown(p) PROVE DueInv'
  <2>1. PICK x \in Actors : x = <<p, "drop">> /\ closing' = closing \cup {p} /\ due'[x] = pending[p] /\ pc'[x] = "take"
    BY <1>15 DEF Shutdown, Goto
  <2>2. \A a \in Actors \ {x} : due'[a] = due[a] /\ pc'[a] = pc[a]
    BY <1>15, <2>1 DEF Shutdown, Goto
  <2>3. pending' = pending /\ held' = held /\ manifest' = manifest /\ lost' = lost
    BY <1>15 DEF Shutdown
  <2>4. \A a \in Actors : Role(a) = "drop" /\ Proc(a) = p => a = x
    BY <2>1, TaskOf
  <2>5. ASSUME NEW a \in Actors, Role(a) = "drop", Proc(a) \in closing', NEW r \in due'[a]
        PROVE  \/ pc'[a] = "take" /\ r \in pending'[Proc(a)]
               \/ \E b \in Actors : Proc(b) = Proc(a) /\ r \in held'[b]
               \/ \E f \in manifest' : r \in f
               \/ r \in lost'
    <3>1. CASE a = x
      BY <2>1, <2>3, <2>5, <3>1, TaskOf
    <3>2. CASE a # x
      <4>1. Proc(a) \in closing /\ r \in due[a] /\ pc'[a] = pc[a]
        BY <2>1, <2>2, <2>4, <2>5, <3>2
      <4> QED
        BY <2>3, <2>5, <4>1
    <3> QED
      BY <3>1, <3>2
  <2>6. \A q \in closing' : <<q, "drop">> \in Actors
    BY <2>1
  <2> QED
    BY <2>5, <2>6
<1>16. ASSUME NEW p \in Procs, ReadManifest(p) PROVE DueInv'
  BY <1>16 DEF ReadManifest, Goto
<1>17. ASSUME NEW p \in Procs, Crash(p) PROVE DueInv'
  BY <1>17, TaskOf DEF Crash, End, NoRows
<1>18. ASSUME NEW p \in Procs, Exit(p) PROVE DueInv'
  BY <1>18, TaskOf DEF Exit, Exiting, End, NoRows
<1>19. ASSUME NEW p \in Procs, Open(p) PROVE DueInv'
  <2> DEFINE d == <<p, "timer">>
  <2>1. pc' = [pc EXCEPT ![d] = "prune"] \/ pc' = pc
    BY <1>19 DEF Open, Goto
  <2>2. UNCHANGED <<closing, due, held, pending, manifest, lost>>
    BY <1>19 DEF Open
  <2>3. Role(d) = "timer"
    BY TaskOf
  <2> HIDE DEF d
  <2>4. QED
    BY <2>1, <2>2, <2>3
<1>20. ASSUME Advance PROVE DueInv'
  BY <1>20 DEF Advance
<1>21. ASSUME UNCHANGED vars PROVE DueInv'
  BY <1>21 DEF vars
<1>22. QED
  BY <1>1, <1>2, <1>3, <1>4, <1>5, <1>6, <1>7, <1>8, <1>9, <1>10, <1>11,
     <1>12, <1>13, <1>14, <1>15, <1>16, <1>17, <1>18, <1>19, <1>20, <1>21
  DEF Next, Step

(* The clock only makes a cutoff older. *)
LEMMA CutoffNext ==
    ASSUME TypeOK, PcInv, CutoffInv, [Next]_vars
    PROVE  CutoffInv'
<1> USE StoreAssumption, TaskOf DEF TypeOK, PcInv, CutoffInv
<1>1. ASSUME NEW a \in Actors, Take(a) PROVE CutoffInv'
  BY <1>1, AfterFlushIs, SMTT(30) DEF Take, Goto
<1>2. ASSUME NEW a \in Actors, Write(a) PROVE CutoffInv'
  BY <1>2 DEF Write, Goto
<1>3. ASSUME NEW a \in Actors, Push(a) PROVE CutoffInv'
  BY <1>3, AfterFlushIs, SMTT(30) DEF Push, Goto
<1>4. ASSUME NEW a \in Actors, FlushFails(a) PROVE CutoffInv'
  BY <1>4, AfterFlushIs DEF FlushFails, Goto
<1>5. ASSUME NEW a \in Actors, Cutoff(a) PROVE CutoffInv'
  BY <1>5 DEF Cutoff, Goto
<1>6. ASSUME NEW a \in Actors, RemoveFile(a) PROVE CutoffInv'
  BY <1>6 DEF RemoveFile
<1>7. ASSUME NEW a \in Actors, DropEntries(a) PROVE CutoffInv'
  BY <1>7 DEF DropEntries, Goto, Stale
<1>8. ASSUME NEW a \in Actors, PruneFails(a) PROVE CutoffInv'
  BY <1>8 DEF PruneFails, Goto
<1>9. ASSUME NEW a \in Actors, OpenFile(a) PROVE CutoffInv'
  BY <1>9 DEF OpenFile, Add
<1>10. ASSUME NEW a \in Actors, ReadPending(a) PROVE CutoffInv'
  BY <1>10 DEF ReadPending, Add, Goto
<1>11. ASSUME NEW a \in Actors, Answer(a) PROVE CutoffInv'
  BY <1>11 DEF Answer, Goto, NoRows
<1>12. ASSUME NEW a \in Actors, Lock(a) PROVE CutoffInv'
  BY <1>12 DEF Lock, LockFree, Goto
<1>13. ASSUME NEW p \in Procs, NEW r \in Records, Record(p, r) PROVE CutoffInv'
  BY <1>13 DEF Record, Goto
<1>14. ASSUME NEW p \in Procs, Tick(p) PROVE CutoffInv'
  BY <1>14 DEF Tick, Goto
<1>15. ASSUME NEW p \in Procs, Shutdown(p) PROVE CutoffInv'
  BY <1>15 DEF Shutdown, Goto
<1>16. ASSUME NEW p \in Procs, ReadManifest(p) PROVE CutoffInv'
  BY <1>16 DEF ReadManifest, Goto
<1>17. ASSUME NEW p \in Procs, Crash(p) PROVE CutoffInv'
  BY <1>17 DEF Crash, End, NoRows
<1>18. ASSUME NEW p \in Procs, Exit(p) PROVE CutoffInv'
  BY <1>18 DEF Exit, Exiting, End, NoRows
<1>19. ASSUME NEW p \in Procs, Open(p) PROVE CutoffInv'
  BY <1>19 DEF Open, Goto
<1>20. ASSUME Advance PROVE CutoffInv'
  BY <1>20 DEF Advance
<1>21. ASSUME UNCHANGED vars PROVE CutoffInv'
  BY <1>21 DEF vars
<1>22. QED
  BY <1>1, <1>2, <1>3, <1>4, <1>5, <1>6, <1>7, <1>8, <1>9, <1>10, <1>11,
     <1>12, <1>13, <1>14, <1>15, <1>16, <1>17, <1>18, <1>19, <1>20, <1>21
  DEF Next, Step

-----------------------------------------------------------------------------
(* The inductive invariant, and what follows from it.                      *)

LEMMA IInvInit == Init => IInv
<1> SUFFICES ASSUME Init PROVE IInv
  OBVIOUS
<1> USE DEF Init
<1>1. TypeOK
  BY DEF TypeOK, Pcs, NoRows
<1>2. PcInv
  BY DEF PcInv, Flushing
<1>3. LockInv /\ CutoffInv
  BY StoreAssumption DEF LockInv, CutoffInv
<1>4. Apart /\ Born
  BY DEF Apart, Born, Somewhere
<1>5. ScanInv /\ DueInv
  BY DEF ScanInv, DueInv, NoRows
<1>6. QED
  BY <1>1, <1>2, <1>3, <1>4, <1>5 DEF IInv

LEMMA IInvNext == IInv /\ [Next]_vars => IInv'
BY TypeNext, PcNext, LockNext, ApartNext, BornNext, ScanNext, DueNext, CutoffNext DEF IInv

(* The inductive invariant is an invariant of the store: the lock brackets *)
(* every change of the manifest, the places of a record stay disjoint, and *)
(* scans, shutdowns and prunes only touch what is settled, due or expired. *)
THEOREM Invariance == Spec => []IInv
BY IInvInit, IInvNext, PTL DEF Spec

(* Type correctness: every variable of the store stays in its range; in    *)
(* particular no flush writes or lists an empty file.                      *)
THEOREM TypeCorrect == Spec => []TypeOK
<1>1. IInv => TypeOK
  BY DEF IInv
<1>2. QED
  BY <1>1, Invariance, PTL

(* A set with at most one element counts as one or as none. *)
LEMMA AtMostOne ==
    ASSUME NEW S, \A x, y \in S : x = y
    PROVE  Cardinality(S) = IF S = {} THEN 0 ELSE 1
<1>1. CASE S = {}
  BY <1>1, FS_EmptySet
<1>2. ASSUME NEW x \in S PROVE Cardinality(S) = 1
  <2>1. S = {x}
    OBVIOUS
  <2>2. QED
    BY <2>1, FS_Singleton
<1>3. QED
  BY <1>1, <1>2

LEMMA AccountedFollows == IInv => Accounted
<1> SUFFICES ASSUME IInv, NEW r \in Records
             PROVE  Cardinality({p \in Procs : r \in pending[p]})
                      + Cardinality({a \in Actors : r \in held[a]})
                      + Cardinality({f \in manifest : r \in f})
                      + (IF r \in lost THEN 1 ELSE 0)
                    = (IF at[r] = Unborn THEN 0 ELSE 1)
  BY DEF Accounted
<1> DEFINE P == {p \in Procs : r \in pending[p]}
           H == {a \in Actors : r \in held[a]}
           F == {f \in manifest : r \in f}
<1>1. Cardinality(P) = IF P = {} THEN 0 ELSE 1
  <2>1. \A x, y \in P : x = y
    BY DEF IInv, Apart
  <2>2. QED
    BY <2>1, AtMostOne
<1>2. Cardinality(H) = IF H = {} THEN 0 ELSE 1
  <2>1. \A x, y \in H : x = y
    BY DEF IInv, Apart
  <2>2. QED
    BY <2>1, AtMostOne
<1>3. Cardinality(F) = IF F = {} THEN 0 ELSE 1
  <2>1. \A x, y \in F : x = y
    BY DEF IInv, Apart
  <2>2. QED
    BY <2>1, AtMostOne
<1>4. /\ P # {} => H = {} /\ F = {} /\ r \notin lost
      /\ H # {} => F = {} /\ r \notin lost
      /\ F # {} => r \notin lost
  BY DEF IInv, Apart
<1>5. at[r] # Unborn <=> P # {} \/ H # {} \/ F # {} \/ r \in lost
  BY DEF IInv, Born, Somewhere
<1> HIDE DEF P, H, F
<1>6. Cardinality(P) + Cardinality(H) + Cardinality(F) + (IF r \in lost THEN 1 ELSE 0)
        = (IF at[r] = Unborn THEN 0 ELSE 1)
  BY <1>1, <1>2, <1>3, <1>4, <1>5
<1>7. QED
  BY <1>6 DEF P, H, F

(* Every record that reached the store is in exactly one place: one buffer,*)
(* one flush, one listed file, or given up.                                *)
THEOREM RecordsAccounted == Spec => []Accounted
BY AccountedFollows, Invariance, PTL

(* No scan returns a record twice, though read_batches takes no lock.      *)
THEOREM ScansReadOnce == Spec => []ReadOnce
<1>1. IInv => ReadOnce
  BY DEF IInv, ScanInv, ReadOnce
<1>2. QED
  BY <1>1, Invariance, PTL

(* When a process that shuts down cleanly may exit, what was buffered when *)
(* the shutdown began is listed in the manifest, or its flush has failed.  *)
THEOREM CleanShutdown == Spec => []ShutdownPersists
<1>1. IInv => ShutdownPersists
  <2> SUFFICES ASSUME IInv, NEW p \in Procs, Exiting(p)
               PROVE  due[<<p, "drop">>] \subseteq (UNION manifest) \cup lost
    BY DEF ShutdownPersists
  <2> DEFINE d == <<p, "drop">>
  <2>1. p \in closing
    BY DEF Exiting
  <2>2. d \in Actors /\ Proc(d) = p /\ Role(d) = "drop"
    BY <2>1, TaskOf DEF IInv, DueInv
  <2>3. pc[d] = "exit"
    BY <2>2 DEF Exiting
  <2>4. \A b \in Actors : Proc(b) = p => held[b] = {}
    BY DEF Exiting, IInv, PcInv, Flushing
  <2> HIDE DEF d
  <2>5. due[d] \subseteq (UNION manifest) \cup lost
    BY <2>1, <2>2, <2>3, <2>4 DEF IInv, DueInv
  <2>6. QED
    BY <2>5 DEF d
<1>2. QED
  BY <1>1, Invariance, PTL

(* Only a prune whose cutoff has passed removes files or entries. *)
LEMMA HistoryStep ==
    ASSUME IInv, [Next]_vars
    PROVE  [\A r \in Readable(manifest, disk) :
              r \in Readable(manifest', disk') \/ PastRetention(r)]_vars
<1> SUFFICES ASSUME NEW f \in manifest \cap disk, NEW r \in f, ~UNCHANGED vars
             PROVE  r \in Readable(manifest', disk') \/ PastRetention(r)
  BY DEF Readable
<1> USE DEF Readable
<1>1. r \in Records /\ at[r] \in Nat /\ clock \in Nat
  BY DEF IInv, TypeOK, Files, Born, Somewhere
<1>2. ASSUME NEW a \in Actors, pc[a] = "drop", f \in Stale(a) PROVE PastRetention(r)
  <2>1. at[r] < cutoff[a]
    BY <1>2 DEF Stale, Older
  <2>2. cutoff[a] <= clock - Retention /\ cutoff[a] \in Int
    BY <1>2 DEF IInv, CutoffInv, TypeOK
  <2>3. QED
    BY <1>1, <2>1, <2>2, StoreAssumption DEF PastRetention
<1>3. ASSUME NEW a \in Actors, Push(a) PROVE f \in manifest' \cap disk'
  BY <1>3 DEF Push, IInv, LockInv
<1>4. ASSUME NEW a \in Actors, RemoveFile(a) PROVE f \in manifest' \cap disk' \/ f \in Stale(a)
  BY <1>4 DEF RemoveFile
<1>5. ASSUME NEW a \in Actors, DropEntries(a) PROVE f \in manifest' \cap disk' \/ f \in Stale(a)
  BY <1>5 DEF DropEntries, IInv, LockInv
<1>6. ASSUME ~\E a \in Actors : Push(a) \/ RemoveFile(a) \/ DropEntries(a)
      PROVE  f \in manifest' \cap disk'
  BY <1>6 DEF Next, Step, Take, Write, FlushFails, Cutoff, PruneFails, OpenFile, ReadPending,
     Answer, Lock, Record, Tick, Shutdown, ReadManifest, Crash, Exit, End, Open, Advance
<1>7. QED
  BY <1>2, <1>3, <1>4, <1>5, <1>6 DEF RemoveFile, DropEntries

(* What a reader can see of the history stays readable until retention has *)
(* passed, whatever other processes flush, prune, fail or crash.           *)
THEOREM HistoryIsKept == Spec => HistoryKept
<1>1. IInv /\ [Next]_vars =>
        [\A r \in Readable(manifest, disk) :
            r \in Readable(manifest', disk') \/ PastRetention(r)]_vars
  BY HistoryStep
<1>2. QED
  BY <1>1, Invariance, PTL DEF Spec, HistoryKept

=============================================================================
