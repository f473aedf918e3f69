------------------------ MODULE SourceRegistryProofs ------------------------
(***************************************************************************)
(* Proofs about SourceRegistry, for every set of sources, definitions and  *)
(* callers, and every interleaving of their operations: the source list,   *)
(* the catalog and the refresher handles have separate locks, and nothing  *)
(* orders two operations on one source.                                    *)
(*                                                                         *)
(* The argument: while one caller is alone on a source (WorkerInv), how    *)
(* far it has got tells what the list, the catalog and the handles have of *)
(* it (ServedInv, HandleInv); a refresher has a handle, in the map or with *)
(* the caller, until the source has strayed (LeakInv).  What a reload has  *)
(* still to do, and what others have worked on since it began, explain     *)
(* every difference between the list and its configuration (TouchInv,      *)
(* ReloadInv), overlaps or not.                                            *)
(***************************************************************************)
EXTENDS SourceRegistry, TLAPS

Registering == {"dereg", "registry", "wrap", "handles", "list"}
Removing == {"forget", "schema", "unfunction"}
Working == Registering \cup Removing

(* A caller has a source exactly while it registers or removes one, and    *)
(* two that have the same are known to.                                    *)
WorkerInv ==
    /\ \A c \in Callers : cur[c] # NoName <=> pc[c] \in Working
    /\ \A c, o \in Callers : cur[c] = cur[o] /\ cur[c] # NoName /\ c # o => cur[c] \in contested
    /\ \A c \in Callers : pc[c] \in Registering => todo[c][cur[c]] # NoDef
    /\ contested \subseteq strayed

(* What the catalog has of a source, by how far the caller that is alone   *)
(* on it has got.  A removal that finds the source listed takes whatever   *)
(* tables there are.                                                       *)
WorkTables(c) ==
    LET s == cur[c]
    IN  /\ pc[c] = "registry" => tables[s] = NoDef
        /\ pc[c] \in {"wrap", "handles", "list"} => tables[s] = todo[c][s]
        /\ pc[c] = "forget" /\ s \notin broken => tables[s] = listed[s] \/ listed[s] # NoDef
        /\ pc[c] \in {"schema", "unfunction"} => listed[s] = NoDef
        /\ pc[c] = "schema" /\ ~removed[c] /\ s \notin broken => tables[s] = NoDef
        /\ pc[c] = "unfunction" /\ s \notin broken => tables[s] = NoDef

ServedInv ==
    /\ \A s \in Names \ (broken \cup contested) : AtRest(s) => tables[s] = listed[s]
    /\ \A c \in Callers : cur[c] \notin contested => WorkTables(c)

(* The handles a source with definition d has, those of the tables an      *)
(* attached database could look up.                                        *)
Fits(n, d) == n <= LoopsOf(d) /\ (d \notin AttachDefs => n = LoopsOf(d))

(* The handles of the source of a caller, by how far it has got. *)
WorkHandles(c) ==
    LET s == cur[c]
    IN  /\ pc[c] \in Working \ {"list"} => handles[s] = 0
        /\ pc[c] \in {"wrap", "handles"} => Fits(spawned[c] + left[c], todo[c][s])
        /\ pc[c] = "list" /\ s \notin drained => Fits(handles[s], todo[c][s])

HandleInv ==
    /\ \A s \in Names \ (broken \cup contested \cup drained) :
          AtRest(s) => Fits(handles[s], listed[s])
    /\ \A c \in Callers : cur[c] \notin contested => WorkHandles(c)
    /\ \A c \in Callers : pc[c] \notin {"wrap", "handles"} => spawned[c] = 0
    /\ \A c \in Callers : pc[c] # "wrap" => left[c] = 0

(* Every refresher of a source that has not strayed has a handle, in the   *)
(* map or with the one caller at work on the source.                       *)
LeakInv ==
    \A s \in Names \ strayed :
        /\ AtRest(s) => loops[s] = handles[s]
        /\ \A c \in Callers : cur[c] = s => loops[s] = handles[s] + spawned[c]

(* A reload knows the sources that others work on. *)
TouchInv ==
    \A c, o \in Callers :
        op[c] = "reload" /\ o # c /\ cur[o] # NoName => cur[o] \in touched[c]

(* A source being removed has not been crossed off yet. *)
GoneInv ==
    \A c \in Callers : pc[c] \in Removing => cur[c] \in gone[c] /\ todo[c][cur[c]] = NoDef

(* What a reload has still to do of its configuration. *)
ReloadInv ==
    \A c \in Callers :
        /\ pc[c] \in {"drain", "functions"} => op[c] = "reload"
        /\ op[c] = "reload" =>
              /\ pc[c] # "idle"
              /\ pc[c] \in {"schema", "unfunction"} /\ cur[c] \notin touched[c] => listed[cur[c]] = NoDef
              /\ \A s \in Names \ touched[c] :
                    IF pc[c] \in {"drain", "functions"}
                    THEN listed[s] = conf[c][s]
                    ELSE /\ todo[c][s] # NoDef => todo[c][s] = conf[c][s]
                         /\ s \in gone[c] => conf[c][s] = NoDef
                         /\ todo[c][s] = NoDef /\ s \notin gone[c] => listed[s] = conf[c][s]

IInv ==
    /\ TypeOK
    /\ WorkerInv
    /\ ServedInv
    /\ HandleInv
    /\ LeakInv
    /\ TouchInv
    /\ GoneInv
    /\ ReloadInv

-----------------------------------------------------------------------------
(* The ways an operation may start. *)
LEMMA StartCases ==
    ASSUME NEW c \in Callers, Start(c)
    PROVE  \/ \E s \in Names, d \in Defs : AddSource(c, s, d)
           \/ \E S \in SUBSET Names : RefreshCatalog(c, S)
           \/ \E s \in Names : RemoveSource(c, s)
           \/ \E config \in [Names -> Defs \cup {NoDef}] : ReloadConfig(c, config)
<1>1. {s \in Names : listed[s] # NoDef} \in SUBSET Names /\ \A s \in Names : {s} \in SUBSET Names
  OBVIOUS
<1>2. QED
  BY <1>1 DEF Start

(* The refreshers a definition calls for. *)
LEMMA LoopsOfIs ==
    /\ \A d : LoopsOf(d) \in Nat
    /\ LoopsOf(NoDef) = 0
BY SourcesAssumption DEF LoopsOf

(* Wrapping is over, or goes on. *)
Wrapped(c) ==
    /\ left[c] = 0 \/ (left[c] = TableCount /\ tables[cur[c]] = NoDef)
    /\ pc' = [pc EXCEPT ![c] = IF spawned[c] = 0 THEN "list" ELSE "handles"]
    /\ left' = [left EXCEPT ![c] = 0]
    /\ UNCHANGED <<loops, spawned>>

WrapsOne(c) ==
    /\ left[c] # 0
    /\ loops' = [loops EXCEPT ![cur[c]] = @ + 1]
    /\ spawned' = [spawned EXCEPT ![c] = @ + 1]
    /\ left' = [left EXCEPT ![c] = @ - 1]
    /\ UNCHANGED pc

LEMMA WrapCases == ASSUME NEW c, Wrap(c) PROVE Wrapped(c) \/ WrapsOne(c)
BY Zenon DEF Wrap, Wrapped, WrapsOne, Goto

(* Only a reload goes on once everything is registered and removed. *)
Rebuilds(c) ==
    /\ op[c] = "reload"
    /\ pc' = [pc EXCEPT ![c] = "drain"]
    /\ UNCHANGED <<op, cur, todo, gone, conf, spawned, left, removed, touched>>

LEMMA ReturnCases == ASSUME NEW c, Return(c) PROVE Rebuilds(c) \/ Finish(c)
BY Zenon DEF Return, Rebuilds, Goto

(* A caller takes up a source, alone or not. *)
Alone(c, s) == \A o \in Callers \ {c} : cur[o] # s

Takes(c, s, l) ==
    /\ cur[c] = NoName /\ pc[c] = "pick"
    /\ cur' = [cur EXCEPT ![c] = s]
    /\ pc' = [pc EXCEPT ![c] = l]
    /\ loops' = [loops EXCEPT ![s] = @ - handles[s]]
    /\ handles' = [handles EXCEPT ![s] = 0]
    /\ drained' = drained \ {s}
    /\ Alone(c, s) => strayed' = strayed /\ contested' \subseteq contested /\ contested \ {s} \subseteq contested'
    /\ ~Alone(c, s) => strayed' = strayed \cup {s} /\ contested' = contested \cup {s}
    /\ UNCHANGED <<listed, tables, todo, spawned, left, removed, broken>>

LEMMA PickCases ==
    ASSUME TypeOK, WorkerInv, NEW c \in Callers, Pick(c)
    PROVE  \E s \in Names : Takes(c, s, "dereg") /\ todo[c][s] # NoDef
<1>1. PICK s \in Pending(c) : TakeUp(c, s, TRUE) /\ AbortRefreshers(s)
  BY DEF Pick
<1>2. s \in Names /\ todo[c][s] # NoDef
  BY <1>1 DEF Pending
<1>3. s # NoName /\ cur[c] = NoName /\ pc[c] = "pick"
  BY <1>2, SourcesAssumption DEF Pick, WorkerInv, Working, Registering, Removing
<1>4. s \notin Others(c) <=> Alone(c, s)
  BY <1>3 DEF Others, Alone
<1>5. Alone(c, s) => strayed' = strayed /\ contested' = contested \ {s}
  BY <1>1, <1>4 DEF TakeUp
<1>6. ~Alone(c, s) => strayed' = strayed \cup {s} /\ contested' = contested \cup {s}
  BY <1>1, <1>4 DEF TakeUp
<1>7. pc' = [pc EXCEPT ![c] = "dereg"] /\ UNCHANGED <<listed, tables, todo, spawned, left, removed, broken>>
  BY DEF Pick, Goto
<1>8. /\ cur' = [cur EXCEPT ![c] = s] /\ drained' = drained \ {s}
      /\ loops' = [loops EXCEPT ![s] = @ - handles[s]] /\ handles' = [handles EXCEPT ![s] = 0]
  BY <1>1 DEF TakeUp, AbortRefreshers
<1>9. Takes(c, s, "dereg")
  BY <1>3, <1>5, <1>6, <1>7, <1>8 DEF Takes
<1>10. QED
  BY <1>2, <1>9

LEMMA PickRemovalCases ==
    ASSUME TypeOK, WorkerInv, NEW c \in Callers, PickRemoval(c)
    PROVE  \E s \in Names : /\ Takes(c, s, "forget") /\ s \in gone[c]
                            /\ listed[s] = NoDef => contested \subseteq contested'
<1>1. PICK s \in gone[c] : TakeUp(c, s, listed[s] # NoDef) /\ AbortRefreshers(s)
  BY DEF PickRemoval
<1>2. s \in Names
  BY <1>1 DEF TypeOK
<1>3. s # NoName /\ cur[c] = NoName /\ pc[c] = "pick"
  BY <1>2, SourcesAssumption DEF PickRemoval, WorkerInv, Working, Registering, Removing
<1>4. s \notin Others(c) <=> Alone(c, s)
  BY <1>3 DEF Others, Alone
<1>5. Alone(c, s) => strayed' = strayed /\ contested' = (IF listed[s] # NoDef THEN contested \ {s} ELSE contested)
  BY <1>1, <1>4 DEF TakeUp
<1>6. ~Alone(c, s) => strayed' = strayed \cup {s} /\ contested' = contested \cup {s}
  BY <1>1, <1>4 DEF TakeUp
<1>7. pc' = [pc EXCEPT ![c] = "forget"] /\ UNCHANGED <<listed, tables, todo, spawned, left, removed, broken>>
  BY DEF PickRemoval, Goto
<1>8. /\ cur' = [cur EXCEPT ![c] = s] /\ drained' = drained \ {s}
      /\ loops' = [loops EXCEPT ![s] = @ - handles[s]] /\ handles' = [handles EXCEPT ![s] = 0]
  BY <1>1 DEF TakeUp, AbortRefreshers
<1>9. Takes(c, s, "forget")
  BY <1>3, <1>5, <1>6, <1>7, <1>8 DEF Takes
<1>10. listed[s] = NoDef => contested \subseteq contested'
  BY <1>5, <1>6
<1>11. QED
  BY <1>1, <1>2, <1>9, <1>10

LEMMA TakesRest ==
    ASSUME TypeOK, NEW c \in Callers, NEW s \in Names, NEW l, Takes(c, s, l), NEW x \in Names, AtRest(x)'
    PROVE  x # s /\ AtRest(x) /\ (x \notin contested' => x \notin contested) /\ (x \notin drained' => x \notin drained)
<1>1. cur'[c] = s /\ \A o \in Callers : o # c => cur'[o] = cur[o]
  BY DEF Takes, TypeOK
<1>2. x # s
  BY <1>1 DEF AtRest
<1>3. cur[c] # x
  BY SourcesAssumption DEF Takes
<1>4. AtRest(x)
  BY <1>1, <1>3 DEF AtRest
<1>5. (x \notin contested' => x \notin contested) /\ (x \notin drained' => x \notin drained)
  BY <1>2 DEF Takes
<1>6. QED
  BY <1>2, <1>4, <1>5

(* A caller without a source ends its operation, or goes on to the         *)
(* functions.                                                              *)
Leaves(c, l) ==
    /\ pc[c] \notin Working /\ l \notin Working
    /\ pc' = [pc EXCEPT ![c] = l]
    /\ UNCHANGED <<engine, cur, broken, contested, strayed, drained>>
    /\ spawned[c] = 0 /\ left[c] = 0 => UNCHANGED <<spawned, left>>
    /\ \A o \in Callers : o # c => todo'[o] = todo[o] /\ removed'[o] = removed[o]

LEMMA LeavesCases ==
    ASSUME TypeOK, WorkerInv, NEW c \in Callers, Return(c) \/ FunctionFails(c) \/ Reloaded(c)
    PROVE  \E l \in {"idle", "drain"} : Leaves(c, l)
<1> DEFINE W == pc[c] \notin Working /\ "idle" \notin Working /\ "drain" \notin Working
<1>1. W
  BY DEF Return, FunctionFails, Reloaded, Working, Registering, Removing
<1>2. cur[c] = NoName
  BY <1>1 DEF WorkerInv
<1>3. UNCHANGED <<engine, broken, contested, strayed, drained>>
  BY DEF Return, FunctionFails, Reloaded
<1>4. CASE Finish(c)
  <2>1. /\ pc' = [pc EXCEPT ![c] = "idle"] /\ cur' = [cur EXCEPT ![c] = NoName]
        /\ spawned' = [spawned EXCEPT ![c] = 0] /\ left' = [left EXCEPT ![c] = 0]
        /\ \A o \in Callers : o # c => todo'[o] = todo[o] /\ removed'[o] = removed[o]
    BY <1>4 DEF Finish, Goto, TypeOK
  <2>2. cur' = cur
    BY <1>2, <2>1 DEF TypeOK
  <2>3. spawned[c] = 0 /\ left[c] = 0 => UNCHANGED <<spawned, left>>
    BY <2>1 DEF TypeOK
  <2>4. Leaves(c, "idle")
    BY <1>1, <1>3, <2>1, <2>2, <2>3 DEF Leaves
  <2>5. QED
    BY <2>4
<1>5. CASE Rebuilds(c)
  <2>1. Leaves(c, "drain")
    BY <1>1, <1>3, <1>5 DEF Leaves, Rebuilds
  <2>2. QED
    BY <2>1
<1>6. Finish(c) \/ Rebuilds(c)
  BY ReturnCases DEF FunctionFails, Reloaded
<1>7. QED
  BY <1>4, <1>5, <1>6

-----------------------------------------------------------------------------
(* Preservation, one lemma per part of the invariant.                      *)

(* Every step keeps the variables in their ranges. *)
LEMMA TypeNext ==
    ASSUME TypeOK, WorkerInv, HandleInv, [Next]_vars
    PROVE  TypeOK'
<1> USE SourcesAssumption DEF TypeOK, WorkerInv, Pcs, Working, Registering, Removing, engine, task, ghosts
<1>1. ASSUME NEW c \in Callers, NEW s \in Names, NEW d \in Defs, AddSource(c, s, d) PROVE TypeOK'
  BY <1>1 DEF AddSource, Begin, Goto, NoDefs
<1>2. ASSUME NEW c \in Callers, NEW S \in SUBSET Names, RefreshCatalog(c, S) PROVE TypeOK'
  BY <1>2 DEF RefreshCatalog, Begin, Goto
<1>3. ASSUME NEW c \in Callers, NEW s \in Names, RemoveSource(c, s) PROVE TypeOK'
  BY <1>3 DEF RemoveSource, Begin, Goto
<1>4. ASSUME NEW c \in Callers, NEW config \in [Names -> Defs \cup {NoDef}], ReloadConfig(c, config) PROVE TypeOK'
  BY <1>4 DEF ReloadConfig, Begin, Goto, Others
<1>5. ASSUME NEW c \in Callers, Pick(c) PROVE TypeOK'
  BY <1>5 DEF Pick, Pending, AbortRefreshers, Touch, TakeUp, Goto
<1>6. ASSUME NEW c \in Callers, Deregister(c) PROVE TypeOK'
  BY <1>6 DEF Deregister, Goto
<1>7. ASSUME NEW c \in Callers, RegistryOk(c) PROVE TypeOK'
  BY <1>7 DEF RegistryOk, Goto, LoopsOf
<1>8. ASSUME NEW c \in Callers, RegistryFails(c) PROVE TypeOK'
  BY <1>8 DEF RegistryFails, Finish, Goto, NoDefs
<1>9. ASSUME NEW c \in Callers, Wrap(c) PROVE TypeOK'
  <2>1. UNCHANGED <<listed, tables, handles, attached, fn, op, cur, todo, gone, conf, removed, ghosts>>
    BY <1>9 DEF Wrap
  <2>2. pc[c] = "wrap" /\ cur[c] \in Names
    BY <1>9 DEF Wrap
  <2>3. CASE Wrapped(c)
    BY <2>1, <2>2, <2>3 DEF Wrapped
  <2>4. CASE WrapsOne(c)
    <3>1. left[c] - 1 \in Nat /\ spawned[c] + 1 \in Nat /\ loops[cur[c]] + 1 \in Int
      <4>1. left[c] \in Nat \ {0} /\ spawned[c] \in Nat /\ loops[cur[c]] \in Int
        BY <2>2, <2>4 DEF WrapsOne
      <4>2. QED
        BY <4>1
    <3>2. loops' \in [Names -> Int] /\ spawned' \in [Callers -> Nat] /\ left' \in [Callers -> Nat]
      BY <2>2, <2>4, <3>1 DEF WrapsOne
    <3>3. QED
      BY <2>1, <2>4, <3>2 DEF WrapsOne
  <2>5. QED
    BY <1>9, <2>3, <2>4, WrapCases
<1>9a. ASSUME NEW c \in Callers, WrapSkips(c) PROVE TypeOK'
  BY <1>9a DEF WrapSkips
<1>10. ASSUME NEW c \in Callers, KeepHandles(c) PROVE TypeOK'
  BY <1>10 DEF KeepHandles, Goto
<1>11. ASSUME NEW c \in Callers, List(c) PROVE TypeOK'
  BY <1>11 DEF List, Goto
<1>12. ASSUME NEW c \in Callers, PickRemoval(c) PROVE TypeOK'
  BY <1>12 DEF PickRemoval, AbortRefreshers, Touch, TakeUp, Goto
<1>13. ASSUME NEW c \in Callers, Forget(c) PROVE TypeOK'
  BY <1>13 DEF Forget, Goto
<1>14. ASSUME NEW c \in Callers, DropSchema(c) PROVE TypeOK'
  BY <1>14 DEF DropSchema, Goto
<1>15. ASSUME NEW c \in Callers, RemoveFunctions(c) PROVE TypeOK'
  BY <1>15 DEF RemoveFunctions, Goto
<1>16. ASSUME NEW c \in Callers, Return(c) PROVE TypeOK'
  <2>1. UNCHANGED <<engine, broken, contested, strayed, drained>>
    BY <1>16 DEF Return
  <2>2. CASE Rebuilds(c)
    BY <2>1, <2>2 DEF Rebuilds
  <2>3. CASE Finish(c)
    BY <2>1, <2>3 DEF Finish, Goto, NoDefs
  <2>4. QED
    BY <1>16, <2>2, <2>3, ReturnCases
<1>17. ASSUME NEW c \in Callers, DrainFunctions(c) PROVE TypeOK'
  BY <1>17 DEF DrainFunctions, Goto
<1>18. ASSUME NEW c \in Callers, RegisterFunction(c) PROVE TypeOK'
  BY <1>18 DEF RegisterFunction
<1>19. ASSUME NEW c \in Callers, FunctionFails(c) PROVE TypeOK'
  BY <1>19 DEF FunctionFails, Finish, Goto, NoDefs
<1>20. ASSUME NEW c \in Callers, Reloaded(c) PROVE TypeOK'
  BY <1>20 DEF Reloaded, Finish, Goto, NoDefs
<1>21. ASSUME NEW c \in Callers, Disconnect(c) PROVE TypeOK'
  <2>1. pc[c] \in {"registry", "wrap", "functions"} /\ UNCHANGED <<engine, contested, drained>> /\ Finish(c)
    BY <1>21 DEF Disconnect
  <2>2. pc[c] # "functions" => cur[c] \in Names
    BY <2>1
  <2>3. spawned[c] # 0 => cur[c] \in Names
    BY <1>21, <2>2 DEF Disconnect, HandleInv
  <2>4. broken' \subseteq Names /\ strayed' \subseteq Names
    BY <1>21, <2>2, <2>3 DEF Disconnect
  <2>5. QED
    BY <2>1, <2>4 DEF Finish, Goto, NoDefs
<1>22. ASSUME Shutdown PROVE TypeOK'
  BY <1>22 DEF Shutdown
<1>23. ASSUME UNCHANGED vars PROVE TypeOK'
  BY <1>23 DEF vars
<1>24. QED
  BY <1>1, <1>2, <1>3, <1>4, <1>5, <1>6, <1>7, <1>8, <1>9, <1>9a, <1>10,
     <1>11, <1>12, <1>13, <1>14, <1>15, <1>16, <1>17, <1>18, <1>19, <1>20,
     <1>21, <1>22, <1>23, StartCases
  DEF Next, Step

(* A source has one caller at a time. *)
LEMMA WorkerNext ==
    ASSUME TypeOK, WorkerInv, [Next]_vars
    PROVE  WorkerInv'
<1> USE SourcesAssumption DEF TypeOK, WorkerInv, Working, Registering, Removing, engine, task, ghosts
<1>1. ASSUME NEW c \in Callers, NEW s \in Names, NEW d \in Defs, AddSource(c, s, d) PROVE WorkerInv'
  BY <1>1 DEF AddSource, Begin, Goto, NoDefs
<1>2. ASSUME NEW c \in Callers, NEW S \in SUBSET Names, RefreshCatalog(c, S) PROVE WorkerInv'
  BY <1>2 DEF RefreshCatalog, Begin, Goto
<1>3. ASSUME NEW c \in Callers, NEW s \in Names, RemoveSource(c, s) PROVE WorkerInv'
  BY <1>3 DEF RemoveSource, Begin, Goto
<1>4. ASSUME NEW c \in Callers, NEW config \in [Names -> Defs \cup {NoDef}], ReloadConfig(c, config) PROVE WorkerInv'
  BY <1>4 DEF ReloadConfig, Begin, Goto
<1>5. ASSUME NEW c \in Callers, Pick(c) PROVE WorkerInv'
  <2>1. PICK s \in Names : Takes(c, s, "dereg") /\ todo[c][s] # NoDef
    BY <1>5, PickCases
  <2>2. /\ cur'[c] = s /\ pc'[c] = "dereg" /\ todo' = todo /\ pc[c] = "pick"
        /\ \A o \in Callers : o # c => cur'[o] = cur[o] /\ pc'[o] = pc[o]
    BY <2>1 DEF Takes
  <2>3. \A o \in Callers : o # c /\ cur[o] = s => s \in contested'
    BY <2>1 DEF Takes, Alone
  <2>4. \A x \in contested : x # s => x \in contested'
    BY <2>1 DEF Takes
  <2>5. contested' \subseteq strayed'
    BY <2>1 DEF Takes
  <2>6. \A p, o \in Callers : cur'[p] = cur'[o] /\ cur'[p] # NoName /\ p # o => cur'[p] \in contested'
    <3>1. ASSUME NEW p \in Callers, NEW o \in Callers, cur'[p] = cur'[o], cur'[p] # NoName, p # o
          PROVE  cur'[p] \in contested'
      BY <2>2, <2>3, <2>4, <3>1, SMTT(30)
    <3>2. QED
      BY <3>1
  <2>7. \A o \in Callers : cur'[o] # NoName <=> pc'[o] \in Working
    <3>1. cur'[c] # NoName /\ pc'[c] \in Working
      BY <2>1, <2>2
    <3>2. \A o \in Callers : o # c => (cur'[o] # NoName <=> pc'[o] \in Working)
      BY <2>2
    <3>3. QED
      BY <3>1, <3>2
  <2>8. \A o \in Callers : pc'[o] \in Registering => todo'[o][cur'[o]] # NoDef
    BY <2>1, <2>2, ZenonT(60)
  <2>9. QED
    BY <2>5, <2>6, <2>7, <2>8
<1>6. ASSUME NEW c \in Callers, Deregister(c) PROVE WorkerInv'
  BY <1>6 DEF Deregister, Goto
<1>7. ASSUME NEW c \in Callers, RegistryOk(c) PROVE WorkerInv'
  BY <1>7 DEF RegistryOk, Goto
<1>8. ASSUME NEW c \in Callers, RegistryFails(c) PROVE WorkerInv'
  BY <1>8 DEF RegistryFails, Finish, Goto
<1>9. ASSUME NEW c \in Callers, Wrap(c) PROVE WorkerInv'
  <2>1. pc[c] = "wrap" /\ UNCHANGED <<cur, todo, contested, strayed>>
    BY <1>9 DEF Wrap
  <2>2. pc' = pc \/ \E l \in {"list", "handles"} : pc' = [pc EXCEPT ![c] = l]
    <3>1. CASE Wrapped(c)
      BY <3>1 DEF Wrapped
    <3>2. CASE WrapsOne(c)
      BY <3>2 DEF WrapsOne
    <3>3. QED
      BY <1>9, <3>1, <3>2, WrapCases
  <2>3. QED
    BY <2>1, <2>2, ZenonT(60)
<1>9a. ASSUME NEW c \in Callers, WrapSkips(c) PROVE WorkerInv'
  BY <1>9a DEF WrapSkips
<1>10. ASSUME NEW c \in Callers, KeepHandles(c) PROVE WorkerInv'
  BY <1>10 DEF KeepHandles, Goto
<1>11. ASSUME NEW c \in Callers, List(c) PROVE WorkerInv'
  BY <1>11 DEF List, Goto
<1>12. ASSUME NEW c \in Callers, PickRemoval(c) PROVE WorkerInv'
  <2>1. PICK s \in Names : Takes(c, s, "forget")
    BY <1>12, PickRemovalCases
  <2>2. /\ cur'[c] = s /\ pc'[c] = "forget" /\ todo' = todo /\ pc[c] = "pick"
        /\ \A o \in Callers : o # c => cur'[o] = cur[o] /\ pc'[o] = pc[o]
    BY <2>1 DEF Takes
  <2>3. \A o \in Callers : o # c /\ cur[o] = s => s \in contested'
    BY <2>1 DEF Takes, Alone
  <2>4. \A x \in contested : x # s => x \in contested'
    BY <2>1 DEF Takes
  <2>5. contested' \subseteq strayed'
    BY <2>1 DEF Takes
  <2>6. \A p, o \in Callers : cur'[p] = cur'[o] /\ cur'[p] # NoName /\ p # o => cur'[p] \in contested'
    <3>1. ASSUME NEW p \in Callers, NEW o \in Callers, cur'[p] = cur'[o], cur'[p] # NoName, p # o
          PROVE  cur'[p] \in contested'
      BY <2>2, <2>3, <2>4, <3>1, SMTT(30)
    <3>2. QED
      BY <3>1
  <2>7. \A o \in Callers : cur'[o] # NoName <=> pc'[o] \in Working
    <3>1. cur'[c] # NoName /\ pc'[c] \in Working
      BY <2>1, <2>2
    <3>2. \A o \in Callers : o # c => (cur'[o] # NoName <=> pc'[o] \in Working)
      BY <2>2
    <3>3. QED
      BY <3>1, <3>2
  <2>8. \A o \in Callers : pc'[o] \in Registering => todo'[o][cur'[o]] # NoDef
    BY <2>1, <2>2
  <2>9. QED
    BY <2>5, <2>6, <2>7, <2>8
<1>13. ASSUME NEW c \in Callers, Forget(c) PROVE WorkerInv'
  BY <1>13 DEF Forget, Goto
<1>14. ASSUME NEW c \in Callers, DropSchema(c) PROVE WorkerInv'
  BY <1>14 DEF DropSchema, Goto
<1>15. ASSUME NEW c \in Callers, RemoveFunctions(c) PROVE WorkerInv'
  BY <1>15 DEF RemoveFunctions, Goto
<1>16. ASSUME NEW c \in Callers, Return(c) PROVE WorkerInv'
  <2>1. PICK l \in {"idle", "drain"} : Leaves(c, l)
    BY <1>16, LeavesCases
  <2>2. QED
    BY <2>1 DEF Leaves
<1>17. ASSUME NEW c \in Callers, DrainFunctions(c) PROVE WorkerInv'
  BY <1>17 DEF DrainFunctions, Goto
<1>18. ASSUME NEW c \in Callers, RegisterFunction(c) PROVE WorkerInv'
  BY <1>18 DEF RegisterFunction
<1>19. ASSUME NEW c \in Callers, FunctionFails(c) PROVE WorkerInv'
  BY <1>19 DEF FunctionFails, Finish, Goto
<1>20. ASSUME NEW c \in Callers, Reloaded(c) PROVE WorkerInv'
  BY <1>20 DEF Reloaded, Finish, Goto
<1>21. ASSUME NEW c \in Callers, Disconnect(c) PROVE WorkerInv'
  BY <1>21 DEF Disconnect, Finish, Goto
<1>22. ASSUME Shutdown PROVE WorkerInv'
  BY <1>22 DEF Shutdown
<1>23. ASSUME UNCHANGED vars PROVE WorkerInv'
  BY <1>23 DEF vars
<1>24. QED
  BY <1>1, <1>2, <1>3, <1>4, <1>5, <1>6, <1>7, <1>8, <1>9, <1>9a, <1>10,
     <1>11, <1>12, <1>13, <1>14, <1>15, <1>16, <1>17, <1>18, <1>19, <1>20,
     <1>21, <1>22, <1>23, StartCases
  DEF Next, Step

(* A caller changes the list and the catalog of its own source only. *)
LEMMA ServedNext ==
    ASSUME TypeOK, WorkerInv, ServedInv, [Next]_vars
    PROVE  ServedInv'
<1> USE SourcesAssumption DEF TypeOK, WorkerInv, ServedInv, WorkTables, AtRest, Working, Registering, Removing, engine, task, ghosts
<1>1. ASSUME NEW c \in Callers, NEW s \in Names, NEW d \in Defs, AddSource(c, s, d) PROVE ServedInv'
  BY <1>1 DEF AddSource, Begin, Goto, NoDefs
<1>2. ASSUME NEW c \in Callers, NEW S \in SUBSET Names, RefreshCatalog(c, S) PROVE ServedInv'
  BY <1>2 DEF RefreshCatalog, Begin, Goto
<1>3. ASSUME NEW c \in Callers, NEW s \in Names, RemoveSource(c, s) PROVE ServedInv'
  BY <1>3 DEF RemoveSource, Begin, Goto
<1>4. ASSUME NEW c \in Callers, NEW config \in [Names -> Defs \cup {NoDef}], ReloadConfig(c, config) PROVE ServedInv'
  BY <1>4 DEF ReloadConfig, Begin, Goto
<1>5. ASSUME NEW c \in Callers, Pick(c) PROVE ServedInv'
  <2>1. PICK s \in Names : Takes(c, s, "dereg")
    BY <1>5, PickCases
  <2>2. /\ cur'[c] = s /\ pc'[c] = "dereg" /\ pc[c] = "pick" /\ cur[c] = NoName
        /\ UNCHANGED <<listed, tables, todo, removed, broken>>
    BY <2>1 DEF Takes
  <2>3. ASSUME NEW o \in Callers, o # c, cur'[o] \notin contested'
        PROVE  cur'[o] = cur[o] /\ pc'[o] = pc[o] /\ cur[o] # s /\ cur[o] \notin contested
    BY <2>1, <2>3 DEF Takes, Alone
  <2>4. ASSUME NEW x \in Names \ (broken' \cup contested'), AtRest(x)' PROVE tables'[x] = listed'[x]
    <3>1. x # s /\ AtRest(x) /\ x \notin contested
      <4>1. x \in Names /\ x \notin contested'
        BY <2>4
      <4>2. x # s /\ AtRest(x) /\ (x \notin contested' => x \notin contested)
        BY <2>1, <2>4, <4>1, TakesRest, SMTT(30)
      <4>3. QED
        BY <4>1, <4>2
    <3>2. QED
      BY <2>2, <2>4, <3>1
  <2>5. WorkTables(c)'
    BY <2>2
  <2>6. ASSUME NEW o \in Callers, o # c, cur'[o] \notin contested' PROVE WorkTables(o)'
    BY <2>2, <2>3, <2>6
  <2>7. QED
    BY <2>4, <2>5, <2>6
<1>6. ASSUME NEW c \in Callers, Deregister(c) PROVE ServedInv'
  BY <1>6 DEF Deregister, Goto
<1>7. ASSUME NEW c \in Callers, RegistryOk(c) PROVE ServedInv'
  BY <1>7 DEF RegistryOk, Goto
<1>8. ASSUME NEW c \in Callers, RegistryFails(c) PROVE ServedInv'
  BY <1>8 DEF RegistryFails, Finish, Goto
<1>9. ASSUME NEW c \in Callers, Wrap(c) PROVE ServedInv'
  BY <1>9 DEF Wrap, Goto
<1>9a. ASSUME NEW c \in Callers, WrapSkips(c) PROVE ServedInv'
  BY <1>9a DEF WrapSkips
<1>10. ASSUME NEW c \in Callers, KeepHandles(c) PROVE ServedInv'
  BY <1>10 DEF KeepHandles, Goto
<1>11. ASSUME NEW c \in Callers, List(c) PROVE ServedInv'
  BY <1>11 DEF List, Goto
<1>12. ASSUME NEW c \in Callers, PickRemoval(c) PROVE ServedInv'
  <2>1. PICK s \in Names : Takes(c, s, "forget") /\ (listed[s] = NoDef => contested \subseteq contested')
    BY <1>12, PickRemovalCases
  <2>2. /\ cur'[c] = s /\ pc'[c] = "forget" /\ pc[c] = "pick" /\ cur[c] = NoName
        /\ UNCHANGED <<listed, tables, todo, removed, broken>>
    BY <2>1 DEF Takes
  <2>3. ASSUME NEW o \in Callers, o # c, cur'[o] \notin contested'
        PROVE  cur'[o] = cur[o] /\ pc'[o] = pc[o] /\ cur[o] # s /\ cur[o] \notin contested
    BY <2>1, <2>3 DEF Takes, Alone
  <2>4. ASSUME NEW x \in Names \ (broken' \cup contested'), AtRest(x)' PROVE tables'[x] = listed'[x]
    <3>1. x # s /\ AtRest(x) /\ x \notin contested
      <4>1. x \in Names /\ x \notin contested'
        BY <2>4
      <4>2. x # s /\ AtRest(x) /\ (x \notin contested' => x \notin contested)
        BY <2>1, <2>4, <4>1, TakesRest, SMTT(30)
      <4>3. QED
        BY <4>1, <4>2
    <3>2. QED
      BY <2>2, <2>4, <3>1
  <2>5. ASSUME s \notin contested' PROVE WorkTables(c)'
    <3>1. Alone(c, s)
      BY <2>1, <2>5 DEF Takes
    <3>2. AtRest(s)
      BY <2>2, <3>1 DEF Alone
    <3>3. s \notin broken /\ listed[s] = NoDef => tables[s] = listed[s]
      BY <2>1, <2>5, <3>2
    <3>4. QED
      BY <2>2, <3>3
  <2>6. ASSUME NEW o \in Callers, o # c, cur'[o] \notin contested' PROVE WorkTables(o)'
    BY <2>2, <2>3, <2>6
  <2>7. QED
    BY <2>2, <2>4, <2>5, <2>6
<1>13. ASSUME NEW c \in Callers, Forget(c) PROVE ServedInv'
  <2>1. /\ pc[c] = "forget" /\ cur[c] \in Names
        /\ pc' = [pc EXCEPT ![c] = "schema"]
        /\ listed' = [listed EXCEPT ![cur[c]] = NoDef]
        /\ removed' = [removed EXCEPT ![c] = listed[cur[c]] # NoDef]
        /\ UNCHANGED <<tables, broken, cur, todo, contested>>
    BY <1>13 DEF Forget, Goto
  <2>2. \A x \in Names : AtRest(x) => listed'[x] = listed[x]
    BY <2>1
  <2>3. ASSUME NEW o \in Callers, o # c, cur[o] \notin contested, cur[o] # NoName
        PROVE  listed'[cur[o]] = listed[cur[o]]
    <3>1. cur[o] # cur[c]
      BY <2>3
    <3>2. QED
      BY <2>1, <2>3, <3>1
  <2>4. ~removed'[c] => listed[cur[c]] = NoDef
    <3>1. removed'[c] = (listed[cur[c]] # NoDef)
      BY <2>1
    <3>2. QED
      BY <3>1
  <2>5. cur[c] \notin contested => WorkTables(c)'
    BY <2>1, <2>4
  <2>6. ASSUME NEW o \in Callers, o # c, cur[o] \notin contested PROVE WorkTables(o)'
    <3>1. pc'[o] = pc[o] /\ removed'[o] = removed[o]
      BY <2>1, <2>6
    <3>2. pc[o] \in Working => cur[o] # NoName
      OBVIOUS
    <3>3. QED
      BY <2>1, <2>3, <2>6, <3>1, <3>2
  <2>7. ASSUME NEW x \in Names \ (broken \cup contested), AtRest(x)' PROVE tables'[x] = listed'[x]
    BY <2>1, <2>2, <2>7
  <2>8. QED
    BY <2>1, <2>5, <2>6, <2>7
<1>14. ASSUME NEW c \in Callers, DropSchema(c) PROVE ServedInv'
  BY <1>14 DEF DropSchema, Goto
<1>15. ASSUME NEW c \in Callers, RemoveFunctions(c) PROVE ServedInv'
  BY <1>15 DEF RemoveFunctions, Goto
<1>16. ASSUME NEW c \in Callers, Return(c) PROVE ServedInv'
  <2>1. PICK l \in {"idle", "drain"} : Leaves(c, l)
    BY <1>16, LeavesCases
  <2>2. UNCHANGED <<listed, tables, cur, broken, contested>>
    BY <2>1 DEF Leaves
  <2>3. WorkTables(c)'
    BY <2>1 DEF Leaves
  <2>4. ASSUME NEW o \in Callers, o # c, cur[o] \notin contested PROVE WorkTables(o)'
    BY <2>1, <2>2, <2>4 DEF Leaves
  <2>5. QED
    BY <2>2, <2>3, <2>4
<1>17. ASSUME NEW c \in Callers, DrainFunctions(c) PROVE ServedInv'
  BY <1>17 DEF DrainFunctions, Goto
<1>18. ASSUME NEW c \in Callers, RegisterFunction(c) PROVE ServedInv'
  BY <1>18 DEF RegisterFunction
<1>19. ASSUME NEW c \in Callers, FunctionFails(c) PROVE ServedInv'
  <2>1. PICK l \in {"idle", "drain"} : Leaves(c, l)
    BY <1>19, LeavesCases
  <2>2. UNCHANGED <<listed, tables, cur, broken, contested>>
    BY <2>1 DEF Leaves
  <2>3. WorkTables(c)'
    BY <2>1 DEF Leaves
  <2>4. ASSUME NEW o \in Callers, o # c, cur[o] \notin contested PROVE WorkTables(o)'
    BY <2>1, <2>2, <2>4 DEF Leaves
  <2>5. QED
    BY <2>2, <2>3, <2>4
<1>20. ASSUME NEW c \in Callers, Reloaded(c) PROVE ServedInv'
  <2>1. PICK l \in {"idle", "drain"} : Leaves(c, l)
    BY <1>20, LeavesCases
  <2>2. UNCHANGED <<listed, tables, cur, broken, contested>>
    BY <2>1 DEF Leaves
  <2>3. WorkTables(c)'
    BY <2>1 DEF Leaves
  <2>4. ASSUME NEW o \in Callers, o # c, cur[o] \notin contested PROVE WorkTables(o)'
    BY <2>1, <2>2, <2>4 DEF Leaves
  <2>5. QED
    BY <2>2, <2>3, <2>4
<1>21. ASSUME NEW c \in Callers, Disconnect(c) PROVE ServedInv'
  <2>1. /\ pc[c] \in {"registry", "wrap", "functions"}
        /\ pc' = [pc EXCEPT ![c] = "idle"] /\ cur' = [cur EXCEPT ![c] = NoName]
        /\ UNCHANGED <<listed, tables, contested>>
        /\ \A o \in Callers : o # c => todo'[o] = todo[o] /\ removed'[o] = removed[o]
        /\ broken \subseteq broken' /\ (pc[c] # "functions" => cur[c] \in broken')
    BY <1>21 DEF Disconnect, Finish, Goto
  <2>2. cur[c] # NoName => cur[c] \in broken'
    BY <2>1
  <2>3. \A x \in Names : AtRest(x)' => AtRest(x) \/ x \in broken'
    BY <2>1, <2>2
  <2>4. WorkTables(c)'
    BY <2>1
  <2>5. ASSUME NEW o \in Callers, o # c, cur'[o] \notin contested' PROVE WorkTables(o)'
    BY <2>1, <2>5
  <2>6. ASSUME NEW x \in Names \ (broken' \cup contested'), AtRest(x)' PROVE tables'[x] = listed'[x]
    BY <2>1, <2>3, <2>6
  <2>7. QED
    BY <2>4, <2>5, <2>6
<1>22. ASSUME Shutdown PROVE ServedInv'
  BY <1>22 DEF Shutdown
<1>23. ASSUME UNCHANGED vars PROVE ServedInv'
  BY <1>23 DEF vars
<1>24. QED
  BY <1>1, <1>2, <1>3, <1>4, <1>5, <1>6, <1>7, <1>8, <1>9, <1>9a, <1>10,
     <1>11, <1>12, <1>13, <1>14, <1>15, <1>16, <1>17, <1>18, <1>19, <1>20,
     <1>21, <1>22, <1>23, StartCases
  DEF Next, Step

(* A caller alone on a source sets its handles. *)
LEMMA HandleNext ==
    ASSUME TypeOK, WorkerInv, ServedInv, HandleInv, [Next]_vars
    PROVE  HandleInv'
<1> USE SourcesAssumption DEF TypeOK, WorkerInv, AtRest, Working, Registering, Removing, HandleInv, WorkHandles, engine, task, ghosts
<1>1. ASSUME NEW c \in Callers, NEW s \in Names, NEW d \in Defs, AddSource(c, s, d) PROVE HandleInv'
  BY <1>1 DEF AddSource, Begin, Goto, NoDefs
<1>2. ASSUME NEW c \in Callers, NEW S \in SUBSET Names, RefreshCatalog(c, S) PROVE HandleInv'
  BY <1>2 DEF RefreshCatalog, Begin, Goto
<1>3. ASSUME NEW c \in Callers, NEW s \in Names, RemoveSource(c, s) PROVE HandleInv'
  BY <1>3 DEF RemoveSource, Begin, Goto
<1>4. ASSUME NEW c \in Callers, NEW config \in [Names -> Defs \cup {NoDef}], ReloadConfig(c, config) PROVE HandleInv'
  BY <1>4 DEF ReloadConfig, Begin, Goto
<1>5. ASSUME NEW c \in Callers, Pick(c) PROVE HandleInv'
  <2>1. PICK s \in Names : Takes(c, s, "dereg")
    BY <1>5, PickCases
  <2>2. /\ cur'[c] = s /\ pc'[c] = "dereg" /\ pc[c] = "pick" /\ cur[c] = NoName
        /\ UNCHANGED <<listed, todo, broken, spawned, left>> /\ handles'[s] = 0
        /\ drained' = drained \ {s} /\ \A x \in Names : x # s => handles'[x] = handles[x]
    BY <2>1 DEF Takes
  <2>3. ASSUME NEW o \in Callers, o # c, cur'[o] \notin contested'
        PROVE  cur'[o] = cur[o] /\ pc'[o] = pc[o] /\ cur[o] # s /\ cur[o] \notin contested
    BY <2>1, <2>3 DEF Takes, Alone
  <2>4. ASSUME NEW x \in Names \ (broken' \cup contested' \cup drained'), AtRest(x)' PROVE Fits(handles'[x], listed'[x])
    <3>1. x # s /\ AtRest(x) /\ x \notin contested /\ x \notin drained
      BY <2>1, <2>4, TakesRest
    <3>2. QED
      BY <2>2, <2>4, <3>1
  <2>5. WorkHandles(c)' /\ spawned[c] = 0 /\ left[c] = 0
    BY <2>2
  <2>6. ASSUME NEW o \in Callers, o # c, cur'[o] \notin contested' PROVE WorkHandles(o)'
    <3>1. pc[o] \in Working => cur[o] \in Names
      OBVIOUS
    <3>2. QED
      BY <2>2, <2>3, <2>6, <3>1
  <2>7. \A o \in Callers : o # c => pc'[o] = pc[o]
    BY <2>1 DEF Takes
  <2>8. QED
    BY <2>2, <2>4, <2>5, <2>6, <2>7
<1>6. ASSUME NEW c \in Callers, Deregister(c) PROVE HandleInv'
  BY <1>6 DEF Deregister, Goto
<1>7. ASSUME NEW c \in Callers, RegistryOk(c) PROVE HandleInv'
  <2>1. /\ pc[c] = "registry" /\ pc' = [pc EXCEPT ![c] = "wrap"] /\ cur[c] \in Names
        /\ left' = [left EXCEPT ![c] = LoopsOf(todo[c][cur[c]])]
        /\ UNCHANGED <<listed, handles, cur, todo, spawned, broken, contested, drained>>
    BY <1>7 DEF RegistryOk, Goto
  <2>2. spawned[c] = 0 /\ left'[c] = LoopsOf(todo[c][cur[c]]) /\ LoopsOf(todo[c][cur[c]]) \in Nat
    BY <2>1, LoopsOfIs
  <2>3. Fits(spawned[c] + left'[c], todo[c][cur[c]])
    BY <2>2 DEF Fits
  <2>4. cur[c] \notin contested => WorkHandles(c)'
    BY <2>1, <2>3
  <2>5. ASSUME NEW o \in Callers, o # c, cur[o] \notin contested PROVE WorkHandles(o)'
    BY <2>1, <2>5
  <2>6. QED
    BY <2>1, <2>2, <2>4, <2>5
<1>8. ASSUME NEW c \in Callers, RegistryFails(c) PROVE HandleInv'
  BY <1>8 DEF RegistryFails, Finish, Goto
<1>9. ASSUME NEW c \in Callers, Wrap(c) PROVE HandleInv'
  <2>1. /\ pc[c] = "wrap" /\ cur[c] \in Names
        /\ UNCHANGED <<listed, tables, handles, cur, todo, broken, contested, drained>>
    BY <1>9 DEF Wrap
  <2>2. \A o \in Callers : o # c => pc'[o] = pc[o] /\ spawned'[o] = spawned[o] /\ left'[o] = left[o]
    <3>1. CASE Wrapped(c)
      BY <3>1 DEF Wrapped
    <3>2. CASE WrapsOne(c)
      BY <3>2 DEF WrapsOne
    <3>3. QED
      BY <1>9, <3>1, <3>2, WrapCases
  <2>3. ASSUME NEW o \in Callers, o # c, cur[o] \notin contested PROVE WorkHandles(o)'
    BY <2>1, <2>2, <2>3
  <2>4. CASE Wrapped(c)
    <3>1. pc'[c] = (IF spawned[c] = 0 THEN "list" ELSE "handles") /\ spawned'[c] = spawned[c] /\ left'[c] = 0
      BY <2>1, <2>4 DEF Wrapped
    <3>2. ASSUME cur[c] \notin contested PROVE WorkHandles(c)'
      <4>1. handles[cur[c]] = 0 /\ Fits(spawned[c] + left[c], todo[c][cur[c]])
        BY <2>1, <3>2
      <4>2. tables[cur[c]] # NoDef
        BY <2>1, <3>2 DEF ServedInv, WorkTables
      <4>3. left[c] = 0
        BY <2>4, <4>2 DEF Wrapped
      <4>4. spawned[c] + left[c] = spawned[c]
        BY <4>3
      <4>5. CASE spawned[c] = 0
        BY <2>1, <3>1, <4>1, <4>4, <4>5
      <4>6. CASE spawned[c] # 0
        <5>1. spawned'[c] + left'[c] = spawned[c]
          BY <3>1
        <5>2. QED
          BY <2>1, <3>1, <4>1, <4>4, <4>6, <5>1
      <4>7. QED
        BY <4>5, <4>6
    <3>3. QED
      BY <2>1, <2>2, <2>3, <3>1, <3>2, ZenonT(60)
  <2>5. CASE WrapsOne(c)
    <3>1. left'[c] = left[c] - 1 /\ spawned'[c] = spawned[c] + 1 /\ pc' = pc
      BY <2>1, <2>5 DEF WrapsOne
    <3>2. spawned'[c] + left'[c] = spawned[c] + left[c]
      BY <3>1
    <3>3. cur[c] \notin contested => WorkHandles(c)'
      BY <2>1, <3>1, <3>2
    <3>4. QED
      BY <2>1, <2>2, <2>3, <3>1, <3>3
  <2>6. QED
    BY <1>9, <2>4, <2>5, WrapCases
<1>9a. ASSUME NEW c \in Callers, WrapSkips(c) PROVE HandleInv'
  <2>1. /\ pc[c] = "wrap" /\ cur[c] \in Names /\ left[c] > 0 /\ todo[c][cur[c]] \in AttachDefs
        /\ left' = [left EXCEPT ![c] = @ - 1]
        /\ UNCHANGED <<listed, handles, pc, cur, todo, spawned, broken, contested, drained>>
    BY <1>9a DEF WrapSkips
  <2>2. left'[c] = left[c] - 1 /\ \A o \in Callers : o # c => left'[o] = left[o]
    BY <2>1
  <2>3. ASSUME cur[c] \notin contested PROVE WorkHandles(c)'
    <3>1. handles[cur[c]] = 0 /\ spawned[c] + left[c] <= LoopsOf(todo[c][cur[c]])
      BY <2>1, <2>3 DEF Fits
    <3>2. spawned[c] + left'[c] <= LoopsOf(todo[c][cur[c]])
      <4>1. spawned[c] \in Nat /\ left[c] \in Nat /\ LoopsOf(todo[c][cur[c]]) \in Nat
        BY LoopsOfIs
      <4>2. QED
        BY <2>2, <3>1, <4>1
    <3>3. Fits(spawned[c] + left'[c], todo[c][cur[c]])
      BY <2>1, <3>2 DEF Fits
    <3>4. QED
      BY <2>1, <3>1, <3>3
  <2>4. ASSUME NEW o \in Callers, o # c, cur[o] \notin contested PROVE WorkHandles(o)'
    BY <2>1, <2>2, <2>4
  <2>5. QED
    BY <2>1, <2>2, <2>3, <2>4
<1>10. ASSUME NEW c \in Callers, KeepHandles(c) PROVE HandleInv'
  BY <1>10 DEF KeepHandles, Goto
<1>11. ASSUME NEW c \in Callers, List(c) PROVE HandleInv'
  BY <1>11 DEF List, Goto
<1>12. ASSUME NEW c \in Callers, PickRemoval(c) PROVE HandleInv'
  <2>1. PICK s \in Names : Takes(c, s, "forget")
    BY <1>12, PickRemovalCases
  <2>2. /\ cur'[c] = s /\ pc'[c] = "forget" /\ pc[c] = "pick" /\ cur[c] = NoName
        /\ UNCHANGED <<listed, todo, broken, spawned, left>> /\ handles'[s] = 0
        /\ drained' = drained \ {s} /\ \A x \in Names : x # s => handles'[x] = handles[x]
    BY <2>1 DEF Takes
  <2>3. ASSUME NEW o \in Callers, o # c, cur'[o] \notin contested'
        PROVE  cur'[o] = cur[o] /\ pc'[o] = pc[o] /\ cur[o] # s /\ cur[o] \notin contested
    BY <2>1, <2>3 DEF Takes, Alone
  <2>4. ASSUME NEW x \in Names \ (broken' \cup contested' \cup drained'), AtRest(x)' PROVE Fits(handles'[x], listed'[x])
    <3>1. x # s /\ AtRest(x) /\ x \notin contested /\ x \notin drained
      BY <2>1, <2>4, TakesRest
    <3>2. QED
      BY <2>2, <2>4, <3>1
  <2>5. WorkHandles(c)' /\ spawned[c] = 0 /\ left[c] = 0
    BY <2>2
  <2>6. ASSUME NEW o \in Callers, o # c, cur'[o] \notin contested' PROVE WorkHandles(o)'
    <3>1. pc[o] \in Working => cur[o] \in Names
      OBVIOUS
    <3>2. QED
      BY <2>2, <2>3, <2>6, <3>1
  <2>7. \A o \in Callers : o # c => pc'[o] = pc[o]
    BY <2>1 DEF Takes
  <2>8. QED
    BY <2>2, <2>4, <2>5, <2>6, <2>7
<1>13. ASSUME NEW c \in Callers, Forget(c) PROVE HandleInv'
  BY <1>13 DEF Forget, Goto
<1>14. ASSUME NEW c \in Callers, DropSchema(c) PROVE HandleInv'
  BY <1>14 DEF DropSchema, Goto
<1>15. ASSUME NEW c \in Callers, RemoveFunctions(c) PROVE HandleInv'
  <2>1. /\ pc[c] = "unfunction" /\ cur[c] \in Names
        /\ pc' = [pc EXCEPT ![c] = "pick"] /\ cur' = [cur EXCEPT ![c] = NoName]
        /\ UNCHANGED <<listed, handles, todo, spawned, left, broken, contested, drained>>
    BY <1>15 DEF RemoveFunctions, Goto
  <2>2. ASSUME cur[c] \notin contested PROVE Fits(handles[cur[c]], listed[cur[c]])
    <3>1. handles[cur[c]] = 0 /\ listed[cur[c]] = NoDef
      BY <2>1, <2>2 DEF ServedInv, WorkTables
    <3>2. QED
      BY <3>1, LoopsOfIs DEF Fits
  <2>3. ASSUME NEW s \in Names \ (broken \cup contested \cup drained), AtRest(s)' PROVE Fits(handles[s], listed[s])
    <3>1. AtRest(s) \/ cur[c] = s
      BY <2>1, <2>3
    <3>2. QED
      BY <2>2, <2>3, <3>1
  <2>4. WorkHandles(c)' /\ spawned[c] = 0 /\ left[c] = 0
    BY <2>1
  <2>5. ASSUME NEW o \in Callers, o # c, cur'[o] \notin contested PROVE WorkHandles(o)'
    BY <2>1, <2>5
  <2>6. QED
    BY <2>1, <2>3, <2>4, <2>5
<1>16. ASSUME NEW c \in Callers, Return(c) PROVE HandleInv'
  <2>1. PICK l \in {"idle", "drain"} : Leaves(c, l)
    BY <1>16, LeavesCases
  <2>2. UNCHANGED <<listed, handles, cur, broken, contested, drained>> /\ pc[c] \notin Working
    BY <2>1 DEF Leaves
  <2>3. UNCHANGED <<spawned, left>> /\ \A o \in Callers : o # c => pc'[o] = pc[o] /\ todo'[o] = todo[o]
    BY <2>1, <2>2 DEF Leaves
  <2>4. WorkHandles(c)' /\ spawned[c] = 0 /\ left[c] = 0
    BY <2>1, <2>2 DEF Leaves
  <2>5. ASSUME NEW o \in Callers, o # c, cur[o] \notin contested PROVE WorkHandles(o)'
    BY <2>2, <2>3, <2>5
  <2>6. QED
    BY <2>2, <2>3, <2>4, <2>5, ZenonT(60)
<1>17. ASSUME NEW c \in Callers, DrainFunctions(c) PROVE HandleInv'
  BY <1>17 DEF DrainFunctions, Goto
<1>18. ASSUME NEW c \in Callers, RegisterFunction(c) PROVE HandleInv'
  BY <1>18 DEF RegisterFunction
<1>19. ASSUME NEW c \in Callers, FunctionFails(c) PROVE HandleInv'
  <2>1. PICK l \in {"idle", "drain"} : Leaves(c, l)
    BY <1>19, LeavesCases
  <2>2. UNCHANGED <<listed, handles, cur, broken, contested, drained>> /\ pc[c] \notin Working
    BY <2>1 DEF Leaves
  <2>3. UNCHANGED <<spawned, left>> /\ \A o \in Callers : o # c => pc'[o] = pc[o] /\ todo'[o] = todo[o]
    BY <2>1, <2>2 DEF Leaves
  <2>4. WorkHandles(c)' /\ spawned[c] = 0 /\ left[c] = 0
    BY <2>1, <2>2 DEF Leaves
  <2>5. ASSUME NEW o \in Callers, o # c, cur[o] \notin contested PROVE WorkHandles(o)'
    BY <2>2, <2>3, <2>5
  <2>6. QED
    BY <2>2, <2>3, <2>4, <2>5, ZenonT(60)
<1>20. ASSUME NEW c \in Callers, Reloaded(c) PROVE HandleInv'
  <2>1. PICK l \in {"idle", "drain"} : Leaves(c, l)
    BY <1>20, LeavesCases
  <2>2. UNCHANGED <<listed, handles, cur, broken, contested, drained>> /\ pc[c] \notin Working
    BY <2>1 DEF Leaves
  <2>3. UNCHANGED <<spawned, left>> /\ \A o \in Callers : o # c => pc'[o] = pc[o] /\ todo'[o] = todo[o]
    BY <2>1, <2>2 DEF Leaves
  <2>4. WorkHandles(c)' /\ spawned[c] = 0 /\ left[c] = 0
    BY <2>1, <2>2 DEF Leaves
  <2>5. ASSUME NEW o \in Callers, o # c, cur[o] \notin contested PROVE WorkHandles(o)'
    BY <2>2, <2>3, <2>5
  <2>6. QED
    BY <2>2, <2>3, <2>4, <2>5, ZenonT(60)
<1>21. ASSUME NEW c \in Callers, Disconnect(c) PROVE HandleInv'
  BY <1>21, ZenonT(60) DEF Disconnect, Finish, Goto
<1>22. ASSUME Shutdown PROVE HandleInv'
  BY <1>22 DEF Shutdown
<1>23. ASSUME UNCHANGED vars PROVE HandleInv'
  BY <1>23 DEF vars
<1>24. QED
  BY <1>1, <1>2, <1>3, <1>4, <1>5, <1>6, <1>7, <1>8, <1>9, <1>9a, <1>10,
     <1>11, <1>12, <1>13, <1>14, <1>15, <1>16, <1>17, <1>18, <1>19, <1>20,
     <1>21, <1>22, <1>23, StartCases
  DEF Next, Step

(* A refresher without a handle takes two callers or a dropped handler. *)
LEMMA LeakNext ==
    ASSUME TypeOK, WorkerInv, HandleInv, LeakInv, [Next]_vars
    PROVE  LeakInv'
<1> USE SourcesAssumption DEF TypeOK, WorkerInv, AtRest, Working, Registering, Removing, LeakInv, engine, task, ghosts
<1>1. ASSUME NEW c \in Callers, NEW s \in Names, NEW d \in Defs, AddSource(c, s, d) PROVE LeakInv'
  BY <1>1 DEF AddSource, Begin, Goto, NoDefs
<1>2. ASSUME NEW c \in Callers, NEW S \in SUBSET Names, RefreshCatalog(c, S) PROVE LeakInv'
  BY <1>2 DEF RefreshCatalog, Begin, Goto
<1>3. ASSUME NEW c \in Callers, NEW s \in Names, RemoveSource(c, s) PROVE LeakInv'
  BY <1>3 DEF RemoveSource, Begin, Goto
<1>4. ASSUME NEW c \in Callers, NEW config \in [Names -> Defs \cup {NoDef}], ReloadConfig(c, config) PROVE LeakInv'
  BY <1>4 DEF ReloadConfig, Begin, Goto
<1>5. ASSUME NEW c \in Callers, Pick(c) PROVE LeakInv'
  <2>1. PICK s \in Names : Takes(c, s, "dereg")
    BY <1>5, PickCases
  <2>2. /\ cur'[c] = s /\ pc[c] = "pick" /\ cur[c] = NoName /\ spawned' = spawned /\ spawned[c] = 0
        /\ \A o \in Callers : o # c => cur'[o] = cur[o]
    BY <2>1 DEF Takes, HandleInv
  <2>3. ASSUME NEW x \in Names \ strayed', x # s
        PROVE  /\ AtRest(x)' => loops'[x] = handles'[x]
               /\ \A o \in Callers : cur'[o] = x => loops'[x] = handles'[x] + spawned'[o]
    <3>1. x \notin strayed /\ loops'[x] = loops[x] /\ handles'[x] = handles[x] /\ (AtRest(x)' => AtRest(x))
      BY <2>1, <2>2, <2>3 DEF Takes
    <3>2. QED
      BY <2>2, <2>3, <3>1
  <2>4. ASSUME s \notin strayed'
        PROVE  ~AtRest(s)' /\ \A o \in Callers : cur'[o] = s => loops'[s] = handles'[s] + spawned'[o]
    <3>1. Alone(c, s) /\ s \notin strayed
      BY <2>1, <2>4 DEF Takes
    <3>2. AtRest(s) /\ \A o \in Callers : cur'[o] = s => o = c
      BY <2>2, <3>1 DEF Alone
    <3>3. loops[s] = handles[s]
      BY <3>1, <3>2
    <3>4. loops'[s] = 0 /\ handles'[s] = 0
      BY <2>1, <3>3 DEF Takes
    <3>5. QED
      BY <2>2, <3>2, <3>4
  <2>5. QED
    BY <2>3, <2>4, ZenonT(60)
<1>6. ASSUME NEW c \in Callers, Deregister(c) PROVE LeakInv'
  BY <1>6 DEF Deregister, Goto
<1>7. ASSUME NEW c \in Callers, RegistryOk(c) PROVE LeakInv'
  BY <1>7 DEF RegistryOk, Goto
<1>8. ASSUME NEW c \in Callers, RegistryFails(c) PROVE LeakInv'
  <2>1. /\ pc[c] = "registry" /\ cur' = [cur EXCEPT ![c] = NoName] /\ spawned' = [spawned EXCEPT ![c] = 0]
        /\ UNCHANGED <<loops, handles, strayed>>
    BY <1>8 DEF RegistryFails, Finish
  <2>2. spawned[c] = 0 /\ spawned' = spawned
    <3>1. spawned[c] = 0
      BY <2>1 DEF HandleInv
    <3>2. QED
      BY <2>1, <3>1
  <2>3. ASSUME NEW s \in Names \ strayed, AtRest(s)' PROVE loops[s] = handles[s]
    <3>1. AtRest(s) \/ cur[c] = s
      BY <2>1, <2>3
    <3>2. QED
      BY <2>2, <3>1
  <2>4. ASSUME NEW s \in Names \ strayed, NEW o \in Callers, cur'[o] = s PROVE cur[o] = s
    BY <2>1, <2>4
  <2>5. QED
    BY <2>1, <2>2, <2>3, <2>4
<1>9. ASSUME NEW c \in Callers, Wrap(c) PROVE LeakInv'
  <2>1. pc[c] = "wrap" /\ cur[c] \in Names /\ UNCHANGED <<handles, cur, strayed>>
    BY <1>9 DEF Wrap
  <2>2. CASE Wrapped(c)
    BY <2>1, <2>2 DEF Wrapped
  <2>3. CASE WrapsOne(c)
    <3>1. loops'[cur[c]] = loops[cur[c]] + 1 /\ \A x \in Names : x # cur[c] => loops'[x] = loops[x]
      BY <2>1, <2>3 DEF WrapsOne
    <3>2. spawned'[c] = spawned[c] + 1 /\ \A o \in Callers : o # c => spawned'[o] = spawned[o]
      BY <2>3 DEF WrapsOne
    <3>3. ASSUME NEW s \in Names \ strayed, AtRest(s) PROVE loops'[s] = handles[s]
      <4>1. s # cur[c] /\ loops[s] = handles[s]
        BY <3>3
      <4>2. QED
        BY <3>1, <4>1
    <3>4. ASSUME NEW s \in Names \ strayed, NEW o \in Callers, cur[o] = s
          PROVE  loops'[s] = handles[s] + spawned'[o]
      <4>1. loops[s] = handles[s] + spawned[o]
        BY <3>4
      <4>2. CASE o = c
        <5>1. loops'[s] = loops[s] + 1 /\ spawned'[o] = spawned[o] + 1
          BY <3>1, <3>2, <3>4, <4>2
        <5>2. handles[s] \in Nat /\ spawned[o] \in Nat
          OBVIOUS
        <5>3. QED
          BY <4>1, <5>1, <5>2
      <4>3. CASE o # c
        <5>1. cur[c] # s
          BY <2>1, <3>4, <4>3
        <5>2. QED
          BY <3>1, <3>2, <4>1, <4>3, <5>1
      <4>4. QED
        BY <4>2, <4>3
    <3>5. QED
      BY <2>1, <3>3, <3>4
  <2>4. QED
    BY <1>9, <2>2, <2>3, WrapCases
<1>9a. ASSUME NEW c \in Callers, WrapSkips(c) PROVE LeakInv'
  BY <1>9a DEF WrapSkips
<1>10. ASSUME NEW c \in Callers, KeepHandles(c) PROVE LeakInv'
  <2>1. pc[c] = "handles" /\ cur[c] \in Names /\ UNCHANGED <<loops, cur, strayed>>
    BY <1>10 DEF KeepHandles
  <2>2. handles'[cur[c]] = spawned[c] /\ \A x \in Names : x # cur[c] => handles'[x] = handles[x]
    BY <1>10, <2>1 DEF KeepHandles
  <2>3. spawned'[c] = 0 /\ \A o \in Callers : o # c => spawned'[o] = spawned[o]
    BY <1>10 DEF KeepHandles
  <2>4. ASSUME cur[c] \notin strayed PROVE loops[cur[c]] = handles'[cur[c]] + spawned'[c]
    <3>1. handles[cur[c]] = 0
      BY <2>1, <2>4 DEF HandleInv, WorkHandles
    <3>2. loops[cur[c]] = 0 + spawned[c] /\ spawned[c] \in Nat
      BY <2>1, <2>4, <3>1
    <3>3. QED
      BY <2>2, <2>3, <3>2
  <2>5. ASSUME NEW s \in Names \ strayed, AtRest(s) PROVE loops[s] = handles'[s]
    BY <2>2, <2>5
  <2>6. ASSUME NEW s \in Names \ strayed, NEW o \in Callers, cur[o] = s PROVE loops[s] = handles'[s] + spawned'[o]
    <3>1. CASE o = c
      BY <2>4, <2>6, <3>1
    <3>2. CASE o # c
      <4>1. cur[c] # s
        BY <2>1, <2>6, <3>2
      <4>2. QED
        BY <2>2, <2>3, <2>6, <3>2, <4>1
    <3>3. QED
      BY <3>1, <3>2
  <2>7. QED
    BY <2>1, <2>5, <2>6
<1>11. ASSUME NEW c \in Callers, List(c) PROVE LeakInv'
  <2>1. pc[c] = "list" /\ cur' = [cur EXCEPT ![c] = NoName] /\ UNCHANGED <<loops, handles, spawned, strayed>>
    BY <1>11 DEF List
  <2>2. spawned[c] = 0
    BY <2>1 DEF HandleInv
  <2>3. ASSUME NEW s \in Names \ strayed, AtRest(s)' PROVE loops[s] = handles[s]
    <3>1. AtRest(s) \/ cur[c] = s
      BY <2>1, <2>3
    <3>2. QED
      BY <2>2, <3>1
  <2>4. ASSUME NEW s \in Names \ strayed, NEW o \in Callers, cur'[o] = s PROVE cur[o] = s
    BY <2>1, <2>4
  <2>5. QED
    BY <2>1, <2>3, <2>4
<1>12. ASSUME NEW c \in Callers, PickRemoval(c) PROVE LeakInv'
  <2>1. PICK s \in Names : Takes(c, s, "forget")
    BY <1>12, PickRemovalCases
  <2>2. /\ cur'[c] = s /\ pc[c] = "pick" /\ cur[c] = NoName /\ spawned' = spawned /\ spawned[c] = 0
        /\ \A o \in Callers : o # c => cur'[o] = cur[o]
    BY <2>1 DEF Takes, HandleInv
  <2>3. ASSUME NEW x \in Names \ strayed', x # s
        PROVE  /\ AtRest(x)' => loops'[x] = handles'[x]
               /\ \A o \in Callers : cur'[o] = x => loops'[x] = handles'[x] + spawned'[o]
    <3>1. x \notin strayed /\ loops'[x] = loops[x] /\ handles'[x] = handles[x] /\ (AtRest(x)' => AtRest(x))
      BY <2>1, <2>2, <2>3 DEF Takes
    <3>2. QED
      BY <2>2, <2>3, <3>1
  <2>4. ASSUME s \notin strayed'
        PROVE  ~AtRest(s)' /\ \A o \in Callers : cur'[o] = s => loops'[s] = handles'[s] + spawned'[o]
    <3>1. Alone(c, s) /\ s \notin strayed
      BY <2>1, <2>4 DEF Takes
    <3>2. AtRest(s) /\ \A o \in Callers : cur'[o] = s => o = c
      BY <2>2, <3>1 DEF Alone
    <3>3. loops[s] = handles[s]
      BY <3>1, <3>2
    <3>4. loops'[s] = 0 /\ handles'[s] = 0
      BY <2>1, <3>3 DEF Takes
    <3>5. QED
      BY <2>2, <3>2, <3>4
  <2>5. QED
    BY <2>3, <2>4, ZenonT(60)
<1>13. ASSUME NEW c \in Callers, Forget(c) PROVE LeakInv'
  BY <1>13 DEF Forget, Goto
<1>14. ASSUME NEW c \in Callers, DropSchema(c) PROVE LeakInv'
  BY <1>14 DEF DropSchema, Goto
<1>15. ASSUME NEW c \in Callers, RemoveFunctions(c) PROVE LeakInv'
  <2>1. pc[c] = "unfunction" /\ cur' = [cur EXCEPT ![c] = NoName] /\ UNCHANGED <<loops, handles, spawned, strayed>>
    BY <1>15 DEF RemoveFunctions
  <2>2. spawned[c] = 0
    BY <2>1 DEF HandleInv
  <2>3. ASSUME NEW s \in Names \ strayed, AtRest(s)' PROVE loops[s] = handles[s]
    <3>1. AtRest(s) \/ cur[c] = s
      BY <2>1, <2>3
    <3>2. QED
      BY <2>2, <3>1
  <2>4. ASSUME NEW s \in Names \ strayed, NEW o \in Callers, cur'[o] = s PROVE cur[o] = s
    BY <2>1, <2>4
  <2>5. QED
    BY <2>1, <2>3, <2>4
<1>16. ASSUME NEW c \in Callers, Return(c) PROVE LeakInv'
  <2>1. PICK l \in {"idle", "drain"} : Leaves(c, l)
    BY <1>16, LeavesCases
  <2>2. UNCHANGED <<loops, handles, cur, strayed>> /\ pc[c] \notin Working
    BY <2>1 DEF Leaves
  <2>3. spawned[c] = 0 /\ left[c] = 0
    BY <2>2 DEF HandleInv
  <2>4. spawned' = spawned
    BY <2>1, <2>3 DEF Leaves
  <2>5. QED
    BY <2>2, <2>4
<1>17. ASSUME NEW c \in Callers, DrainFunctions(c) PROVE LeakInv'
  BY <1>17 DEF DrainFunctions, Goto
<1>18. ASSUME NEW c \in Callers, RegisterFunction(c) PROVE LeakInv'
  BY <1>18 DEF RegisterFunction
<1>19. ASSUME NEW c \in Callers, FunctionFails(c) PROVE LeakInv'
  <2>1. PICK l \in {"idle", "drain"} : Leaves(c, l)
    BY <1>19, LeavesCases
  <2>2. UNCHANGED <<loops, handles, cur, strayed>> /\ pc[c] \notin Working
    BY <2>1 DEF Leaves
  <2>3. spawned[c] = 0 /\ left[c] = 0
    BY <2>2 DEF HandleInv
  <2>4. spawned' = spawned
    BY <2>1, <2>3 DEF Leaves
  <2>5. QED
    BY <2>2, <2>4
<1>20. ASSUME NEW c \in Callers, Reloaded(c) PROVE LeakInv'
  <2>1. PICK l \in {"idle", "drain"} : Leaves(c, l)
    BY <1>20, LeavesCases
  <2>2. UNCHANGED <<loops, handles, cur, strayed>> /\ pc[c] \notin Working
    BY <2>1 DEF Leaves
  <2>3. spawned[c] = 0 /\ left[c] = 0
    BY <2>2 DEF HandleInv
  <2>4. spawned' = spawned
    BY <2>1, <2>3 DEF Leaves
  <2>5. QED
    BY <2>2, <2>4
<1>21. ASSUME NEW c \in Callers, Disconnect(c) PROVE LeakInv'
  BY <1>21 DEF Disconnect, Finish, Goto
<1>22. ASSUME Shutdown PROVE LeakInv'
  <2>1. \A x \in Names : loops'[x] = loops[x] - handles[x] /\ handles'[x] = 0
    BY <1>22 DEF Shutdown
  <2>2. UNCHANGED <<cur, spawned, strayed>>
    BY <1>22 DEF Shutdown
  <2>3. ASSUME NEW x \in Names \ strayed, AtRest(x) PROVE loops'[x] = handles'[x]
    <3>1. loops[x] = handles[x] /\ handles[x] \in Nat
      BY <2>3
    <3>2. QED
      BY <2>1, <3>1
  <2>4. ASSUME NEW x \in Names \ strayed, NEW o \in Callers, cur[o] = x PROVE loops'[x] = handles'[x] + spawned[o]
    <3>1. loops[x] = handles[x] + spawned[o] /\ handles[x] \in Nat /\ spawned[o] \in Nat
      BY <2>4
    <3>2. QED
      BY <2>1, <3>1
  <2>5. QED
    BY <2>2, <2>3, <2>4
<1>23. ASSUME UNCHANGED vars PROVE LeakInv'
  BY <1>23 DEF vars
<1>24. QED
  BY <1>1, <1>2, <1>3, <1>4, <1>5, <1>6, <1>7, <1>8, <1>9, <1>9a, <1>10,
     <1>11, <1>12, <1>13, <1>14, <1>15, <1>16, <1>17, <1>18, <1>19, <1>20,
     <1>21, <1>22, <1>23, StartCases
  DEF Next, Step

(* Whoever takes a source tells the reloads under way. *)
LEMMA TouchNext ==
    ASSUME TypeOK, WorkerInv, TouchInv, [Next]_vars
    PROVE  TouchInv'
<1> USE SourcesAssumption DEF TypeOK, WorkerInv, TouchInv, Working, Registering, Removing, engine, task, ghosts
<1>1. ASSUME NEW c \in Callers, NEW s \in Names, NEW d \in Defs, AddSource(c, s, d) PROVE TouchInv'
  BY <1>1 DEF AddSource, Begin, Goto, NoDefs
<1>2. ASSUME NEW c \in Callers, NEW S \in SUBSET Names, RefreshCatalog(c, S) PROVE TouchInv'
  BY <1>2 DEF RefreshCatalog, Begin, Goto
<1>3. ASSUME NEW c \in Callers, NEW s \in Names, RemoveSource(c, s) PROVE TouchInv'
  BY <1>3 DEF RemoveSource, Begin, Goto
<1>4. ASSUME NEW c \in Callers, NEW config \in [Names -> Defs \cup {NoDef}], ReloadConfig(c, config) PROVE TouchInv'
  <2>1. /\ op' = [op EXCEPT ![c] = "reload"] /\ cur' = cur
        /\ touched' = [touched EXCEPT ![c] = Others(c)]
    BY <1>4 DEF ReloadConfig, Begin
  <2>2. \A o \in Callers : o # c /\ cur[o] # NoName => cur[o] \in Others(c)
    BY DEF Others
  <2>3. QED
    BY <2>1, <2>2
<1>5. ASSUME NEW c \in Callers, Pick(c) PROVE TouchInv'
  BY <1>5 DEF Pick, Pending, AbortRefreshers, Touch, TakeUp, Goto
<1>6. ASSUME NEW c \in Callers, Deregister(c) PROVE TouchInv'
  BY <1>6 DEF Deregister, Goto
<1>7. ASSUME NEW c \in Callers, RegistryOk(c) PROVE TouchInv'
  BY <1>7 DEF RegistryOk, Goto
<1>8. ASSUME NEW c \in Callers, RegistryFails(c) PROVE TouchInv'
  BY <1>8 DEF RegistryFails, Finish, Goto
<1>9. ASSUME NEW c \in Callers, Wrap(c) PROVE TouchInv'
  BY <1>9 DEF Wrap, Goto
<1>9a. ASSUME NEW c \in Callers, WrapSkips(c) PROVE TouchInv'
  BY <1>9a DEF WrapSkips
<1>10. ASSUME NEW c \in Callers, KeepHandles(c) PROVE TouchInv'
  BY <1>10 DEF KeepHandles, Goto
<1>11. ASSUME NEW c \in Callers, List(c) PROVE TouchInv'
  BY <1>11 DEF List, Goto
<1>12. ASSUME NEW c \in Callers, PickRemoval(c) PROVE TouchInv'
  BY <1>12 DEF PickRemoval, AbortRefreshers, Touch, TakeUp, Goto
<1>13. ASSUME NEW c \in Callers, Forget(c) PROVE TouchInv'
  BY <1>13 DEF Forget, Goto
<1>14. ASSUME NEW c \in Callers, DropSchema(c) PROVE TouchInv'
  BY <1>14 DEF DropSchema, Goto
<1>15. ASSUME NEW c \in Callers, RemoveFunctions(c) PROVE TouchInv'
  BY <1>15 DEF RemoveFunctions, Goto
<1>16. ASSUME NEW c \in Callers, Return(c) PROVE TouchInv'
  BY <1>16 DEF Return, Finish, Goto, Pending
<1>17. ASSUME NEW c \in Callers, DrainFunctions(c) PROVE TouchInv'
  BY <1>17 DEF DrainFunctions, Goto
<1>18. ASSUME NEW c \in Callers, RegisterFunction(c) PROVE TouchInv'
  BY <1>18 DEF RegisterFunction
<1>19. ASSUME NEW c \in Callers, FunctionFails(c) PROVE TouchInv'
  BY <1>19 DEF FunctionFails, Finish, Goto
<1>20. ASSUME NEW c \in Callers, Reloaded(c) PROVE TouchInv'
  BY <1>20 DEF Reloaded, Finish, Goto
<1>21. ASSUME NEW c \in Callers, Disconnect(c) PROVE TouchInv'
  BY <1>21 DEF Disconnect, Finish, Goto
<1>22. ASSUME Shutdown PROVE TouchInv'
  BY <1>22 DEF Shutdown
<1>23. ASSUME UNCHANGED vars PROVE TouchInv'
  BY <1>23 DEF vars
<1>24. QED
  BY <1>1, <1>2, <1>3, <1>4, <1>5, <1>6, <1>7, <1>8, <1>9, <1>9a, <1>10,
     <1>11, <1>12, <1>13, <1>14, <1>15, <1>16, <1>17, <1>18, <1>19, <1>20,
     <1>21, <1>22, <1>23, StartCases
  DEF Next, Step

(* A removal finishes before its source is crossed off. *)
LEMMA GoneNext ==
    ASSUME TypeOK, WorkerInv, GoneInv, [Next]_vars
    PROVE  GoneInv'
<1> USE SourcesAssumption DEF TypeOK, WorkerInv, GoneInv, Working, Registering, Removing, engine, task, ghosts
<1>1. ASSUME NEW c \in Callers, NEW s \in Names, NEW d \in Defs, AddSource(c, s, d) PROVE GoneInv'
  BY <1>1 DEF AddSource, Begin, Goto, NoDefs
<1>2. ASSUME NEW c \in Callers, NEW S \in SUBSET Names, RefreshCatalog(c, S) PROVE GoneInv'
  BY <1>2 DEF RefreshCatalog, Begin, Goto
<1>3. ASSUME NEW c \in Callers, NEW s \in Names, RemoveSource(c, s) PROVE GoneInv'
  BY <1>3 DEF RemoveSource, Begin, Goto
<1>4. ASSUME NEW c \in Callers, NEW config \in [Names -> Defs \cup {NoDef}], ReloadConfig(c, config) PROVE GoneInv'
  BY <1>4 DEF ReloadConfig, Begin, Goto
<1>5. ASSUME NEW c \in Callers, Pick(c) PROVE GoneInv'
  BY <1>5 DEF Pick, Pending, AbortRefreshers, Touch, TakeUp, Goto
<1>6. ASSUME NEW c \in Callers, Deregister(c) PROVE GoneInv'
  BY <1>6 DEF Deregister, Goto
<1>7. ASSUME NEW c \in Callers, RegistryOk(c) PROVE GoneInv'
  BY <1>7 DEF RegistryOk, Goto
<1>8. ASSUME NEW c \in Callers, RegistryFails(c) PROVE GoneInv'
  BY <1>8 DEF RegistryFails, Finish, Goto
<1>9. ASSUME NEW c \in Callers, Wrap(c) PROVE GoneInv'
  BY <1>9 DEF Wrap, Goto
<1>9a. ASSUME NEW c \in Callers, WrapSkips(c) PROVE GoneInv'
  BY <1>9a DEF WrapSkips
<1>10. ASSUME NEW c \in Callers, KeepHandles(c) PROVE GoneInv'
  BY <1>10 DEF KeepHandles, Goto
<1>11. ASSUME NEW c \in Callers, List(c) PROVE GoneInv'
  BY <1>11 DEF List, Goto
<1>12. ASSUME NEW c \in Callers, PickRemoval(c) PROVE GoneInv'
  <2>1. PICK s \in gone[c] : cur' = [cur EXCEPT ![c] = s]
    BY <1>12 DEF PickRemoval, TakeUp
  <2>2. /\ pc' = [pc EXCEPT ![c] = "forget"] /\ UNCHANGED <<todo, gone>>
        /\ \A x \in Names : todo[c][x] = NoDef
    BY <1>12 DEF PickRemoval, Pending, Goto
  <2>3. QED
    BY <2>1, <2>2
<1>13. ASSUME NEW c \in Callers, Forget(c) PROVE GoneInv'
  BY <1>13 DEF Forget, Goto
<1>14. ASSUME NEW c \in Callers, DropSchema(c) PROVE GoneInv'
  BY <1>14 DEF DropSchema, Goto
<1>15. ASSUME NEW c \in Callers, RemoveFunctions(c) PROVE GoneInv'
  BY <1>15 DEF RemoveFunctions, Goto
<1>16. ASSUME NEW c \in Callers, Return(c) PROVE GoneInv'
  BY <1>16 DEF Return, Finish, Goto, Pending
<1>17. ASSUME NEW c \in Callers, DrainFunctions(c) PROVE GoneInv'
  BY <1>17 DEF DrainFunctions, Goto
<1>18. ASSUME NEW c \in Callers, RegisterFunction(c) PROVE GoneInv'
  BY <1>18 DEF RegisterFunction
<1>19. ASSUME NEW c \in Callers, FunctionFails(c) PROVE GoneInv'
  BY <1>19 DEF FunctionFails, Finish, Goto
<1>20. ASSUME NEW c \in Callers, Reloaded(c) PROVE GoneInv'
  BY <1>20 DEF Reloaded, Finish, Goto
<1>21. ASSUME NEW c \in Callers, Disconnect(c) PROVE GoneInv'
  BY <1>21 DEF Disconnect, Finish, Goto
<1>22. ASSUME Shutdown PROVE GoneInv'
  BY <1>22 DEF Shutdown
<1>23. ASSUME UNCHANGED vars PROVE GoneInv'
  BY <1>23 DEF vars
<1>24. QED
  BY <1>1, <1>2, <1>3, <1>4, <1>5, <1>6, <1>7, <1>8, <1>9, <1>9a, <1>10,
     <1>11, <1>12, <1>13, <1>14, <1>15, <1>16, <1>17, <1>18, <1>19, <1>20,
     <1>21, <1>22, <1>23, StartCases
  DEF Next, Step

(* A reload's list of things to do stays complete. *)
LEMMA ReloadNext ==
    ASSUME TypeOK, WorkerInv, ServedInv, TouchInv, GoneInv, ReloadInv, [Next]_vars
    PROVE  ReloadInv'
<1> USE SourcesAssumption DEF TypeOK, WorkerInv, TouchInv, ReloadInv, Working, Registering, Removing, engine, task, ghosts
<1>1. ASSUME NEW c \in Callers, NEW s \in Names, NEW d \in Defs, AddSource(c, s, d) PROVE ReloadInv'
  BY <1>1 DEF AddSource, Begin, Goto, NoDefs
<1>2. ASSUME NEW c \in Callers, NEW S \in SUBSET Names, RefreshCatalog(c, S) PROVE ReloadInv'
  BY <1>2 DEF RefreshCatalog, Begin, Goto
<1>3. ASSUME NEW c \in Callers, NEW s \in Names, RemoveSource(c, s) PROVE ReloadInv'
  BY <1>3 DEF RemoveSource, Begin, Goto
<1>4. ASSUME NEW c \in Callers, NEW config \in [Names -> Defs \cup {NoDef}], ReloadConfig(c, config) PROVE ReloadInv'
  BY <1>4 DEF ReloadConfig, Begin, Goto
<1>5. ASSUME NEW c \in Callers, Pick(c) PROVE ReloadInv'
  BY <1>5 DEF Pick, Pending, AbortRefreshers, Touch, TakeUp, Goto
<1>6. ASSUME NEW c \in Callers, Deregister(c) PROVE ReloadInv'
  BY <1>6 DEF Deregister, Goto
<1>7. ASSUME NEW c \in Callers, RegistryOk(c) PROVE ReloadInv'
  BY <1>7 DEF RegistryOk, Goto
<1>8. ASSUME NEW c \in Callers, RegistryFails(c) PROVE ReloadInv'
  BY <1>8 DEF RegistryFails, Finish, Goto
<1>9. ASSUME NEW c \in Callers, Wrap(c) PROVE ReloadInv'
  BY <1>9 DEF Wrap, Goto
<1>9a. ASSUME NEW c \in Callers, WrapSkips(c) PROVE ReloadInv'
  BY <1>9a DEF WrapSkips
<1>10. ASSUME NEW c \in Callers, KeepHandles(c) PROVE ReloadInv'
  BY <1>10 DEF KeepHandles, Goto
<1>11. ASSUME NEW c \in Callers, List(c) PROVE ReloadInv'
  BY <1>11 DEF List, Goto
<1>12. ASSUME NEW c \in Callers, PickRemoval(c) PROVE ReloadInv'
  BY <1>12 DEF PickRemoval, AbortRefreshers, Touch, TakeUp, Goto
<1>13. ASSUME NEW c \in Callers, Forget(c) PROVE ReloadInv'
  <2>1. /\ pc[c] = "forget" /\ pc' = [pc EXCEPT ![c] = "schema"]
        /\ listed' = [listed EXCEPT ![cur[c]] = NoDef]
        /\ UNCHANGED <<op, cur, todo, gone, conf, touched>>
    BY <1>13 DEF Forget, Goto
  <2>2. \A x \in Names : x # cur[c] => listed'[x] = listed[x]
    BY <2>1
  <2>3. listed'[cur[c]] = NoDef
    BY <2>1
  <2>4. \A o \in Callers : o # c /\ op[o] = "reload" => cur[c] \in touched[o]
    BY <2>1
  <2>5. ASSUME NEW o \in Callers, o # c, op[o] = "reload", NEW x \in Names \ touched[o] PROVE listed'[x] = listed[x]
    BY <2>2, <2>4, <2>5
  <2>6. pc'[c] = "schema" /\ \A o \in Callers : o # c => pc'[o] = pc[o]
    BY <2>1
  <2>7. ASSUME op[c] = "reload" PROVE cur[c] \notin touched[c] => conf[c][cur[c]] = NoDef
    BY <2>1, <2>7, ZenonT(60) DEF GoneInv
  <2>8. QED
    BY <2>1, <2>2, <2>3, <2>5, <2>6, <2>7
<1>14. ASSUME NEW c \in Callers, DropSchema(c) PROVE ReloadInv'
  BY <1>14 DEF DropSchema, Goto
<1>15. ASSUME NEW c \in Callers, RemoveFunctions(c) PROVE ReloadInv'
  <2>1. /\ pc[c] = "unfunction" /\ pc' = [pc EXCEPT ![c] = "pick"]
        /\ gone' = [gone EXCEPT ![c] = @ \ {cur[c]}]
        /\ cur' = [cur EXCEPT ![c] = NoName]
        /\ UNCHANGED <<listed, op, todo, conf, touched>>
    BY <1>15 DEF RemoveFunctions, Goto
  <2>2. op[c] = "reload" /\ cur[c] \notin touched[c] => listed[cur[c]] = NoDef
    BY <2>1
  <2>3. cur[c] \in gone[c]
    BY <2>1 DEF GoneInv
  <2>4. pc'[c] = "pick" /\ gone'[c] = gone[c] \ {cur[c]}
    BY <2>1
  <2>5. \A o \in Callers : o # c => pc'[o] = pc[o] /\ gone'[o] = gone[o] /\ cur'[o] = cur[o]
    BY <2>1
  <2>6. ASSUME op[c] = "reload", NEW s \in Names \ touched[c]
        PROVE  /\ todo[c][s] # NoDef => todo[c][s] = conf[c][s]
               /\ s \in gone'[c] => conf[c][s] = NoDef
               /\ todo[c][s] = NoDef /\ s \notin gone'[c] => listed[s] = conf[c][s]
    <3>1. CASE s = cur[c]
      BY <2>1, <2>2, <2>3, <2>4, <2>6, <3>1
    <3>2. CASE s # cur[c]
      BY <2>1, <2>4, <2>6, <3>2
    <3>3. QED
      BY <3>1, <3>2
  <2>7. QED
    BY <2>1, <2>4, <2>5, <2>6
<1>16. ASSUME NEW c \in Callers, Return(c) PROVE ReloadInv'
  BY <1>16 DEF Return, Finish, Goto, Pending
<1>17. ASSUME NEW c \in Callers, DrainFunctions(c) PROVE ReloadInv'
  BY <1>17 DEF DrainFunctions, Goto
<1>18. ASSUME NEW c \in Callers, RegisterFunction(c) PROVE ReloadInv'
  BY <1>18 DEF RegisterFunction
<1>19. ASSUME NEW c \in Callers, FunctionFails(c) PROVE ReloadInv'
  BY <1>19 DEF FunctionFails, Finish, Goto
<1>20. ASSUME NEW c \in Callers, Reloaded(c) PROVE ReloadInv'
  BY <1>20 DEF Reloaded, Finish, Goto
<1>21. ASSUME NEW c \in Callers, Disconnect(c) PROVE ReloadInv'
  BY <1>21 DEF Disconnect, Finish, Goto
<1>22. ASSUME Shutdown PROVE ReloadInv'
  BY <1>22 DEF Shutdown
<1>23. ASSUME UNCHANGED vars PROVE ReloadInv'
  BY <1>23 DEF vars
<1>24. QED
  BY <1>1, <1>2, <1>3, <1>4, <1>5, <1>6, <1>7, <1>8, <1>9, <1>9a, <1>10,
     <1>11, <1>12, <1>13, <1>14, <1>15, <1>16, <1>17, <1>18, <1>19, <1>20,
     <1>21, <1>22, <1>23, StartCases
  DEF Next, Step

-----------------------------------------------------------------------------
(* The inductive invariant, and what follows from it.                      *)

LEMMA IInvInit == Init => IInv
<1> SUFFICES ASSUME Init PROVE IInv
  OBVIOUS
<1> USE SourcesAssumption, LoopsOfIs DEF Init
<1>1. TypeOK
  <2>1. loops \in [Names -> Int] /\ handles \in [Names -> Nat]
    BY LoopsOfIs
  <2>2. QED
    BY <2>1 DEF TypeOK, NoDefs, Pcs
<1>2. WorkerInv
  BY DEF WorkerInv, Working, Registering, Removing
<1>3. ServedInv
  BY DEF ServedInv, WorkTables
<1>4. HandleInv /\ LeakInv
  BY DEF HandleInv, WorkHandles, LeakInv, Fits, Working, Registering, Removing
<1>5. TouchInv /\ GoneInv /\ ReloadInv
  BY DEF TouchInv, GoneInv, ReloadInv, Removing
<1>6. QED
  BY <1>1, <1>2, <1>3, <1>4, <1>5 DEF IInv

LEMMA IInvNext == IInv /\ [Next]_vars => IInv'
BY TypeNext, WorkerNext, ServedNext, HandleNext, LeakNext, TouchNext, GoneNext, ReloadNext DEF IInv

(* Two callers on one source are known to be, what a caller alone on it    *)
(* has done tells what the list, the catalog and the handles have of the   *)
(* source, and every difference between the list and the configuration of  *)
(* a reload under way is on the reload's list of things to do or was       *)
(* touched by another caller.                                              *)
THEOREM Invariance == Spec => []IInv
<1>1. IInv /\ [Next]_vars => IInv'
  BY IInvNext
<1>2. QED
  BY <1>1, IInvInit, PTL DEF Spec

(* The source list and the catalog agree on every source nobody works on,  *)
(* unless its last registration did not complete, or callers overlapped on *)
(* it and none has worked on it alone since: also when other registrars    *)
(* fail, handlers are dropped, or the engine is shut down.                 *)
THEOREM ListMatchesCatalog == Spec => []ServedAsListed
<1>1. IInv => ServedAsListed
  BY DEF IInv, ServedInv, ServedAsListed
<1>2. QED
  BY <1>1, Invariance, PTL

(* Overlapping callers, and handlers dropped while they hold new handles,  *)
(* are the only ways to a refresher that cannot be aborted; and a          *)
(* registration alone on its source leaves it the handles of its policy,   *)
(* however many refreshers had leaked before.                              *)
THEOREM LeaksExplained == Spec => []RefreshersFollow
<1>1. IInv => RefreshersFollow
  BY DEF IInv, HandleInv, LeakInv, Fits, RefreshersFollow
<1>2. QED
  BY <1>1, Invariance, PTL

LEMMA ReloadStep ==
    ASSUME IInv
    PROVE  \A c \in Callers : Reloaded(c) =>
              \A s \in Names \ touched[c] : AtRest(s) =>
                  /\ listed[s] = conf[c][s]
                  /\ s \notin broken \cup contested => tables[s] = conf[c][s]
<1> SUFFICES ASSUME NEW c \in Callers, Reloaded(c), NEW s \in Names \ touched[c], AtRest(s)
             PROVE  /\ listed[s] = conf[c][s]
                    /\ s \notin broken \cup contested => tables[s] = conf[c][s]
  OBVIOUS
<1>1. pc[c] = "functions"
  BY DEF Reloaded
<1>2. listed[s] = conf[c][s]
  BY <1>1 DEF IInv, ReloadInv
<1>3. s \notin broken \cup contested => tables[s] = listed[s]
  BY DEF IInv, ServedInv
<1>4. QED
  BY <1>2, <1>3

(* A reload that succeeds has brought the list to the configuration it     *)
(* read, but for the sources that another caller worked on meanwhile; and  *)
(* the catalog with it, but for the sources that a failed or overlapped    *)
(* registration had put out of step before.                                *)
THEOREM ReloadsConverge == Spec => ReloadConverges
<1>1. IInv /\ [Next]_vars =>
        [\A c \in Callers : Reloaded(c) =>
            \A s \in Names \ touched[c] : AtRest(s) =>
                /\ listed[s] = conf[c][s]
                /\ s \notin broken \cup contested => tables[s] = conf[c][s]]_vars
  BY ReloadStep
<1>2. QED
  BY <1>1, Invariance, PTL DEF Spec, ReloadConverges

=============================================================================
