------------------------- MODULE RemoteEngineProofs -------------------------
(***************************************************************************)
(* Proofs about the clients of a daemon: the materialize namespaces behind *)
(* the services, and the streams of gRPC.                                  *)
(*                                                                         *)
(* MaterializedListed: the induction says which manager a call that is     *)
(* under way holds.  A call whose namespace was not dropped under it holds *)
(* the manager that the next lookup finds; a call that was overtaken by a  *)
(* drop may hold one that nobody looks up any more, never the manager of   *)
(* another namespace.                                                      *)
(*                                                                         *)
(* GrpcStreamsWhole: what the client has, followed by the frames in        *)
(* flight, is the rows of the items that the server has taken from the     *)
(* engine, until a cancel or a lost connection cuts the frames short with  *)
(* an error; the completion comes after all of them.                       *)
(***************************************************************************)
EXTENDS RemoteEngine, SequenceTheorems, WellFoundedInduction, TLAPS

ConnFields ==
    {"at", "next", "call", "made", "answer", "resp", "mgr", "id", "result", "feed", "frames",
     "sent", "rows", "completion", "told", "lost", "dropped", "targets", "seen", "whole"}
IsConn(r) == r = [f \in ConnFields |-> r[f]]
ConnOK ==
    /\ conn = [c \in Client |-> conn[c]]
    /\ \A c \in Client : IsConn(conn[c])

\* The registry, the managers' manifests and the storage root.
StoreFields == {"memo", "mem", "disk"}
DirFields == {"dir", "manifest", "tables", "files"}
IsDir(d) == d = [f \in DirFields |-> d[f]]
StoreOK ==
    /\ store = [f \in StoreFields |-> store[f]]
    /\ store.memo \in [ExtraNs -> Nat]
    /\ Len(store.mem) \in Nat \ {0}
    /\ store.mem = [m \in 1..Len(store.mem) |-> store.mem[m]]
    /\ store.disk = [n \in AllNs |-> store.disk[n]]
    /\ \A n \in AllNs : IsDir(store.disk[n])
    /\ kept = [n \in AllNs |-> kept[n]]

\* The manager that a lookup finds, 0 when none is open.
ManagerOf(n) == IF n = DefaultNs THEN 1 ELSE store.memo[n]

\* Two namespaces never share a manager.
MemoInv ==
    \A n \in ExtraNs :
        /\ store.memo[n] # 1
        /\ store.memo[n] <= Len(store.mem)
        /\ \A o \in ExtraNs : o # n /\ store.memo[n] # 0 => store.memo[o] # store.memo[n]

\* A kept table is in the manifest on disk, has its file, and is in the
\* memory of the manager that is open.
KeptInv ==
    \A n \in AllNs :
        /\ kept[n] \subseteq store.disk[n].tables
        /\ kept[n] \subseteq store.disk[n].files
        /\ kept[n] # {} => store.disk[n].manifest
        /\ ManagerOf(n) # 0 => kept[n] \subseteq store.mem[ManagerOf(n)]

\* Where a call is, and what it holds there.
Working == {"memo", "create", "run", "write", "upsert", "erase"}
Holders == {"run", "write", "upsert"}
Storers == {"materialize", "refresh_table"}
PlaceInv(r) ==
    /\ r.at \in Working => NsOf(r.made[1]) \in AllNs
    /\ r.at \in {"memo", "create", "erase"} => NsOf(r.made[1]) \in ExtraNs
    /\ r.at \in {"write", "upsert"} => r.made[1].op \in Storers
HolderInv(r) ==
    r.at \in Holders =>
        /\ r.mgr \in 1..Len(store.mem)
        /\ r.mgr = 1 <=> NsOf(r.made[1]) = DefaultNs
        /\ \A o \in ExtraNs : o # NsOf(r.made[1]) => store.memo[o] # r.mgr
StorerInv(r) ==
    r.at \in Holders /\ r.made[1].op \in Storers /\ ~r.dropped =>
        /\ r.mgr = ManagerOf(NsOf(r.made[1]))
        /\ r.at = "upsert" => TableOf(r.made[1]) \in store.disk[NsOf(r.made[1])].files
CallInv(r) == PlaceInv(r) /\ HolderInv(r) /\ StorerInv(r)

NsInv ==
    /\ ConnOK
    /\ StoreOK
    /\ MemoInv
    /\ KeptInv
    /\ \A c \in Client : CallInv(conn[c])

-----------------------------------------------------------------------------
\* What the steps make of a call.

LEMMA ToldIsConn ==
  ASSUME NEW r, IsConn(r), NEW a
  PROVE  IsConn(Told(r, a)) /\ Told(r, a).at = "told"
BY DEF IsConn, ConnFields, Told

LEMMA AnsweredIsConn ==
  ASSUME NEW c, NEW r, IsConn(r), NEW a
  PROVE  IsConn(Answered(c, r, a)) /\ Answered(c, r, a).at \in {"answered", "open"}
<1>1. ASSUME NEW s, IsConn(s), NEW req, NEW targets, NEW seen
      PROVE  LET t == ToolGoesOn(s, req, targets, seen)
             IN  IsConn(t) /\ t.at \in {"answered", "open"}
  BY <1>1, ZenonT(40) DEF IsConn, ConnFields, ToolGoesOn
<1>2. IsConn([r EXCEPT !.answer = Some(a)])
  BY DEF IsConn, ConnFields
<1>3. CASE Mcp(c) /\ a.ok
  BY <1>1, <1>2, <1>3 DEF Answered, ToolAnswered
<1>4. CASE ~(Mcp(c) /\ a.ok)
  BY <1>4 DEF Answered, IsConn, ConnFields
<1> QED
  BY <1>3, <1>4

\* A call that is at none of the places in a namespace has nothing to keep.
LEMMA AtRest == ASSUME NEW r, r.at \notin Working PROVE CallInv(r)
BY DEF CallInv, PlaceInv, HolderInv, StorerInv, Working, Holders

LEMMA AnsweredRests ==
  ASSUME NEW c, NEW r, IsConn(r), NEW a
  PROVE  IsConn(Answered(c, r, a)) /\ CallInv(Answered(c, r, a))
<1>1. Answered(c, r, a).at \notin Working
  BY AnsweredIsConn DEF Working
<1> QED
  BY <1>1, AnsweredIsConn, AtRest

\* The namespace of a call is one that exists, unless it names the one to drop.
LEMMA NamespaceOfCall ==
  ASSUME NEW e, e.op # "drop_namespace"
  PROVE  /\ NsOf(e) \in AllNs
         /\ Normalize(e.ns).ok /\ Normalize(e.ns).v = None => NsOf(e) = DefaultNs
         /\ Normalize(e.ns).ok /\ Normalize(e.ns).v # None =>
               NsOf(e) \in ExtraNs /\ Normalize(e.ns).v[1] = NsOf(e)
<1>1. CASE e.ns \in {None, Some(""), Some(DefaultNs)}
  BY <1>1 DEF NsOf, Normalize, AllNs, Ok
<1>2. CASE e.ns \notin {None, Some(""), Some(DefaultNs)} /\ e.ns[1] \in ExtraNs
  BY <1>2 DEF NsOf, Normalize, ValidateNamespace, AllNs, Ok, Some, None
<1>3. CASE e.ns \notin {None, Some(""), Some(DefaultNs)} /\ e.ns[1] \notin ExtraNs
  BY <1>3 DEF NsOf, Normalize, ValidateNamespace, AllNs, Internal, Err
<1> QED
  BY <1>1, <1>2, <1>3

-----------------------------------------------------------------------------

LEMMA NsInit == Init => NsInv
<1> SUFFICES ASSUME Init PROVE NsInv
  OBVIOUS
<1>1. IsConn(NoConn) /\ NoConn.at \notin Working
  BY DEF NoConn, IsConn, ConnFields, Working
<1>2. ConnOK /\ \A c \in Client : CallInv(conn[c])
  BY <1>1, AtRest DEF Init, ConnOK
<1>3. /\ store.memo = [n \in ExtraNs |-> 0]
      /\ store.mem = <<{}>>
      /\ store.disk = [n \in AllNs |-> [EmptyDir EXCEPT !.dir = (n = DefaultNs)]]
      /\ store = [f \in StoreFields |-> store[f]]
  BY DEF Init, InitStore, AllNs, StoreFields
<1>4. Len(store.mem) = 1
  BY <1>3
<1>5. StoreOK
  <2>1. store.mem = [m \in 1..Len(store.mem) |-> store.mem[m]]
    BY <1>3, <1>4
  <2>2. \A n \in AllNs : IsDir(store.disk[n])
    BY <1>3 DEF IsDir, DirFields, EmptyDir
  <2>3. store.disk = [n \in AllNs |-> store.disk[n]] /\ store.memo \in [ExtraNs -> Nat]
    BY <1>3
  <2> QED
    BY <1>3, <1>4, <2>1, <2>2, <2>3 DEF StoreOK, Init
<1>6. MemoInv /\ KeptInv
  BY <1>3, <1>4 DEF MemoInv, KeptInv, Init
<1> QED
  BY <1>2, <1>5, <1>6 DEF NsInv

-----------------------------------------------------------------------------
\* Steps that leave the store alone.

LEMMA ConnMoves ==
  ASSUME NsInv, NEW c \in Client, NEW r, IsConn(r), CallInv(r),
         conn' = [conn EXCEPT ![c] = r], UNCHANGED <<store, kept>>
  PROVE  NsInv'
<1>1. \A d \in Client : conn'[d] = IF d = c THEN r ELSE conn[d]
  BY DEF NsInv, ConnOK
<1>2. ConnOK'
  <2>1. conn' = [d \in Client |-> conn'[d]]
    BY DEF NsInv, ConnOK
  <2>2. ASSUME NEW d \in Client PROVE IsConn(conn[d])'
    <3>1. IsConn(conn'[d])
      BY <1>1 DEF NsInv, ConnOK
    <3> QED
      BY <3>1 DEF IsConn
  <2> QED
    BY <2>1, <2>2 DEF ConnOK
<1>3. ASSUME NEW d \in Client PROVE CallInv(conn[d])'
  <2>1. CallInv(conn'[d])
    BY <1>1 DEF NsInv
  <2> QED
    BY <2>1 DEF CallInv, PlaceInv, HolderInv, StorerInv, ManagerOf
<1>4. StoreOK' /\ MemoInv' /\ KeptInv'
  BY ZenonT(40) DEF NsInv, StoreOK, MemoInv, KeptInv, ManagerOf, IsDir
<1> QED
  BY <1>2, <1>3, <1>4 DEF NsInv

LEMMA RestingMoves ==
  ASSUME NsInv, NEW c \in Client, NEW r, IsConn(r), r.at \notin Working,
         conn' = [conn EXCEPT ![c] = r], UNCHANGED <<store, kept>>
  PROVE  NsInv'
BY AtRest, ConnMoves

LEMMA AnsweredMoves ==
  ASSUME NsInv, NEW c \in Client, NEW a, Set(c, Answered(c, conn[c], a)), UNCHANGED <<store, kept>>
  PROVE  NsInv'
<1>1. IsConn(conn[c])
  BY DEF NsInv, ConnOK
<1> QED
  BY <1>1, AnsweredRests, ConnMoves DEF Set

LEMMA ToldMoves ==
  ASSUME NsInv, NEW c \in Client, NEW r, IsConn(r), NEW a, Set(c, Told(r, a)), UNCHANGED <<store, kept>>
  PROVE  NsInv'
<1>1. IsConn(Told(r, a)) /\ Told(r, a).at \notin Working
  BY ToldIsConn DEF Working
<1> QED
  BY <1>1, RestingMoves DEF Set

LEMMA SendStep == ASSUME NsInv, NEW c \in Client, Send(c) PROVE NsInv'
<1>1. PICK call : Set(c, LET r == [NoConn EXCEPT !.at = "sent", !.next = conn[c].next + 1,
                                                !.call = Some(Resolved(c, call))]
                         IN  IF call.op = "shutdown" THEN Told(r, Shutdown(c)) ELSE r)
  BY ZenonT(40) DEF Send
<1> DEFINE r == [NoConn EXCEPT !.at = "sent", !.next = conn[c].next + 1, !.call = Some(Resolved(c, call))]
<1>2. IsConn(r) /\ r.at = "sent"
  BY ZenonT(40) DEF NoConn, IsConn, ConnFields
<1>3. Set(c, Told(r, Shutdown(c))) \/ Set(c, r)
  BY <1>1
<1>4. UNCHANGED <<store, kept>>
  BY DEF Send
<1> HIDE DEF r
<1>5. CASE Set(c, r)
  BY <1>2, <1>4, <1>5, RestingMoves DEF Set, Working
<1> QED
  BY <1>2, <1>3, <1>4, <1>5, ToldMoves

LEMMA ReceiveStep == ASSUME NsInv, NEW c \in Client, Receive(c) PROVE NsInv'
<1>1. IsConn(conn[c])
  BY DEF NsInv, ConnOK
<1>2. PICK a : Set(c, Told(conn[c], a))
  BY DEF Receive
<1> QED
  BY <1>1, <1>2, ToldMoves DEF Receive

LEMMA PullStep == ASSUME NsInv, NEW c \in Client, Pull(c) PROVE NsInv'
<1>1. IsConn(conn[c]) /\ conn[c].at = "streaming"
  BY DEF NsInv, ConnOK, Pull
<1> DEFINE r == [conn[c] EXCEPT !.frames = Tail(@)]
<1>2. IsConn(r) /\ r.at = "streaming"
  BY <1>1 DEF IsConn, ConnFields
<1>3. PICK frame : Set(c, IF ~Grpc(c) THEN Chunk(r, frame)
                          ELSE IF r.id = "" THEN Opened(r, ReadStartedId(frame))
                          ELSE Advanced(r, frame, StreamItem(frame)))
  BY DEF Pull
<1>4. UNCHANGED <<store, kept>>
  BY DEF Pull
<1> HIDE DEF r
<1>5. ASSUME NEW s, IsConn(s), s.at = "streaming", Set(c, s) PROVE NsInv'
  BY <1>4, <1>5, RestingMoves DEF Set, Working
<1>6. CASE Set(c, Chunk(r, frame))
  <2>1. IsConn([r EXCEPT !.rows = @ \o frame.v]) /\ [r EXCEPT !.rows = @ \o frame.v].at = "streaming"
    BY <1>2 DEF IsConn, ConnFields
  <2>2. \/ Set(c, [r EXCEPT !.rows = @ \o frame.v])
        \/ \E a : Set(c, Told(r, a))
    BY <1>6 DEF Chunk
  <2> QED
    BY <1>2, <1>4, <1>5, <2>1, <2>2, ToldMoves
<1>7. CASE Set(c, Opened(r, ReadStartedId(frame)))
  <2> DEFINE s == [r EXCEPT !.id = ReadStartedId(frame).v]
  <2>1. IsConn(s) /\ s.at = "streaming"
    BY <1>2 DEF IsConn, ConnFields
  <2>2. Set(c, s) \/ \E a : Set(c, Told(r, a))
    BY <1>7 DEF Opened
  <2> HIDE DEF s
  <2> QED
    BY <1>2, <1>4, <1>5, <2>1, <2>2, ToldMoves
<1>8. CASE Set(c, Advanced(r, frame, StreamItem(frame)))
  <2> DEFINE s == [r EXCEPT !.rows = @ \o StreamItem(frame).rows,
                            !.completion = IF @ = None THEN StreamItem(frame).completion ELSE @]
  <2>1. IsConn(s) /\ s.at = "streaming"
    BY <1>2 DEF IsConn, ConnFields
  <2>2. Set(c, s) \/ \E a : Set(c, Told(r, a))
    BY <1>8 DEF Advanced
  <2> HIDE DEF s
  <2> QED
    BY <1>2, <1>4, <1>5, <2>1, <2>2, ToldMoves
<1> QED
  BY <1>3, <1>6, <1>7, <1>8

LEMMA ArriveStep == ASSUME NsInv, NEW c \in Client, Arrive(c) PROVE NsInv'
<1>1. IsConn(conn[c])
  BY DEF NsInv, ConnOK
<1>2. PICK x : Set(c, [conn[c] EXCEPT !.at = "open", !.made = x])
                 \/ Set(c, [conn[c] EXCEPT !.at = "answered", !.resp = x])
  BY DEF Arrive
<1>3. /\ IsConn([conn[c] EXCEPT !.at = "open", !.made = x])
      /\ [conn[c] EXCEPT !.at = "open", !.made = x].at = "open"
  BY <1>1 DEF IsConn, ConnFields
<1>4. /\ IsConn([conn[c] EXCEPT !.at = "answered", !.resp = x])
      /\ [conn[c] EXCEPT !.at = "answered", !.resp = x].at = "answered"
  BY <1>1 DEF IsConn, ConnFields
<1> QED
  BY <1>2, <1>3, <1>4, RestingMoves DEF Arrive, Set, Working

LEMMA ServeStep == ASSUME NsInv, NEW c \in Client, Serve(c) PROVE NsInv'
<1>1. PICK a : Set(c, Answered(c, conn[c], a))
  BY DEF Serve
<1> QED
  BY <1>1, AnsweredMoves DEF Serve

LEMMA StreamSteps == ASSUME NsInv, NEW c \in Client, StartQuery(c) \/ Pump(c) \/ Collect(c) PROVE NsInv'
<1>1. IsConn(conn[c]) /\ UNCHANGED <<store, kept>>
  BY DEF NsInv, ConnOK, StartQuery, Pump, Collect
<1>2. CASE \E a : Set(c, Answered(c, conn[c], a))
  BY <1>1, <1>2, AnsweredMoves
<1>3. ASSUME NEW r, IsConn(r), r.at \in {"streaming", "collecting", "answered"}, Set(c, r) PROVE NsInv'
  BY <1>1, <1>3, RestingMoves DEF Set, Working
<1>4. ASSUME NEW cut, NEW items,
             Set(c, Streaming([conn[c] EXCEPT !.feed = cut, !.result = cut, !.whole = items], c, cut))
      PROVE  NsInv'
  <2> DEFINE r == [conn[c] EXCEPT !.feed = cut, !.result = cut, !.whole = items]
  <2>1. IsConn(r)
    BY <1>1 DEF IsConn, ConnFields
  <2>2. Set(c, Streaming(r, c, cut))
    BY <1>4
  <2> HIDE DEF r
  <2>3. IsConn(Streaming(r, c, cut)) /\ Streaming(r, c, cut).at \in {"streaming", "collecting", "answered"}
    <3> DEFINE x == <<Frame("started", <<[id |-> c]>>)>>
    <3> DEFINE y == Some(BufferedResponse(cut, Limit(c), Format(c)))
    <3>1. Streaming(r, c, cut) \in {[r EXCEPT !.at = "streaming", !.frames = x], [r EXCEPT !.at = "streaming"],
                                     [r EXCEPT !.at = "collecting"], [r EXCEPT !.at = "answered", !.resp = y]}
      <4>1. CASE Grpc(c)
        BY <4>1 DEF Streaming
      <4>2. CASE ~Grpc(c)
        <5>1. Format(c) \in {None, Some("json")} => Format(c) # Some("ndjson")
          BY DEF None, Some
        <5>2. CASE Format(c) = Some("ndjson")
          BY <4>2, <5>1, <5>2 DEF Streaming
        <5>3. CASE Format(c) \in {None, Some("json")}
          BY <4>2, <5>1, <5>3 DEF Streaming
        <5>4. CASE Format(c) # Some("ndjson") /\ Format(c) \notin {None, Some("json")}
          BY <4>2, <5>4 DEF Streaming
        <5> QED
          BY <5>2, <5>3, <5>4
      <4> QED
        BY <4>1, <4>2
    <3> HIDE DEF x, y
    <3> QED
      BY <2>1, <3>1, ZenonT(40) DEF IsConn, ConnFields
  <2> QED
    BY <1>3, <2>2, <2>3
<1>5. CASE Pump(c)
  <2>1. PICK frame : Set(c, Pumped(conn[c], frame))
    BY <1>5 DEF Pump
  <2>2. IsConn(Pumped(conn[c], frame)) /\ Pumped(conn[c], frame).at = "streaming"
    BY <1>1, <1>5 DEF Pump, Pumped, IsConn, ConnFields
  <2> QED
    BY <1>3, <2>1, <2>2
<1>6. CASE Collect(c)
  <2> DEFINE r == [conn[c] EXCEPT !.feed = Tail(@)]
  <2>1. IsConn(r) /\ r.at = "collecting"
    BY <1>1, <1>6 DEF Collect, IsConn, ConnFields
  <2>2. PICK x : Set(c, r) \/ Set(c, [r EXCEPT !.at = "answered", !.resp = x])
    BY <1>6 DEF Collect
  <2> HIDE DEF r
  <2>3. IsConn([r EXCEPT !.at = "answered", !.resp = x]) /\ [r EXCEPT !.at = "answered", !.resp = x].at = "answered"
    BY <2>1 DEF IsConn, ConnFields
  <2> QED
    BY <1>3, <2>1, <2>2, <2>3
<1>7. CASE StartQuery(c)
  BY <1>2, <1>4, <1>7 DEF StartQuery
<1> QED
  BY <1>5, <1>6, <1>7

LEMMA LoseStep == ASSUME NsInv, NEW c \in Client, Lose(c) PROVE NsInv'
<1>1. IsConn(conn[c]) /\ UNCHANGED <<store, kept>>
  BY DEF NsInv, ConnOK, Lose
<1>2. CASE Set(c, Told([conn[c] EXCEPT !.lost = TRUE, !.feed = <<>>], TransportError(c)))
  <2>1. IsConn([conn[c] EXCEPT !.lost = TRUE, !.feed = <<>>])
    BY <1>1 DEF IsConn, ConnFields
  <2> QED
    BY <1>1, <1>2, <2>1, ToldMoves
<1>3. ASSUME conn[c].at = "streaming", NEW k,
             Set(c, [conn[c] EXCEPT !.lost = TRUE, !.feed = <<>>, !.frames = Append(SubSeq(@, 1, k), Broken)])
      PROVE  NsInv'
  <2> DEFINE r == [conn[c] EXCEPT !.lost = TRUE, !.feed = <<>>, !.frames = Append(SubSeq(@, 1, k), Broken)]
  <2>1. IsConn(r) /\ r.at = "streaming"
    BY <1>1, <1>3 DEF IsConn, ConnFields
  <2>2. Set(c, r)
    BY <1>3
  <2> HIDE DEF r
  <2> QED
    BY <1>1, <2>1, <2>2, RestingMoves DEF Set, Working
<1> QED
  BY <1>2, <1>3 DEF Lose

-----------------------------------------------------------------------------
\* Opening a namespace.

LEMMA OpenStep == ASSUME NsInv, NEW c \in Client, Open(c) PROVE NsInv'
<1> DEFINE ns == Normalize(E(c).ns)
<1>1. IsConn(conn[c]) /\ UNCHANGED <<store, kept>> /\ E(c).op # "drop_namespace"
  BY DEF NsInv, ConnOK, Open, UsesStore, IsMaterialized
<1>2. CASE \E a : Set(c, Answered(c, conn[c], a))
  BY <1>1, <1>2, AnsweredMoves
<1>3. CASE ns.ok /\ ns.v = None /\ Set(c, [conn[c] EXCEPT !.at = "run", !.mgr = 1])
  <2> DEFINE r == [conn[c] EXCEPT !.at = "run", !.mgr = 1]
  <2>1. IsConn(r) /\ r.at = "run" /\ r.mgr = 1 /\ r.made = conn[c].made
    BY <1>1 DEF IsConn, ConnFields
  <2>2. NsOf(r.made[1]) = DefaultNs
    BY <1>1, <1>3, <2>1, NamespaceOfCall DEF E
  <2>3. Set(c, r)
    BY <1>3
  <2> HIDE DEF r
  <2>4. CallInv(r)
    <3>1. PlaceInv(r)
      BY <2>1, <2>2 DEF PlaceInv, AllNs
    <3>2. HolderInv(r)
      BY <2>1, <2>2 DEF HolderInv, NsInv, MemoInv, StoreOK
    <3>3. StorerInv(r)
      BY <2>1, <2>2 DEF StorerInv, ManagerOf
    <3> QED
      BY <3>1, <3>2, <3>3 DEF CallInv
  <2> QED
    BY <1>1, <2>1, <2>3, <2>4, ConnMoves DEF Set
<1>4. CASE ns.ok /\ ns.v # None /\ Set(c, [conn[c] EXCEPT !.at = "memo"])
  <2> DEFINE r == [conn[c] EXCEPT !.at = "memo"]
  <2>1. IsConn(r) /\ r.at = "memo" /\ r.made = conn[c].made
    BY <1>1 DEF IsConn, ConnFields
  <2>2. NsOf(r.made[1]) \in ExtraNs
    BY <1>1, <1>4, <2>1, NamespaceOfCall DEF E
  <2>3. Set(c, r)
    BY <1>4
  <2> HIDE DEF r
  <2>4. CallInv(r)
    BY <2>1, <2>2 DEF CallInv, PlaceInv, HolderInv, StorerInv, Holders, AllNs
  <2> QED
    BY <1>1, <2>1, <2>3, <2>4, ConnMoves DEF Set
<1> QED
  BY <1>2, <1>3, <1>4 DEF Open, Opens

\* open_or_create's look under the read lock.
LEMMA MemoStep == ASSUME NsInv, NEW c \in Client, Memo(c) PROVE NsInv'
<1> DEFINE m == store.memo[NsOf(E(c))]
<1> DEFINE r == [conn[c] EXCEPT !.at = IF m # 0 THEN "run" ELSE "create", !.mgr = m]
<1>1. IsConn(conn[c]) /\ Set(c, r) /\ UNCHANGED <<store, kept>>
  BY DEF NsInv, ConnOK, Memo
<1>2. NsOf(conn[c].made[1]) \in ExtraNs
  BY DEF NsInv, CallInv, PlaceInv, Memo
<1>3. IsConn(r) /\ r.at = (IF m # 0 THEN "run" ELSE "create") /\ r.mgr = m /\ r.made = conn[c].made
  BY <1>1 DEF IsConn, ConnFields
<1>4. m = store.memo[NsOf(conn[c].made[1])]
  BY DEF E
<1> HIDE DEF r, m
<1>5. CallInv(r)
  <2>1. PlaceInv(r)
    BY <1>2, <1>3 DEF PlaceInv, AllNs
  <2>2. HolderInv(r)
    <3>1. m \in Nat /\ m # 1 /\ m <= Len(store.mem) /\ Len(store.mem) \in Nat
      BY <1>2, <1>4 DEF NsInv, MemoInv, StoreOK
    <3>2. m # 0 => \A o \in ExtraNs : o # NsOf(conn[c].made[1]) => store.memo[o] # m
      BY <1>2, <1>4 DEF NsInv, MemoInv
    <3>3. NsOf(conn[c].made[1]) # DefaultNs
      BY <1>2, NsAssumption
    <3> QED
      BY <1>3, <3>1, <3>2, <3>3 DEF HolderInv, Holders
  <2>3. StorerInv(r)
    BY <1>2, <1>3, <1>4, NsAssumption DEF StorerInv, ManagerOf, Holders
  <2> QED
    BY <2>1, <2>2, <2>3 DEF CallInv
<1> QED
  BY <1>1, <1>3, <1>5, ConnMoves DEF Set

\* cache_entries and refresh_table may end here; a call that stores goes on.
LEMMA RunStep == ASSUME NsInv, NEW c \in Client, Run(c) PROVE NsInv'
<1>1. IsConn(conn[c]) /\ CallInv(conn[c]) /\ conn[c].at = "run" /\ UNCHANGED <<store, kept>>
  BY DEF NsInv, ConnOK, Run
<1>2. CASE \E a : Set(c, Answered(c, conn[c], a))
  BY <1>1, <1>2, AnsweredMoves
<1>3. CASE E(c).op \in Storers /\ Set(c, [conn[c] EXCEPT !.at = "write"])
  <2> DEFINE r == [conn[c] EXCEPT !.at = "write"]
  <2>1. IsConn(r) /\ r.at = "write" /\ r.mgr = conn[c].mgr /\ r.made = conn[c].made /\ r.dropped = conn[c].dropped
    BY <1>1 DEF IsConn, ConnFields
  <2>2. Set(c, r)
    BY <1>3
  <2> HIDE DEF r
  <2>3. CallInv(r)
    BY <1>1, <1>3, <2>1 DEF CallInv, PlaceInv, HolderInv, StorerInv, Holders, Working, E
  <2> QED
    BY <1>1, <2>1, <2>2, <2>3, ConnMoves DEF Set
<1> QED
  BY <1>2, <1>3 DEF Run, Storers

-----------------------------------------------------------------------------
\* Steps that change the store: what becomes of the calls that look on.

LEMMA RestNext == ASSUME NEW d, conn'[d].at \notin Working PROVE CallInv(conn[d])'
BY DEF CallInv, PlaceInv, HolderInv, StorerInv, Working, Holders

\* A manager that a call holds stays the manager of its namespace, unless a
\* drop marks the call.
LEMMA Bystander ==
  ASSUME NsInv, NEW d \in Client,
         conn'[d].at = conn[d].at, conn'[d].made = conn[d].made, conn'[d].mgr = conn[d].mgr,
         Len(store'.mem) \in Nat, Len(store.mem) <= Len(store'.mem),
         \A o \in ExtraNs : store'.memo[o] \in {store.memo[o], 0} \/ store'.memo[o] > Len(store.mem),
         Storing(d, NsOf(E(d))) /\ ~conn'[d].dropped =>
             /\ ~conn[d].dropped
             /\ ManagerOf(NsOf(E(d))) # 0 => ManagerOf(NsOf(E(d)))' = ManagerOf(NsOf(E(d)))
             /\ TableOf(E(d)) \in store.disk[NsOf(E(d))].files =>
                   TableOf(E(d)) \in store'.disk[NsOf(E(d))].files
  PROVE  CallInv(conn[d])'
<1> DEFINE n == NsOf(conn[d].made[1])
<1>1. CallInv(conn[d])
  BY DEF NsInv
<1>2. PlaceInv(conn[d])'
  BY <1>1 DEF CallInv, PlaceInv
<1>3. HolderInv(conn[d])'
  <2> SUFFICES ASSUME conn[d].at \in Holders PROVE HolderInv(conn[d])'
    BY DEF HolderInv
  <2>1. /\ conn[d].mgr \in 1..Len(store.mem)
        /\ conn[d].mgr = 1 <=> n = DefaultNs
        /\ \A o \in ExtraNs : o # n => store.memo[o] # conn[d].mgr
    BY <1>1 DEF CallInv, HolderInv
  <2>2. ASSUME NEW o \in ExtraNs, o # n PROVE store'.memo[o] # conn[d].mgr
    <3>1. Len(store.mem) \in Nat /\ conn[d].mgr >= 1 /\ conn[d].mgr <= Len(store.mem) /\ conn[d].mgr \in Nat
      BY <2>1 DEF NsInv, StoreOK
    <3>2. CASE store'.memo[o] > Len(store.mem)
      BY <3>1, <3>2
    <3>3. CASE store'.memo[o] \in {store.memo[o], 0}
      BY <2>1, <2>2, <3>1, <3>3
    <3> QED
      BY <3>2, <3>3
  <2>3. conn[d].mgr \in 1..Len(store'.mem)
    BY <2>1 DEF NsInv, StoreOK
  <2> QED
    BY <2>1, <2>2, <2>3 DEF HolderInv
<1>4. StorerInv(conn[d])'
  <2> SUFFICES ASSUME conn[d].at \in Holders, conn[d].made[1].op \in Storers, ~conn'[d].dropped
               PROVE  StorerInv(conn[d])'
    BY DEF StorerInv
  <2>1. Storing(d, NsOf(E(d)))
    BY DEF Storing, Holders, Storers, E
  <2>2. conn[d].mgr \in 1..Len(store.mem)
    BY <1>1 DEF CallInv, HolderInv
  <2>3. conn[d].mgr = ManagerOf(n) /\ (conn[d].at = "upsert" => TableOf(conn[d].made[1]) \in store.disk[n].files)
    BY <1>1, <2>1 DEF CallInv, StorerInv, E
  <2>4. ManagerOf(n)' = ManagerOf(n)
    BY <2>1, <2>2, <2>3 DEF E
  <2>5. conn[d].at = "upsert" => TableOf(conn[d].made[1]) \in store'.disk[n].files
    BY <2>1, <2>3 DEF E
  <2>6. n' = n
    OBVIOUS
  <2> QED
    BY <2>3, <2>4, <2>5 DEF StorerInv
<1> QED
  BY <1>2, <1>3, <1>4 DEF CallInv

LEMMA NoneIsNotSome == ASSUME NEW x PROVE None # Some(x)
BY DEF None, Some

\* A drop: the caller's call becomes r, the others keep their place and some
\* of them are marked.
LEMMA MeetingIs ==
  ASSUME ConnOK, NEW c \in Client, NEW r, IsConn(r), NEW n, NEW t, conn' = Meeting(c, r, n, t)
  PROVE  /\ ConnOK'
         /\ conn'[c] = r
         /\ \A d \in Client \ {c} :
               /\ conn'[d].at = conn[d].at /\ conn'[d].made = conn[d].made /\ conn'[d].mgr = conn[d].mgr
               /\ conn'[d].dropped \in {conn[d].dropped, TRUE}
               /\ Storing(d, n) /\ t \in {None, Some(TableOf(E(d)))} => conn'[d].dropped
<1>1. conn' = [d \in Client |-> conn'[d]] /\ conn'[c] = r
  BY DEF Meeting
<1>2. \A d \in Client \ {c} :
         conn'[d] = IF Storing(d, n) /\ t \in {None, Some(TableOf(E(d)))}
                    THEN [conn[d] EXCEPT !.dropped = TRUE] ELSE conn[d]
  BY DEF Meeting
<1>3. ASSUME NEW d \in Client \ {c}
      PROVE  /\ IsConn(conn'[d])
             /\ conn'[d].at = conn[d].at /\ conn'[d].made = conn[d].made /\ conn'[d].mgr = conn[d].mgr
             /\ conn'[d].dropped \in {conn[d].dropped, TRUE}
             /\ Storing(d, n) /\ t \in {None, Some(TableOf(E(d)))} => conn'[d].dropped
  <2>1. IsConn(conn[d])
    BY DEF ConnOK
  <2>2. CASE Storing(d, n) /\ t \in {None, Some(TableOf(E(d)))}
    <3>1. conn'[d] = [conn[d] EXCEPT !.dropped = TRUE]
      BY <1>2, <2>2
    <3> QED
      BY <2>1, <3>1 DEF IsConn, ConnFields
  <2>3. CASE ~(Storing(d, n) /\ t \in {None, Some(TableOf(E(d)))})
    BY <1>2, <2>1, <2>3
  <2> QED
    BY <2>2, <2>3
<1>4. ASSUME NEW d \in Client PROVE IsConn(conn[d])'
  <2>1. IsConn(conn'[d])
    BY <1>1, <1>3
  <2> QED
    BY <2>1 DEF IsConn
<1> QED
  BY <1>1, <1>3, <1>4 DEF ConnOK

\* One call moves and the others are untouched.
LEMMA SetIs ==
  ASSUME ConnOK, NEW c \in Client, NEW r, IsConn(r), Set(c, r)
  PROVE  ConnOK' /\ conn'[c] = r /\ \A d \in Client \ {c} : conn'[d] = conn[d]
<1>1. conn' = [d \in Client |-> conn'[d]] /\ conn'[c] = r /\ \A d \in Client \ {c} : conn'[d] = conn[d]
  BY DEF Set, ConnOK
<1>2. ASSUME NEW d \in Client PROVE IsConn(conn[d])'
  <2>1. IsConn(conn'[d])
    BY <1>1 DEF ConnOK
  <2> QED
    BY <2>1 DEF IsConn
<1> QED
  BY <1>1, <1>2 DEF ConnOK

LEMMA CancelStep == ASSUME NsInv, NEW c \in Client, Cancel(c) PROVE NsInv'
<1>1. PICK hit, a : conn' = [d \in Client |-> IF d = c THEN Answered(c, conn[c], a)
                                             ELSE IF d \in hit THEN Stopped(conn[d]) ELSE conn[d]]
  BY DEF Cancel
<1>2. UNCHANGED <<store, kept>>
  BY DEF Cancel
<1>3. IsConn(conn'[c]) /\ conn'[c].at \notin Working
  <2>1. IsConn(conn[c])
    BY DEF NsInv, ConnOK
  <2>2. conn'[c] = Answered(c, conn[c], a)
    BY <1>1
  <2> QED
    BY <2>1, <2>2, AnsweredIsConn DEF Working
<1>4. ASSUME NEW d \in Client, d # c
      PROVE  /\ IsConn(conn'[d])
             /\ conn'[d].at = conn[d].at /\ conn'[d].made = conn[d].made /\ conn'[d].mgr = conn[d].mgr
             /\ conn'[d].dropped = conn[d].dropped
  <2>1. IsConn(conn[d])
    BY DEF NsInv, ConnOK
  <2>2. conn'[d] = Stopped(conn[d]) \/ conn'[d] = conn[d]
    BY <1>1, <1>4
  <2>3. /\ IsConn(Stopped(conn[d])) /\ Stopped(conn[d]).at = conn[d].at
        /\ Stopped(conn[d]).made = conn[d].made /\ Stopped(conn[d]).mgr = conn[d].mgr
        /\ Stopped(conn[d]).dropped = conn[d].dropped
    BY <2>1 DEF Stopped, IsConn, ConnFields
  <2> QED
    BY <2>1, <2>2, <2>3
<1>5. ConnOK'
  <2>1. conn' = [d \in Client |-> conn'[d]]
    BY <1>1
  <2>2. ASSUME NEW d \in Client PROVE IsConn(conn[d])'
    <3>1. IsConn(conn'[d])
      BY <1>3, <1>4
    <3> QED
      BY <3>1 DEF IsConn
  <2> QED
    BY <2>1, <2>2 DEF ConnOK
<1>6. ASSUME NEW d \in Client PROVE CallInv(conn[d])'
  <2>1. CASE d = c
    BY <1>3, <2>1, RestNext
  <2>2. CASE d # c
    <3>1. CallInv(conn[d])
      BY DEF NsInv
    <3> QED
      BY <1>2, <1>4, <2>2, <3>1 DEF CallInv, PlaceInv, HolderInv, StorerInv, ManagerOf
  <2> QED
    BY <2>1, <2>2
<1>7. StoreOK' /\ MemoInv' /\ KeptInv'
  BY <1>2, ZenonT(40) DEF NsInv, StoreOK, MemoInv, KeptInv, ManagerOf, IsDir
<1> QED
  BY <1>5, <1>6, <1>7 DEF NsInv

-----------------------------------------------------------------------------
\* What the operations of NamespaceRegistry change.

LEMMA WriteParquetIs ==
  ASSUME StoreOK, NEW n \in AllNs, NEW t, store' = WriteParquet(store, n, t), kept' = kept
  PROVE  /\ StoreOK' /\ store'.memo = store.memo /\ store'.mem = store.mem
         /\ \A o \in AllNs \ {n} : store'.disk[o] = store.disk[o]
         /\ store'.disk[n].tables = store.disk[n].tables
         /\ store'.disk[n].manifest = store.disk[n].manifest
         /\ store'.disk[n].files = store.disk[n].files \cup {t}
<1> DEFINE dir == [store.disk[n] EXCEPT !.dir = TRUE, !.files = @ \cup {t}]
<1> DEFINE disk == [store.disk EXCEPT ![n] = dir]
<1>1. IsDir(store.disk[n])
  BY DEF StoreOK
<1>2. /\ IsDir(dir) /\ dir.tables = store.disk[n].tables /\ dir.manifest = store.disk[n].manifest
      /\ dir.files = store.disk[n].files \cup {t}
  BY <1>1 DEF IsDir, DirFields
<1>3. store' = [store EXCEPT !.disk = disk]
  BY <1>1 DEF WriteParquet, StoreOK, IsDir, DirFields, StoreFields
<1> HIDE DEF dir
<1>4. disk = [o \in AllNs |-> disk[o]] /\ disk[n] = dir /\ \A o \in AllNs \ {n} : disk[o] = store.disk[o]
  BY DEF StoreOK
<1> HIDE DEF disk
<1>5. store'.memo = store.memo /\ store'.mem = store.mem /\ store'.disk = disk
      /\ store' = [f \in StoreFields |-> store'[f]]
  BY <1>3 DEF StoreOK, StoreFields
<1>6. ASSUME NEW o \in AllNs PROVE IsDir(store.disk[o])'
  <2>1. IsDir(disk[o])
    BY <1>2, <1>4 DEF StoreOK
  <2> QED
    BY <1>5, <2>1 DEF IsDir
<1>7. StoreOK'
  BY <1>4, <1>5, <1>6 DEF StoreOK
<1> QED
  BY <1>2, <1>4, <1>5, <1>7

\* A change of manager m's manifest of namespace n, in memory and on disk.
LEMMA ManifestIs ==
  ASSUME StoreOK, NEW n \in AllNs, NEW m \in 1..Len(store.mem),
         store' = [f \in StoreFields |-> store'[f]],
         store'.memo = store.memo,
         store'.mem = [store.mem EXCEPT ![m] = store'.mem[m]],
         store'.disk = [store.disk EXCEPT ![n] = store'.disk[n]],
         IsDir(store'.disk[n]),
         kept' = [o \in AllNs |-> kept'[o]]
  PROVE  /\ StoreOK' /\ Len(store'.mem) = Len(store.mem)
         /\ \A k \in 1..Len(store.mem) : k # m => store'.mem[k] = store.mem[k]
         /\ \A o \in AllNs \ {n} : store'.disk[o] = store.disk[o]
<1>1. store'.disk = [o \in AllNs |-> store'.disk[o]] /\ \A o \in AllNs \ {n} : store'.disk[o] = store.disk[o]
  BY DEF StoreOK
<1>2. /\ store'.mem = [k \in 1..Len(store.mem) |-> store'.mem[k]]
      /\ \A k \in 1..Len(store.mem) : k # m => store'.mem[k] = store.mem[k]
  BY DEF StoreOK
<1>3. Len(store'.mem) = Len(store.mem)
  BY <1>2 DEF StoreOK
<1>4. ASSUME NEW o \in AllNs PROVE IsDir(store.disk[o])'
  <2>1. IsDir(store'.disk[o])
    BY <1>1 DEF StoreOK
  <2> QED
    BY <2>1 DEF IsDir
<1>5. StoreOK'
  <2>1. store'.mem = [k \in 1..Len(store'.mem) |-> store'.mem[k]]
    BY <1>2, <1>3
  <2>2. Len(store'.mem) \in Nat \ {0} /\ store'.memo \in [ExtraNs -> Nat]
    BY <1>3 DEF StoreOK
  <2> QED
    BY <1>1, <1>4, <2>1, <2>2 DEF StoreOK
<1> QED
  BY <1>1, <1>2, <1>3, <1>5

LEMMA UpsertIs ==
  ASSUME StoreOK, NEW n \in AllNs, NEW m \in 1..Len(store.mem), NEW t,
         store' = Upsert(store, n, m, t), kept' = [o \in AllNs |-> kept'[o]]
  PROVE  /\ StoreOK' /\ store'.memo = store.memo /\ Len(store'.mem) = Len(store.mem)
         /\ store'.mem[m] = store.disk[n].tables \cup {t}
         /\ \A k \in 1..Len(store.mem) : k # m => store'.mem[k] = store.mem[k]
         /\ store'.disk[n].manifest
         /\ store'.disk[n].tables = store.disk[n].tables \cup {t}
         /\ store'.disk[n].files = store.disk[n].files
         /\ \A o \in AllNs \ {n} : store'.disk[o] = store.disk[o]
<1> DEFINE dir == [store.disk[n] EXCEPT !.manifest = TRUE, !.tables = @ \cup {t}]
<1> DEFINE tables == store.disk[n].tables \cup {t}
<1>1. IsDir(store.disk[n])
  BY DEF StoreOK
<1>2. IsDir(dir) /\ dir.manifest = TRUE /\ dir.tables = tables /\ dir.files = store.disk[n].files
  BY <1>1 DEF IsDir, DirFields
<1> DEFINE disk == [store.disk EXCEPT ![n] = dir]
<1> DEFINE mem == [store.mem EXCEPT ![m] = tables]
<1>3. store' = [store EXCEPT !.disk = disk, !.mem = mem]
  BY <1>1 DEF Upsert, StoreOK, IsDir, DirFields, StoreFields
<1>0. disk = [store.disk EXCEPT ![n] = dir] /\ mem = [store.mem EXCEPT ![m] = tables]
  OBVIOUS
<1> HIDE DEF dir, tables, disk, mem
<1>4. /\ store' = [f \in StoreFields |-> store'[f]] /\ store'.memo = store.memo
      /\ store'.mem = mem /\ store'.disk = disk
  BY <1>3 DEF StoreOK, StoreFields
<1>5. /\ mem = [store.mem EXCEPT ![m] = mem[m]] /\ mem[m] = tables
      /\ disk = [store.disk EXCEPT ![n] = disk[n]] /\ disk[n] = dir
  BY <1>0 DEF StoreOK
<1>6. /\ StoreOK' /\ Len(store'.mem) = Len(store.mem)
      /\ \A k \in 1..Len(store.mem) : k # m => store'.mem[k] = store.mem[k]
      /\ \A o \in AllNs \ {n} : store'.disk[o] = store.disk[o]
  BY <1>2, <1>4, <1>5, ManifestIs
<1> QED
  BY <1>2, <1>4, <1>5, <1>6 DEF tables

LEMMA DropTableIs ==
  ASSUME StoreOK, NEW n \in AllNs, NEW m \in 1..Len(store.mem), NEW t,
         store' = DropTable(store, n, m, t), kept' = [o \in AllNs |-> kept'[o]]
  PROVE  /\ StoreOK' /\ store'.memo = store.memo /\ Len(store'.mem) = Len(store.mem)
         /\ store'.mem[m] = store.disk[n].tables \ {t}
         /\ \A k \in 1..Len(store.mem) : k # m => store'.mem[k] = store.mem[k]
         /\ store'.disk[n].manifest
         /\ store'.disk[n].tables = store.disk[n].tables \ {t}
         /\ store'.disk[n].files \in {store.disk[n].files, store.disk[n].files \ {t}}
         /\ \A o \in AllNs \ {n} : store'.disk[o] = store.disk[o]
<1> DEFINE tables == store.disk[n].tables \ {t}
<1> DEFINE files == IF t \in store.disk[n].tables THEN store.disk[n].files \ {t} ELSE store.disk[n].files
<1> DEFINE dir == [store.disk[n] EXCEPT !.manifest = TRUE, !.tables = tables, !.files = files]
<1>1. IsDir(store.disk[n])
  BY DEF StoreOK
<1>2. IsDir(dir) /\ dir.manifest = TRUE /\ dir.tables = tables /\ dir.files = files
  BY <1>1 DEF IsDir, DirFields
<1> DEFINE disk == [store.disk EXCEPT ![n] = dir]
<1> DEFINE mem == [store.mem EXCEPT ![m] = tables]
<1>3. store' = [store EXCEPT !.disk = disk, !.mem = mem]
  BY <1>1, ZenonT(40) DEF DropTable, StoreOK, IsDir, DirFields, StoreFields
<1>4. files \in {store.disk[n].files, store.disk[n].files \ {t}}
  OBVIOUS
<1>0. disk = [store.disk EXCEPT ![n] = dir] /\ mem = [store.mem EXCEPT ![m] = tables]
  OBVIOUS
<1> HIDE DEF dir, tables, files, disk, mem
<1>5. /\ store' = [f \in StoreFields |-> store'[f]] /\ store'.memo = store.memo
      /\ store'.mem = mem /\ store'.disk = disk
  BY <1>3 DEF StoreOK, StoreFields
<1>6. /\ mem = [store.mem EXCEPT ![m] = mem[m]] /\ mem[m] = tables
      /\ disk = [store.disk EXCEPT ![n] = disk[n]] /\ disk[n] = dir
  BY <1>0 DEF StoreOK
<1>7. /\ StoreOK' /\ Len(store'.mem) = Len(store.mem)
      /\ \A k \in 1..Len(store.mem) : k # m => store'.mem[k] = store.mem[k]
      /\ \A o \in AllNs \ {n} : store'.disk[o] = store.disk[o]
  BY <1>2, <1>5, <1>6, ManifestIs
<1> QED
  BY <1>2, <1>4, <1>5, <1>6, <1>7 DEF tables

LEMMA ForgetIs ==
  ASSUME StoreOK, NEW n \in ExtraNs, store' = Forget(store, n), kept' = [o \in AllNs |-> kept'[o]]
  PROVE  /\ StoreOK' /\ store'.mem = store.mem /\ store'.disk = store.disk
         /\ store'.memo[n] = 0
         /\ \A o \in ExtraNs \ {n} : store'.memo[o] = store.memo[o]
<1> DEFINE memo == [store.memo EXCEPT ![n] = 0]
<1>1. store' = [store EXCEPT !.memo = memo]
  BY DEF Forget, StoreOK, StoreFields
<1>2. memo \in [ExtraNs -> Nat] /\ memo[n] = 0 /\ \A o \in ExtraNs \ {n} : memo[o] = store.memo[o]
  BY DEF StoreOK
<1> HIDE DEF memo
<1>3. store'.memo = memo /\ store'.mem = store.mem /\ store'.disk = store.disk
      /\ store' = [f \in StoreFields |-> store'[f]]
  BY <1>1 DEF StoreOK, StoreFields
<1>4. ASSUME NEW o \in AllNs PROVE IsDir(store.disk[o])'
  BY <1>3, ZenonT(40) DEF StoreOK, IsDir
<1> QED
  BY <1>2, <1>3, <1>4 DEF StoreOK

LEMMA EraseIs ==
  ASSUME StoreOK, NEW n \in AllNs, store' = Erase(store, n), kept' = [o \in AllNs |-> kept'[o]]
  PROVE  /\ StoreOK' /\ store'.mem = store.mem /\ store'.memo = store.memo
         /\ \A o \in AllNs \ {n} : store'.disk[o] = store.disk[o]
<1>1. CASE store' = store
  BY <1>1, ZenonT(40) DEF StoreOK, IsDir
<1>2. CASE store' = [store EXCEPT !.disk[n] = EmptyDir]
  <2> DEFINE disk == [store.disk EXCEPT ![n] = EmptyDir]
  <2>1. disk = [o \in AllNs |-> disk[o]] /\ disk[n] = EmptyDir /\ \A o \in AllNs \ {n} : disk[o] = store.disk[o]
    BY DEF StoreOK
  <2>2. store' = [store EXCEPT !.disk = disk]
    BY <1>2 DEF StoreOK, StoreFields
  <2> HIDE DEF disk
  <2>3. store'.memo = store.memo /\ store'.mem = store.mem /\ store'.disk = disk
        /\ store' = [f \in StoreFields |-> store'[f]]
    BY <2>2 DEF StoreOK, StoreFields
  <2>4. IsDir(EmptyDir)
    BY DEF IsDir, EmptyDir, DirFields
  <2>5. ASSUME NEW o \in AllNs PROVE IsDir(store.disk[o])'
    <3>1. IsDir(disk[o])
      BY <2>1, <2>4 DEF StoreOK
    <3> QED
      BY <2>3, <3>1 DEF IsDir
  <2>6. StoreOK'
    BY <2>1, <2>3, <2>5 DEF StoreOK
  <2> QED
    BY <2>1, <2>3, <2>6
<1> QED
  BY <1>1, <1>2 DEF Erase

\* A manager that is opened anew reads the manifest on disk.
LEMMA OpenIs ==
  ASSUME StoreOK, NEW n \in ExtraNs, store.memo[n] = 0, store' = OpenOrCreate(store, n).store, kept' = kept
  PROVE  /\ StoreOK'
         /\ store'.memo[n] = Len(store.mem) + 1 /\ OpenOrCreate(store, n).mgr = Len(store.mem) + 1
         /\ \A o \in ExtraNs \ {n} : store'.memo[o] = store.memo[o]
         /\ Len(store'.mem) = Len(store.mem) + 1
         /\ \A k \in 1..Len(store.mem) : store'.mem[k] = store.mem[k]
         /\ store'.mem[Len(store.mem) + 1] = store.disk[n].tables
         /\ \A o \in AllNs : /\ store'.disk[o].tables = store.disk[o].tables
                             /\ store'.disk[o].files = store.disk[o].files
                             /\ store'.disk[o].manifest = store.disk[o].manifest
<1> DEFINE memo == [store.memo EXCEPT ![n] = Len(store.mem) + 1]
<1> DEFINE mem == Append(store.mem, store.disk[n].tables)
<1> DEFINE dir == [store.disk[n] EXCEPT !.dir = TRUE]
<1> DEFINE disk == [store.disk EXCEPT ![n] = dir]
<1>0. n \in AllNs /\ IsDir(store.disk[n])
  BY DEF AllNs, StoreOK
<1>1. OpenOrCreate(store, n) =
        [store |-> [store EXCEPT !.memo[n] = Len(store.mem) + 1,
                                 !.mem = Append(@, store.disk[n].tables),
                                 !.disk[n].dir = TRUE],
         mgr |-> Len(store.mem) + 1]
  BY DEF OpenOrCreate
<1>2. store' = [store EXCEPT !.memo = memo, !.mem = mem, !.disk = disk]
  BY <1>0, <1>1 DEF StoreOK, StoreFields, IsDir, DirFields
<1>3. OpenOrCreate(store, n).mgr = Len(store.mem) + 1
  BY <1>1
<1>4. /\ memo \in [ExtraNs -> Nat] /\ memo[n] = Len(store.mem) + 1
      /\ \A o \in ExtraNs \ {n} : memo[o] = store.memo[o]
  BY DEF StoreOK
<1>5. /\ Len(mem) = Len(store.mem) + 1 /\ mem = [k \in 1..Len(mem) |-> mem[k]]
      /\ \A k \in 1..Len(store.mem) : mem[k] = store.mem[k]
      /\ mem[Len(store.mem) + 1] = store.disk[n].tables
  BY DEF StoreOK
<1>6. /\ IsDir(dir) /\ dir.tables = store.disk[n].tables /\ dir.files = store.disk[n].files
      /\ dir.manifest = store.disk[n].manifest
  BY <1>0 DEF IsDir, DirFields
<1> HIDE DEF dir
<1>7. disk = [o \in AllNs |-> disk[o]] /\ disk[n] = dir /\ \A o \in AllNs \ {n} : disk[o] = store.disk[o]
  BY <1>0 DEF StoreOK
<1> HIDE DEF memo, mem, disk
<1>8. store'.memo = memo /\ store'.mem = mem /\ store'.disk = disk
      /\ store' = [f \in StoreFields |-> store'[f]]
  BY <1>2 DEF StoreOK, StoreFields
<1>9. ASSUME NEW o \in AllNs PROVE IsDir(store.disk[o])'
  <2>1. IsDir(disk[o])
    BY <1>6, <1>7 DEF StoreOK
  <2> QED
    BY <1>8, <2>1 DEF IsDir
<1>10. StoreOK'
  <2>1. Len(store'.mem) \in Nat \ {0}
    BY <1>5, <1>8 DEF StoreOK
  <2> QED
    BY <1>4, <1>5, <1>7, <1>8, <1>9, <2>1 DEF StoreOK
<1>11. \A o \in AllNs : /\ store'.disk[o].tables = store.disk[o].tables
                        /\ store'.disk[o].files = store.disk[o].files
                        /\ store'.disk[o].manifest = store.disk[o].manifest
  BY <1>6, <1>7, <1>8
<1> QED
  BY <1>3, <1>4, <1>5, <1>8, <1>10, <1>11

-----------------------------------------------------------------------------
\* Steps that change the store.

\* open_or_create under the write lock.
LEMMA CreateStep == ASSUME NsInv, NEW c \in Client, Create(c) PROVE NsInv'
<1> DEFINE n == NsOf(conn[c].made[1])
<1> DEFINE o == OpenOrCreate(store, n)
<1> DEFINE r == [conn[c] EXCEPT !.at = "run", !.mgr = o.mgr]
<1>1. /\ IsConn(conn[c]) /\ n \in ExtraNs /\ n \in AllNs /\ n # DefaultNs
      /\ store' = o.store /\ Set(c, r) /\ kept' = kept
  BY NsAssumption DEF NsInv, ConnOK, CallInv, PlaceInv, Create, E, AllNs
<1>2. IsConn(r) /\ r.at = "run" /\ r.mgr = o.mgr /\ r.made = conn[c].made /\ r.dropped = conn[c].dropped
  BY <1>1 DEF IsConn, ConnFields
<1> HIDE DEF r
<1>3. CASE store.memo[n] # 0
  <2>1. store' = store /\ o.mgr = store.memo[n]
    BY <1>1, <1>3 DEF OpenOrCreate
  <2> HIDE DEF o
  <2>2. CallInv(r)
    <3>1. PlaceInv(r)
      BY <1>1, <1>2 DEF PlaceInv
    <3>2. HolderInv(r)
      <4>1. r.mgr \in Nat /\ r.mgr # 0 /\ r.mgr # 1 /\ r.mgr <= Len(store.mem) /\ Len(store.mem) \in Nat
        <5>1. store.memo[n] \in Nat /\ Len(store.mem) \in Nat
          BY <1>1 DEF NsInv, StoreOK
        <5>2. store.memo[n] # 1 /\ store.memo[n] <= Len(store.mem)
          BY <1>1 DEF NsInv, MemoInv
        <5> QED
          BY <1>2, <1>3, <2>1, <5>1, <5>2
      <4>2. \A k \in ExtraNs : k # n => store.memo[k] # r.mgr
        BY <1>1, <1>2, <1>3, <2>1 DEF NsInv, MemoInv
      <4> QED
        BY <1>1, <1>2, <4>1, <4>2 DEF HolderInv
    <3>3. StorerInv(r)
      BY <1>1, <1>2, <2>1 DEF StorerInv, ManagerOf
    <3> QED
      BY <3>1, <3>2, <3>3 DEF CallInv
  <2> QED
    BY <1>1, <1>2, <2>1, <2>2, ConnMoves DEF Set
<1>4. CASE store.memo[n] = 0
  <2> DEFINE L == Len(store.mem)
  <2>1. /\ StoreOK'
        /\ store'.memo[n] = L + 1 /\ o.mgr = L + 1
        /\ \A k \in ExtraNs \ {n} : store'.memo[k] = store.memo[k]
        /\ Len(store'.mem) = L + 1
        /\ \A k \in 1..L : store'.mem[k] = store.mem[k]
        /\ store'.mem[L + 1] = store.disk[n].tables
        /\ \A k \in AllNs : /\ store'.disk[k].tables = store.disk[k].tables
                            /\ store'.disk[k].files = store.disk[k].files
                            /\ store'.disk[k].manifest = store.disk[k].manifest
    BY <1>1, <1>4, OpenIs DEF NsInv
  <2> HIDE DEF o
  <2>2. L \in Nat /\ L >= 1 /\ \A k \in ExtraNs : store.memo[k] \in Nat /\ store.memo[k] <= L /\ store.memo[k] # 1
    BY SMTT(30) DEF NsInv, StoreOK, MemoInv
  <2> HIDE DEF L
  <2>3. ConnOK' /\ conn'[c] = r /\ \A d \in Client \ {c} : conn'[d] = conn[d]
    BY <1>1, <1>2, SetIs DEF NsInv
  <2>4. MemoInv'
    <3>1. \A k \in ExtraNs \ {n} : store'.memo[k] = store.memo[k] /\ store.memo[k] # L + 1
      BY <2>1, <2>2
    <3>2. ASSUME NEW k \in ExtraNs
          PROVE  store'.memo[k] # 1 /\ store'.memo[k] <= L + 1
      BY <2>1, <2>2, <3>1
    <3>3. ASSUME NEW k \in ExtraNs, NEW j \in ExtraNs, j # k, store'.memo[k] # 0
          PROVE  store'.memo[j] # store'.memo[k]
      <4>1. CASE k = n \/ j = n
        BY <2>1, <3>1, <3>3, <4>1
      <4>2. CASE k # n /\ j # n
        BY <3>1, <3>3, <4>2 DEF NsInv, MemoInv
      <4> QED
        BY <4>1, <4>2
    <3> QED
      BY <2>1, <3>2, <3>3 DEF MemoInv
  <2>5. KeptInv'
    <3>1. ASSUME NEW k \in AllNs, ManagerOf(k)' # 0 PROVE kept[k] \subseteq store'.mem[ManagerOf(k)']
      <4>1. CASE k = n
        <5>1. ManagerOf(k)' = L + 1
          BY <1>1, <2>1, <4>1 DEF ManagerOf
        <5> QED
          BY <1>1, <2>1, <4>1, <5>1 DEF NsInv, KeptInv
      <4>2. CASE k # n
        <5>1. ManagerOf(k)' = ManagerOf(k) /\ ManagerOf(k) \in 1..L
          BY <2>1, <2>2, <3>1, <4>2 DEF ManagerOf, AllNs
        <5> QED
          BY <2>1, <3>1, <5>1 DEF NsInv, KeptInv
      <4> QED
        BY <4>1, <4>2
    <3>2. ASSUME NEW k \in AllNs
          PROVE  /\ kept[k] \subseteq store'.disk[k].tables /\ kept[k] \subseteq store'.disk[k].files
                 /\ kept[k] # {} => store'.disk[k].manifest
      BY <2>1 DEF NsInv, KeptInv
    <3> QED
      BY <1>1, <3>1, <3>2 DEF KeptInv
  <2>6. CallInv(conn[c])'
    <3>1. PlaceInv(conn[c])'
      BY <1>1, <1>2, <2>3 DEF PlaceInv
    <3>2. HolderInv(conn[c])'
      <4>1. \A k \in ExtraNs : k # n => store'.memo[k] # L + 1
        BY <2>1, <2>2
      <4> QED
        BY <1>1, <1>2, <2>1, <2>2, <2>3, <4>1 DEF HolderInv
    <3>3. StorerInv(conn[c])'
      BY <1>1, <1>2, <2>1, <2>3 DEF StorerInv, ManagerOf
    <3> QED
      BY <3>1, <3>2, <3>3 DEF CallInv
  <2>7. ASSUME NEW d \in Client, d # c PROVE CallInv(conn[d])'
    <3>1. \A k \in ExtraNs : store'.memo[k] \in {store.memo[k], 0} \/ store'.memo[k] > L
      BY <2>1, <2>2
    <3>2. Storing(d, NsOf(E(d))) =>
            /\ ManagerOf(NsOf(E(d))) # 0 => ManagerOf(NsOf(E(d)))' = ManagerOf(NsOf(E(d)))
            /\ TableOf(E(d)) \in store.disk[NsOf(E(d))].files => TableOf(E(d)) \in store'.disk[NsOf(E(d))].files
      <4> SUFFICES ASSUME Storing(d, NsOf(E(d)))
                   PROVE  /\ ManagerOf(NsOf(E(d))) # 0 => ManagerOf(NsOf(E(d)))' = ManagerOf(NsOf(E(d)))
                          /\ TableOf(E(d)) \in store.disk[NsOf(E(d))].files =>
                                TableOf(E(d)) \in store'.disk[NsOf(E(d))].files
        OBVIOUS
      <4>1. NsOf(E(d)) \in AllNs
        BY DEF NsInv, CallInv, PlaceInv, Storing, Working, E
      <4>2. ASSUME NEW k \in AllNs, ManagerOf(k) # 0 PROVE (IF k = DefaultNs THEN 1 ELSE store'.memo[k]) = ManagerOf(k)
        BY <1>1, <1>4, <2>1, <4>2 DEF ManagerOf, AllNs
      <4>3. E(d)' = E(d)
        BY <2>3, <2>7 DEF E
      <4> QED
        BY <2>1, <4>1, <4>2, <4>3 DEF ManagerOf
    <3>3. Len(store'.mem) \in Nat /\ Len(store.mem) <= Len(store'.mem)
      BY <2>1, <2>2 DEF L
    <3> QED
      BY <2>3, <2>7, <3>1, <3>2, <3>3, Bystander DEF L
  <2> QED
    BY <2>1, <2>3, <2>4, <2>5, <2>6, <2>7 DEF NsInv
<1> QED
  BY <1>3, <1>4

\* A store step of c that opens and forgets no manager.
LEMMA Onlooker ==
  ASSUME NsInv, NEW d \in Client, store'.memo = store.memo, Len(store'.mem) = Len(store.mem),
         conn'[d].at = conn[d].at, conn'[d].made = conn[d].made, conn'[d].mgr = conn[d].mgr,
         Storing(d, NsOf(E(d))) /\ ~conn'[d].dropped =>
             /\ ~conn[d].dropped
             /\ TableOf(E(d)) \in store.disk[NsOf(E(d))].files =>
                   TableOf(E(d)) \in store'.disk[NsOf(E(d))].files
  PROVE  CallInv(conn[d])'
<1>1. ManagerOf(NsOf(E(d)))' = ManagerOf(NsOf(E(d)))
  BY DEF ManagerOf, E
<1>2. Len(store'.mem) \in Nat /\ Len(store.mem) <= Len(store'.mem)
  BY DEF NsInv, StoreOK
<1>3. \A o \in ExtraNs : store'.memo[o] \in {store.memo[o], 0} \/ store'.memo[o] > Len(store.mem)
  OBVIOUS
<1> QED
  BY <1>1, <1>2, <1>3, Bystander

\* A step of c, which holds manager m of namespace n and rewrites its manifest.
LEMMA ManifestKept ==
  ASSUME NsInv, NEW n \in AllNs, NEW m \in 1..Len(store.mem), m = 1 <=> n = DefaultNs,
         \A o \in ExtraNs : o # n => store.memo[o] # m,
         store'.memo = store.memo,
         \A k \in 1..Len(store.mem) : k # m => store'.mem[k] = store.mem[k],
         \A o \in AllNs \ {n} : store'.disk[o] = store.disk[o] /\ kept'[o] = kept[o],
         kept'[n] \subseteq store'.disk[n].tables, kept'[n] \subseteq store'.disk[n].files,
         store'.disk[n].manifest, store'.mem[m] = store'.disk[n].tables,
         ManagerOf(n) # m => kept'[n] \subseteq kept[n]
  PROVE  KeptInv'
<1>1. ASSUME NEW k \in AllNs
      PROVE  /\ kept'[k] \subseteq store'.disk[k].tables /\ kept'[k] \subseteq store'.disk[k].files
             /\ kept'[k] # {} => store'.disk[k].manifest
  BY DEF NsInv, KeptInv
<1>2. ASSUME NEW k \in AllNs, ManagerOf(k) # 0 PROVE kept'[k] \subseteq store'.mem[ManagerOf(k)]
  <2>1. ManagerOf(k) \in 1..Len(store.mem)
    <3>1. CASE k = DefaultNs
      BY <3>1 DEF ManagerOf, NsInv, StoreOK
    <3>2. CASE k # DefaultNs
      <4>1. k \in ExtraNs /\ ManagerOf(k) = store.memo[k]
        BY <3>2 DEF AllNs, ManagerOf
      <4>2. store.memo[k] \in Nat /\ Len(store.mem) \in Nat
        BY <4>1 DEF NsInv, StoreOK
      <4>3. store.memo[k] <= Len(store.mem)
        BY <4>1 DEF NsInv, MemoInv
      <4> QED
        BY <1>2, <4>1, <4>2, <4>3
    <3> QED
      BY <3>1, <3>2
  <2>2. kept[k] \subseteq store.mem[ManagerOf(k)]
    BY <1>2 DEF NsInv, KeptInv
  <2>3. CASE ManagerOf(k) = m
    <3>1. k = n
      BY <2>3 DEF ManagerOf, AllNs
    <3> QED
      BY <2>3, <3>1
  <2>4. CASE ManagerOf(k) # m
    <3>1. kept'[k] \subseteq kept[k]
      BY <2>4
    <3> QED
      BY <2>1, <2>2, <2>4, <3>1
  <2> QED
    BY <2>3, <2>4
<1>3. \A k \in AllNs : ManagerOf(k)' = ManagerOf(k)
  BY DEF ManagerOf
<1> QED
  BY <1>1, <1>2, <1>3 DEF KeptInv

\* What a call that is under way holds.
LEMMA Held ==
  ASSUME NsInv, NEW c \in Client, conn[c].at \in Holders
  PROVE  /\ NsOf(E(c)) \in AllNs
         /\ conn[c].mgr \in 1..Len(store.mem)
         /\ conn[c].mgr = 1 <=> NsOf(E(c)) = DefaultNs
         /\ \A o \in ExtraNs : o # NsOf(E(c)) => store.memo[o] # conn[c].mgr
BY DEF NsInv, CallInv, PlaceInv, HolderInv, Holders, Working, E

\* The rows are written.
LEMMA ProduceStep == ASSUME NsInv, NEW c \in Client, Produce(c) PROVE NsInv'
<1>1. IsConn(conn[c]) /\ CallInv(conn[c]) /\ conn[c].at = "write" /\ kept' = kept
  BY DEF NsInv, ConnOK, Produce
<1>2. CASE store' = store /\ \E a : Set(c, Answered(c, conn[c], a))
  BY <1>1, <1>2, AnsweredMoves
<1>3. ASSUME NEW x, store' = WriteParquet(store, NsOf(E(c)), TableOf(E(c))),
             Set(c, [conn[c] EXCEPT !.at = "upsert", !.answer = x])
      PROVE  NsInv'
  <2> DEFINE n == NsOf(E(c))
  <2> DEFINE t == TableOf(E(c))
  <2> DEFINE r == [conn[c] EXCEPT !.at = "upsert", !.answer = x]
  <2>1. IsConn(r) /\ r.at = "upsert" /\ r.mgr = conn[c].mgr /\ r.made = conn[c].made /\ r.dropped = conn[c].dropped
    BY <1>1 DEF IsConn, ConnFields
  <2>2. Set(c, r) /\ n \in AllNs
    BY <1>1, <1>3, Held DEF Holders
  <2> HIDE DEF r
  <2>3. ConnOK' /\ conn'[c] = r /\ \A d \in Client \ {c} : conn'[d] = conn[d]
    BY <2>1, <2>2, SetIs DEF NsInv
  <2>4. /\ StoreOK' /\ store'.memo = store.memo /\ store'.mem = store.mem
        /\ \A o \in AllNs \ {n} : store'.disk[o] = store.disk[o]
        /\ store'.disk[n].tables = store.disk[n].tables
        /\ store'.disk[n].manifest = store.disk[n].manifest
        /\ store'.disk[n].files = store.disk[n].files \cup {t}
    BY <1>1, <1>3, <2>2, WriteParquetIs DEF NsInv
  <2>5. MemoInv' /\ KeptInv'
    <3>1. MemoInv'
      BY <2>4 DEF NsInv, MemoInv
    <3>2. ASSUME NEW o \in AllNs
          PROVE  /\ kept[o] \subseteq store'.disk[o].tables /\ kept[o] \subseteq store'.disk[o].files
                 /\ kept[o] # {} => store'.disk[o].manifest
                 /\ ManagerOf(o) # 0 => kept[o] \subseteq store.mem[ManagerOf(o)]
      BY <2>4 DEF NsInv, KeptInv
    <3>3. \A o \in AllNs : ManagerOf(o)' = ManagerOf(o)
      BY <2>4 DEF ManagerOf
    <3> QED
      BY <1>1, <2>4, <3>1, <3>2, <3>3 DEF KeptInv
  <2>6. CallInv(conn[c])'
    <3>1. PlaceInv(conn[c])'
      BY <1>1, <2>1, <2>3 DEF CallInv, PlaceInv, Working
    <3>2. HolderInv(conn[c])'
      BY <1>1, <2>1, <2>3, <2>4 DEF CallInv, HolderInv, Holders
    <3>3. StorerInv(conn[c])'
      <4>1. conn[c].made[1].op \in Storers /\ ~conn[c].dropped => conn[c].mgr = ManagerOf(NsOf(conn[c].made[1]))
        BY <1>1 DEF CallInv, StorerInv, Holders
      <4>2. ManagerOf(NsOf(conn[c].made[1]))' = ManagerOf(NsOf(conn[c].made[1]))
        BY <2>1, <2>3, <2>4 DEF ManagerOf
      <4>3. TableOf(conn[c].made[1]) \in store'.disk[NsOf(conn[c].made[1])].files
        BY <2>4 DEF E
      <4> QED
        BY <2>1, <2>3, <4>1, <4>2, <4>3 DEF StorerInv
    <3> QED
      BY <3>1, <3>2, <3>3 DEF CallInv
  <2>7. ASSUME NEW d \in Client, d # c PROVE CallInv(conn[d])'
    <3>1. conn'[d] = conn[d]
      BY <2>3, <2>7
    <3>2. Storing(d, NsOf(E(d))) => NsOf(E(d)) \in AllNs
      BY DEF NsInv, CallInv, PlaceInv, Storing, Working, E
    <3> HIDE DEF n, t
    <3>3. \A o \in AllNs : \A u : u \in store.disk[o].files => u \in store'.disk[o].files
      BY <2>4
    <3> QED
      BY <2>4, <3>1, <3>2, <3>3, Onlooker
  <2> QED
    BY <2>3, <2>4, <2>5, <2>6, <2>7 DEF NsInv
<1> QED
  BY <1>2, <1>3 DEF Produce

\* The table is entered in the manifest.
LEMMA StoreStep == ASSUME NsInv, NEW c \in Client, Store(c) PROVE NsInv'
<1> DEFINE n == NsOf(E(c))
<1> DEFINE t == TableOf(E(c))
<1> DEFINE m == conn[c].mgr
<1>1. IsConn(conn[c]) /\ CallInv(conn[c]) /\ conn[c].at = "upsert"
  BY DEF NsInv, ConnOK, Store
<1>2. CASE UNCHANGED <<store, kept>> /\ \E a : Set(c, Answered(c, conn[c], a))
  BY <1>2, AnsweredMoves
<1>3. ASSUME NEW a, store' = Upsert(store, n, m, t), Set(c, Answered(c, conn[c], a)),
             kept' = [kept EXCEPT ![n] = IF conn[c].dropped THEN @ ELSE @ \cup {t}]
      PROVE  NsInv'
  <2>1. /\ n \in AllNs /\ m \in 1..Len(store.mem) /\ (m = 1 <=> n = DefaultNs)
        /\ \A o \in ExtraNs : o # n => store.memo[o] # m
    BY <1>1, Held DEF Holders
  <2>2. ~conn[c].dropped => m = ManagerOf(n) /\ t \in store.disk[n].files
    <3>1. conn[c].made[1].op \in Storers
      BY <1>1 DEF CallInv, PlaceInv
    <3> QED
      BY <1>1, <3>1 DEF CallInv, StorerInv, Holders, E
  <2>3. /\ kept' = [o \in AllNs |-> kept'[o]]
        /\ kept'[n] = IF conn[c].dropped THEN kept[n] ELSE kept[n] \cup {t}
        /\ \A o \in AllNs \ {n} : kept'[o] = kept[o]
    BY <1>3, <2>1 DEF NsInv, StoreOK
  <2>4. IsConn(Answered(c, conn[c], a)) /\ Answered(c, conn[c], a).at \notin Working
    BY <1>1, AnsweredIsConn DEF Working
  <2>5. ConnOK' /\ conn'[c].at \notin Working /\ \A d \in Client \ {c} : conn'[d] = conn[d]
    BY <1>3, <2>4, SetIs DEF NsInv
  <2> HIDE DEF n, t, m
  <2>6. /\ StoreOK' /\ store'.memo = store.memo /\ Len(store'.mem) = Len(store.mem)
        /\ store'.mem[m] = store.disk[n].tables \cup {t}
        /\ \A k \in 1..Len(store.mem) : k # m => store'.mem[k] = store.mem[k]
        /\ store'.disk[n].manifest
        /\ store'.disk[n].tables = store.disk[n].tables \cup {t}
        /\ store'.disk[n].files = store.disk[n].files
        /\ \A o \in AllNs \ {n} : store'.disk[o] = store.disk[o]
    BY <1>3, <2>1, <2>3, UpsertIs DEF NsInv
  <2>7. MemoInv'
    BY <2>6 DEF NsInv, MemoInv
  <2>8. KeptInv'
    <3>1. kept[n] \subseteq store.disk[n].tables /\ kept[n] \subseteq store.disk[n].files
      BY <2>1 DEF NsInv, KeptInv
    <3>2. kept'[n] \subseteq store'.disk[n].tables /\ kept'[n] \subseteq store'.disk[n].files
      BY <2>2, <2>3, <2>6, <3>1
    <3>3. ManagerOf(n) # m => kept'[n] \subseteq kept[n]
      BY <2>2, <2>3
    <3>4. store'.mem[m] = store'.disk[n].tables
      BY <2>6
    <3>5. \A o \in AllNs \ {n} : store'.disk[o] = store.disk[o] /\ kept'[o] = kept[o]
      BY <2>3, <2>6
    <3>6. store'.memo = store.memo /\ store'.disk[n].manifest
          /\ \A k \in 1..Len(store.mem) : k # m => store'.mem[k] = store.mem[k]
      BY <2>6
    <3> QED
      BY <2>1, <3>2, <3>3, <3>4, <3>5, <3>6, ManifestKept
  <2>9. ASSUME NEW d \in Client PROVE CallInv(conn[d])'
    <3>1. CASE d = c
      BY <2>5, <3>1, RestNext
    <3>2. CASE d # c
      <4>1. conn'[d] = conn[d]
        BY <2>5, <3>2
      <4>2. Storing(d, NsOf(E(d))) => NsOf(E(d)) \in AllNs
        BY DEF NsInv, CallInv, PlaceInv, Storing, Working, E
      <4>3. \A o \in AllNs : store'.disk[o].files = store.disk[o].files
        BY <2>6
      <4> QED
        BY <2>6, <4>1, <4>2, <4>3, Onlooker
    <3> QED
      BY <3>1, <3>2
  <2> QED
    BY <2>5, <2>6, <2>7, <2>8, <2>9 DEF NsInv
<1> QED
  BY <1>2, <1>3 DEF Store

\* A table is dropped; the calls that are storing it are marked.
LEMMA DropMaterializedStep == ASSUME NsInv, NEW c \in Client, DropMaterialized(c) PROVE NsInv'
<1> DEFINE n == NsOf(E(c))
<1> DEFINE t == TableOf(E(c))
<1> DEFINE m == conn[c].mgr
<1>1. IsConn(conn[c]) /\ conn[c].at = "run"
  BY DEF NsInv, ConnOK, DropMaterialized
<1>2. CASE UNCHANGED <<store, kept>> /\ \E a : Set(c, Answered(c, conn[c], a))
  BY <1>2, AnsweredMoves
<1>3. ASSUME NEW a, store' = DropTable(store, n, m, t), kept' = [kept EXCEPT ![n] = @ \ {t}],
             conn' = Meeting(c, Answered(c, conn[c], a), n, Some(t))
      PROVE  NsInv'
  <2>1. /\ n \in AllNs /\ m \in 1..Len(store.mem) /\ (m = 1 <=> n = DefaultNs)
        /\ \A o \in ExtraNs : o # n => store.memo[o] # m
    BY <1>1, Held DEF Holders
  <2>2. /\ kept' = [o \in AllNs |-> kept'[o]] /\ kept'[n] = kept[n] \ {t}
        /\ \A o \in AllNs \ {n} : kept'[o] = kept[o]
    BY <1>3, <2>1 DEF NsInv, StoreOK
  <2>3. IsConn(Answered(c, conn[c], a)) /\ Answered(c, conn[c], a).at \notin Working
    BY <1>1, AnsweredIsConn DEF Working
  <2>4. /\ ConnOK' /\ conn'[c].at \notin Working
        /\ \A d \in Client \ {c} :
              /\ conn'[d].at = conn[d].at /\ conn'[d].made = conn[d].made /\ conn'[d].mgr = conn[d].mgr
              /\ conn'[d].dropped \in {conn[d].dropped, TRUE}
              /\ Storing(d, n) /\ Some(t) \in {None, Some(TableOf(E(d)))} => conn'[d].dropped
    BY <1>3, <2>3, MeetingIs DEF NsInv
  <2> HIDE DEF n, t, m
  <2>5. /\ StoreOK' /\ store'.memo = store.memo /\ Len(store'.mem) = Len(store.mem)
        /\ store'.mem[m] = store.disk[n].tables \ {t}
        /\ \A k \in 1..Len(store.mem) : k # m => store'.mem[k] = store.mem[k]
        /\ store'.disk[n].manifest
        /\ store'.disk[n].tables = store.disk[n].tables \ {t}
        /\ store'.disk[n].files \in {store.disk[n].files, store.disk[n].files \ {t}}
        /\ \A o \in AllNs \ {n} : store'.disk[o] = store.disk[o]
    BY <1>3, <2>1, <2>2, DropTableIs DEF NsInv
  <2>6. MemoInv'
    BY <2>5 DEF NsInv, MemoInv
  <2>7. KeptInv'
    <3>1. kept[n] \subseteq store.disk[n].tables /\ kept[n] \subseteq store.disk[n].files
      BY <2>1 DEF NsInv, KeptInv
    <3>2. kept'[n] \subseteq store'.disk[n].tables /\ kept'[n] \subseteq store'.disk[n].files
      BY <2>2, <2>5, <3>1
    <3>3. ManagerOf(n) # m => kept'[n] \subseteq kept[n]
      BY <2>2
    <3>4. store'.mem[m] = store'.disk[n].tables
      BY <2>5
    <3>5. \A o \in AllNs \ {n} : store'.disk[o] = store.disk[o] /\ kept'[o] = kept[o]
      BY <2>2, <2>5
    <3>6. store'.memo = store.memo /\ store'.disk[n].manifest
          /\ \A k \in 1..Len(store.mem) : k # m => store'.mem[k] = store.mem[k]
      BY <2>5
    <3> QED
      BY <2>1, <3>2, <3>3, <3>4, <3>5, <3>6, ManifestKept
  <2>8. ASSUME NEW d \in Client PROVE CallInv(conn[d])'
    <3>1. CASE d = c
      BY <2>4, <3>1, RestNext
    <3>2. CASE d # c
      <4> DEFINE o == NsOf(E(d))
      <4> DEFINE u == TableOf(E(d))
      <4>1. conn'[d].at = conn[d].at /\ conn'[d].made = conn[d].made /\ conn'[d].mgr = conn[d].mgr
        BY <2>4, <3>2
      <4>2. ~conn'[d].dropped => ~conn[d].dropped
        BY <2>4, <3>2
      <4>3. ASSUME Storing(d, o), ~conn'[d].dropped PROVE u \in store.disk[o].files => u \in store'.disk[o].files
        <5>1. o \in AllNs
          BY <4>3 DEF NsInv, CallInv, PlaceInv, Storing, Working, E
        <5>2. CASE o # n
          BY <2>5, <5>1, <5>2
        <5>3. CASE o = n
          <6>1. Some(t) # Some(u)
            BY <2>4, <3>2, <4>3, <5>3
          <6>2. t # u
            BY <6>1
          <6> HIDE DEF u
          <6> QED
            BY <2>5, <5>3, <6>2
        <5> QED
          BY <5>2, <5>3
      <4> QED
        BY <2>5, <4>1, <4>2, <4>3, Onlooker
    <3> QED
      BY <3>1, <3>2
  <2> QED
    BY <2>4, <2>5, <2>6, <2>7, <2>8 DEF NsInv
<1> QED
  BY <1>2, <1>3 DEF DropMaterialized

\* The namespace is forgotten; the calls that are storing in it are marked.
LEMMA DropNamespaceStep == ASSUME NsInv, NEW c \in Client, DropNamespace(c) PROVE NsInv'
<1> DEFINE n == TableOf(E(c))
<1>1. IsConn(conn[c]) /\ conn[c].at = "open" /\ E(c).op = "drop_namespace"
  BY DEF NsInv, ConnOK, DropNamespace
<1>2. CASE UNCHANGED <<store, kept>> /\ \E a : Set(c, Answered(c, conn[c], a))
  BY <1>2, AnsweredMoves
<1>3. CASE /\ Removable(n).ok /\ store' = Forget(store, n) /\ kept' = [kept EXCEPT ![n] = {}]
           /\ conn' = Meeting(c, [conn[c] EXCEPT !.at = "erase", !.mgr = store.memo[n]], n, None)
  <2> DEFINE r == [conn[c] EXCEPT !.at = "erase", !.mgr = store.memo[n]]
  <2>1. n \in ExtraNs /\ n \in AllNs /\ NsOf(E(c)) = n /\ n # DefaultNs
    BY <1>1, <1>3, NsAssumption DEF Removable, ValidateNamespace, Internal, Err, AllNs, NsOf
  <2>2. IsConn(r) /\ r.at = "erase" /\ r.made = conn[c].made
    BY <1>1 DEF IsConn, ConnFields
  <2>3. /\ kept' = [o \in AllNs |-> kept'[o]] /\ kept'[n] = {}
        /\ \A o \in AllNs \ {n} : kept'[o] = kept[o]
    BY <1>3, <2>1 DEF NsInv, StoreOK
  <2>4. conn' = Meeting(c, r, n, None)
    BY <1>3
  <2> HIDE DEF r
  <2>5. /\ ConnOK' /\ conn'[c] = r
        /\ \A d \in Client \ {c} :
              /\ conn'[d].at = conn[d].at /\ conn'[d].made = conn[d].made /\ conn'[d].mgr = conn[d].mgr
              /\ conn'[d].dropped \in {conn[d].dropped, TRUE}
              /\ Storing(d, n) /\ None \in {None, Some(TableOf(E(d)))} => conn'[d].dropped
    BY <2>2, <2>4, MeetingIs DEF NsInv
  <2>6. CallInv(conn[c])'
    <3>1. NsOf(conn'[c].made[1]) = n
      BY <2>1, <2>2, <2>5 DEF E
    <3> HIDE DEF n
    <3>2. conn'[c].at = "erase"
      BY <2>2, <2>5
    <3> QED
      BY <2>1, <3>1, <3>2 DEF CallInv, PlaceInv, HolderInv, StorerInv, Holders
  <2> HIDE DEF n
  <2>7. /\ StoreOK' /\ store'.mem = store.mem /\ store'.disk = store.disk
        /\ store'.memo[n] = 0
        /\ \A o \in ExtraNs \ {n} : store'.memo[o] = store.memo[o]
    BY <1>3, <2>1, <2>3, ForgetIs DEF NsInv
  <2>8. MemoInv'
    <3>1. Len(store.mem) \in Nat
      BY DEF NsInv, StoreOK
    <3>2. ASSUME NEW k \in ExtraNs
          PROVE  /\ store'.memo[k] # 1 /\ store'.memo[k] <= Len(store.mem)
                 /\ \A j \in ExtraNs : j # k /\ store'.memo[k] # 0 => store'.memo[j] # store'.memo[k]
      BY <2>7, <3>1 DEF NsInv, MemoInv
    <3> QED
      BY <2>7, <3>2 DEF MemoInv
  <2>9. KeptInv'
    <3>1. ASSUME NEW o \in AllNs
          PROVE  /\ kept'[o] \subseteq store.disk[o].tables /\ kept'[o] \subseteq store.disk[o].files
                 /\ kept'[o] # {} => store.disk[o].manifest
      BY <2>3 DEF NsInv, KeptInv
    <3>2. ASSUME NEW o \in AllNs, ManagerOf(o)' # 0 PROVE kept'[o] \subseteq store.mem[ManagerOf(o)']
      <4>1. o # n /\ ManagerOf(o)' = ManagerOf(o)
        BY <2>1, <2>7, <3>2 DEF ManagerOf, AllNs
      <4> QED
        BY <2>3, <3>2, <4>1 DEF NsInv, KeptInv
    <3> QED
      BY <2>7, <3>1, <3>2 DEF KeptInv
  <2>10. ASSUME NEW d \in Client, d # c PROVE CallInv(conn[d])'
    <3>1. conn'[d].at = conn[d].at /\ conn'[d].made = conn[d].made /\ conn'[d].mgr = conn[d].mgr
      BY <2>5, <2>10
    <3>2. ~conn'[d].dropped => ~conn[d].dropped /\ ~Storing(d, n)
      BY <2>5, <2>10
    <3>3. \A k \in ExtraNs : store'.memo[k] \in {store.memo[k], 0} \/ store'.memo[k] > Len(store.mem)
      BY <2>7
    <3>4. Len(store'.mem) \in Nat /\ Len(store.mem) <= Len(store'.mem)
      BY <2>7 DEF NsInv, StoreOK
    <3>5. ASSUME Storing(d, NsOf(E(d))), ~conn'[d].dropped
          PROVE  /\ ManagerOf(NsOf(E(d))) # 0 => ManagerOf(NsOf(E(d)))' = ManagerOf(NsOf(E(d)))
                 /\ TableOf(E(d)) \in store.disk[NsOf(E(d))].files => TableOf(E(d)) \in store'.disk[NsOf(E(d))].files
      <4>1. NsOf(E(d)) \in AllNs /\ NsOf(E(d)) # n
        BY <3>2, <3>5 DEF NsInv, CallInv, PlaceInv, Storing, Working, E
      <4>2. E(d)' = E(d)
        BY <3>1 DEF E
      <4> QED
        BY <2>7, <4>1, <4>2 DEF ManagerOf, AllNs
    <3> QED
      BY <3>1, <3>2, <3>3, <3>4, <3>5, Bystander
  <2> QED
    BY <2>5, <2>6, <2>7, <2>8, <2>9, <2>10 DEF NsInv
<1> QED
  BY <1>2, <1>3 DEF DropNamespace

\* Its directory is erased; so are the tables of whoever opened it again.
LEMMA EraseDirStep == ASSUME NsInv, NEW c \in Client, EraseDir(c) PROVE NsInv'
<1> DEFINE n == NsOf(E(c))
<1>1. /\ IsConn(conn[c]) /\ n \in ExtraNs /\ n \in AllNs
      /\ store' = Erase(store, n) /\ kept' = [kept EXCEPT ![n] = {}]
  BY DEF NsInv, ConnOK, CallInv, PlaceInv, EraseDir, E, AllNs
<1>2. PICK a : conn' = Meeting(c, Answered(c, conn[c], a), n, None)
  BY DEF EraseDir
<1>3. IsConn(Answered(c, conn[c], a)) /\ Answered(c, conn[c], a).at \notin Working
  BY <1>1, AnsweredIsConn DEF Working
<1>4. /\ ConnOK' /\ conn'[c].at \notin Working
      /\ \A d \in Client \ {c} :
            /\ conn'[d].at = conn[d].at /\ conn'[d].made = conn[d].made /\ conn'[d].mgr = conn[d].mgr
            /\ conn'[d].dropped \in {conn[d].dropped, TRUE}
            /\ Storing(d, n) /\ None \in {None, Some(TableOf(E(d)))} => conn'[d].dropped
  BY <1>2, <1>3, MeetingIs DEF NsInv
<1> HIDE DEF n
<1>5. /\ kept' = [o \in AllNs |-> kept'[o]] /\ kept'[n] = {}
      /\ \A o \in AllNs \ {n} : kept'[o] = kept[o]
  BY <1>1 DEF NsInv, StoreOK
<1>6. /\ StoreOK' /\ store'.mem = store.mem /\ store'.memo = store.memo
      /\ \A o \in AllNs \ {n} : store'.disk[o] = store.disk[o]
  BY <1>1, <1>5, EraseIs DEF NsInv
<1>7. MemoInv' /\ KeptInv'
  <2>1. \A o \in AllNs : ManagerOf(o)' = ManagerOf(o)
    BY <1>6 DEF ManagerOf
  <2>2. ASSUME NEW o \in AllNs
        PROVE  /\ kept'[o] \subseteq store'.disk[o].tables /\ kept'[o] \subseteq store'.disk[o].files
               /\ kept'[o] # {} => store'.disk[o].manifest
               /\ ManagerOf(o) # 0 => kept'[o] \subseteq store.mem[ManagerOf(o)]
    BY <1>5, <1>6 DEF NsInv, KeptInv
  <2> QED
    BY <1>6, <2>1, <2>2 DEF NsInv, MemoInv, KeptInv
<1>8. ASSUME NEW d \in Client PROVE CallInv(conn[d])'
  <2>1. CASE d = c
    BY <1>4, <2>1, RestNext
  <2>2. CASE d # c
    <3>1. conn'[d].at = conn[d].at /\ conn'[d].made = conn[d].made /\ conn'[d].mgr = conn[d].mgr
      BY <1>4, <2>2
    <3>2. ~conn'[d].dropped => ~conn[d].dropped /\ ~Storing(d, n)
      BY <1>4, <2>2
    <3>3. ASSUME Storing(d, NsOf(E(d))), ~conn'[d].dropped
          PROVE  store'.disk[NsOf(E(d))] = store.disk[NsOf(E(d))]
      <4>1. NsOf(E(d)) \in AllNs /\ NsOf(E(d)) # n
        BY <3>2, <3>3 DEF NsInv, CallInv, PlaceInv, Storing, Working, E
      <4> QED
        BY <1>6, <4>1
    <3> QED
      BY <1>6, <3>1, <3>2, <3>3, Onlooker
  <2> QED
    BY <2>1, <2>2
<1> QED
  BY <1>4, <1>6, <1>7, <1>8 DEF NsInv

-----------------------------------------------------------------------------

LEMMA NsStep == ASSUME NsInv, [Next]_vars PROVE NsInv'
<1>1. ASSUME NEW c \in Client, Send(c) \/ Step(c) \/ Lose(c) PROVE NsInv'
  BY <1>1, SendStep, LoseStep, ReceiveStep, PullStep, ArriveStep, ServeStep, CancelStep, OpenStep, MemoStep, CreateStep,
     RunStep, DropMaterializedStep, ProduceStep, StoreStep, DropNamespaceStep, EraseDirStep, StreamSteps DEF Step
<1>2. CASE UNCHANGED vars
  BY <1>2, ZenonT(40) DEF vars, NsInv, ConnOK, IsConn, StoreOK, IsDir, MemoInv, KeptInv, ManagerOf, CallInv, PlaceInv, HolderInv,
     StorerInv
<1> QED
  BY <1>1, <1>2 DEF Next

\* Every namespace has at most one manager that a lookup finds, no two share
\* one, and a call whose namespace was not dropped under it holds it
\* (namespace.rs open_or_create, remove).
THEOREM OneManagerPerNamespace == Spec => []NsInv
<1>1. Init => NsInv
  BY NsInit
<1>2. NsInv /\ [Next]_vars => NsInv'
  BY NsStep
<1> QED
  BY <1>1, <1>2, PTL DEF Spec

\* A table that was materialized, and that no drop met since its handler opened
\* the namespace, is found by the next lookup, with its file: whatever the
\* engine and the clients are, and however many of them.
THEOREM MaterializedTablesAreFound == Spec => []MaterializedListed
<1>1. NsInv => MaterializedListed
  <2> SUFFICES ASSUME NsInv, NEW n \in AllNs PROVE kept[n] \subseteq NamespaceTables(store, n)
    BY DEF MaterializedListed
  <2>1. /\ kept[n] \subseteq store.disk[n].tables /\ kept[n] \subseteq store.disk[n].files
        /\ kept[n] # {} => store.disk[n].manifest
        /\ ManagerOf(n) # 0 => kept[n] \subseteq store.mem[ManagerOf(n)]
    BY DEF NsInv, KeptInv
  <2>2. kept[n] \subseteq Holding(store, n)
    <3>1. CASE n = DefaultNs
      BY <2>1, <3>1 DEF Holding, ManagerOf
    <3>2. CASE n # DefaultNs /\ store.memo[n] # 0
      BY <2>1, <3>2 DEF Holding, ManagerOf
    <3>3. CASE n # DefaultNs /\ store.memo[n] = 0
      BY <2>1, <3>3 DEF Holding
    <3> QED
      BY <3>1, <3>2, <3>3
  <2> QED
    BY <2>1, <2>2 DEF NamespaceTables
<1> QED
  BY <1>1, OneManagerPerNamespace, PTL

-----------------------------------------------------------------------------
\* Induction over the natural numbers, for sets: a non-empty set of numbers has
\* a least element.

Below == {p \in Nat \X Nat : p[1] < p[2]}

\* The order of the natural numbers is well-founded.
LEMMA BelowWellFounded == IsWellFoundedOn(Below, Nat)
BY NatLessThanWellFounded DEF OpToRel, Below

\* A set with 0 and with the successor of each of its numbers has them all.
LEMMA NatSetInduction ==
  ASSUME NEW T, 0 \in T, \A n \in Nat : n \in T => n + 1 \in T
  PROVE  Nat \subseteq T
<1> DEFINE U == {n \in Nat : n \notin T}
<1> SUFFICES ASSUME U # {} PROVE FALSE
  OBVIOUS
<1>1. PICK x \in U : \A y \in U : ~ (<<y, x>> \in Below)
  <2>1. U \subseteq Nat
    OBVIOUS
  <2> HIDE DEF U
  <2> QED
    BY BelowWellFounded, <2>1, WFMin
<1>2. x \in Nat /\ x # 0 /\ x - 1 \in Nat
  BY <1>1
<1>3. x - 1 \in T => x \in T
  <2>1. (x - 1) + 1 = x
    BY <1>2
  <2> QED
    BY <1>2, <2>1
<1>4. x - 1 \in U
  BY <1>1, <1>2, <1>3
<1>5. <<x - 1, x>> \in Below
  BY <1>2 DEF Below
<1> QED
  BY <1>1, <1>4, <1>5

-----------------------------------------------------------------------------
\* The rows of a list of items or frames (FlattenSeq).

\* The equations of FlattenSeq's recursion, for the first n sequences.
Flattens(f, s, n) == f = [i \in 1..n |-> IF i = 1 THEN s[i] ELSE f[i - 1] \o s[i]]

LEMMA FlattensAt ==
  ASSUME NEW f, NEW s, NEW n, Flattens(f, s, n), NEW i \in 1..n
  PROVE  f[i] = IF i = 1 THEN s[i] ELSE f[i - 1] \o s[i]
<1> DEFINE h == [j \in 1..n |-> IF j = 1 THEN s[j] ELSE f[j - 1] \o s[j]]
<1>1. f = h
  BY Zenon DEF Flattens
<1>2. h[i] = IF i = 1 THEN s[i] ELSE f[i - 1] \o s[i]
  OBVIOUS
<1> QED
  BY <1>1, <1>2, Zenon

\* They have a solution, whose values are sequences over the same set.
LEMMA FlattenExists ==
  ASSUME NEW S, NEW s \in Seq(Seq(S))
  PROVE  \E f : Flattens(f, s, Len(s))
<1> DEFINE T == {n \in Nat : n <= Len(s) => \E f : Flattens(f, s, n)}
<1>1. 0 \in T
  <2>1. Flattens([i \in 1..0 |-> s], s, 0)
    BY DEF Flattens
  <2> QED
    BY <2>1
<1>2. ASSUME NEW n \in Nat, n \in T PROVE n + 1 \in T
  <2> SUFFICES ASSUME n + 1 <= Len(s) PROVE \E f : Flattens(f, s, n + 1)
    OBVIOUS
  <2>1. PICK f : Flattens(f, s, n)
    BY <1>2
  <2> DEFINE g == [i \in 1..(n + 1) |-> IF i <= n THEN f[i]
                                        ELSE IF i = 1 THEN s[i] ELSE f[n] \o s[i]]
  <2>2. ASSUME NEW i \in 1..(n + 1) PROVE g[i] = IF i = 1 THEN s[i] ELSE g[i - 1] \o s[i]
    <3>1. CASE i <= n
      <4>1. f[i] = IF i = 1 THEN s[i] ELSE f[i - 1] \o s[i]
        <5>1. i \in 1..n
          BY <2>2, <3>1
        <5> HIDE DEF T, g
        <5> QED
          BY ONLY <2>1, <5>1, FlattensAt
      <4>2. i # 1 => g[i - 1] = f[i - 1]
        BY <2>2, <3>1
      <4> QED
        BY <3>1, <4>1, <4>2
    <3>2. CASE i = n + 1
      <4>1. i # 1 => n \in 1..(n + 1) /\ i - 1 = n
        BY <3>2
      <4>2. i # 1 => g[i - 1] = f[n]
        BY <4>1
      <4> QED
        BY <3>2, <4>2
    <3> QED
      BY <2>2, <3>1, <3>2
  <2>3. Flattens(g, s, n + 1)
    BY <2>2 DEF Flattens
  <2> QED
    BY <2>3
<1>3. Len(s) \in T
  <2> HIDE DEF T
  <2> QED
    BY <1>1, <1>2, NatSetInduction, SMTT(40)
<1> QED
  BY <1>3

LEMMA FlattenType ==
  ASSUME NEW S, NEW s \in Seq(Seq(S)), NEW f, Flattens(f, s, Len(s))
  PROVE  \A i \in 1..Len(s) : f[i] \in Seq(S)
<1> DEFINE T == {i \in Nat : i \in 1..Len(s) => f[i] \in Seq(S)}
<1>1. 0 \in T
  OBVIOUS
<1>2. ASSUME NEW i \in Nat, i \in T PROVE i + 1 \in T
  <2> SUFFICES ASSUME i + 1 <= Len(s) PROVE f[i + 1] \in Seq(S)
    OBVIOUS
  <2>1. f[i + 1] = IF i + 1 = 1 THEN s[i + 1] ELSE f[(i + 1) - 1] \o s[i + 1]
    <3>1. i + 1 \in 1..Len(s)
      OBVIOUS
    <3> QED
      BY <3>1, FlattensAt
  <2>2. s[i + 1] \in Seq(S)
    OBVIOUS
  <2>3. i # 0 => f[i] \in Seq(S)
    BY <1>2
  <2> QED
    BY <2>1, <2>2, <2>3
<1>3. Nat \subseteq T
  <2> HIDE DEF T
  <2> QED
    BY <1>1, <1>2, NatSetInduction
<1> QED
  BY <1>3

\* FlattenSeq is the last value of any solution.
LEMMA FlattenIs ==
  ASSUME NEW S, NEW s \in Seq(Seq(S)), s # <<>>
  PROVE  \E f : Flattens(f, s, Len(s)) /\ FlattenSeq(s) = f[Len(s)]
<1> DEFINE f == CHOOSE f : Flattens(f, s, Len(s))
<1>1. Flattens(f, s, Len(s))
  BY FlattenExists
<1>2. FlattenSeq(s) = f[Len(s)]
  <2>1. Len(s) # 0
    OBVIOUS
  <2> QED
    BY <2>1, Zenon DEF FlattenSeq, Flattens
<1> QED
  BY <1>1, <1>2

LEMMA FlattenEmpty == FlattenSeq(<<>>) = <<>>
BY DEF FlattenSeq

LEMMA FlattenSequence ==
  ASSUME NEW S, NEW s \in Seq(Seq(S))
  PROVE  FlattenSeq(s) \in Seq(S)
<1>1. CASE s = <<>>
  <2>1. FlattenSeq(s) = <<>>
    BY <1>1, FlattenEmpty
  <2> QED
    BY <2>1
<1>2. CASE s # <<>>
  <2>1. PICK f : Flattens(f, s, Len(s)) /\ FlattenSeq(s) = f[Len(s)]
    BY <1>2, FlattenIs
  <2>2. Len(s) \in 1..Len(s)
    BY <1>2
  <2> QED
    BY <2>1, <2>2, FlattenType
<1> QED
  BY <1>1, <1>2

LEMMA FlattenAppend ==
  ASSUME NEW S, NEW s \in Seq(Seq(S)), NEW x \in Seq(S)
  PROVE  FlattenSeq(Append(s, x)) = FlattenSeq(s) \o x
<1> DEFINE t == Append(s, x)
           n == Len(s)
<1>1. t \in Seq(Seq(S)) /\ t # <<>> /\ Len(t) = n + 1 /\ t[n + 1] = x /\ \A i \in 1..n : t[i] = s[i]
  BY AppendProperties
<1>2. PICK g : Flattens(g, t, n + 1) /\ FlattenSeq(t) = g[n + 1]
  <2> HIDE DEF t
  <2> QED
    BY <1>1, FlattenIs
<1> HIDE DEF t
<1>3. g[n + 1] = IF n + 1 = 1 THEN x ELSE g[(n + 1) - 1] \o x
  <2>1. n + 1 \in 1..(n + 1)
    OBVIOUS
  <2> QED
    BY <1>1, <1>2, <2>1, FlattensAt
<1>4. CASE s = <<>>
  BY <1>2, <1>3, <1>4, FlattenEmpty DEF t
<1>5. CASE s # <<>>
  <2>1. PICK f : Flattens(f, s, n) /\ FlattenSeq(s) = f[n]
    BY <1>5, FlattenIs
  <2> DEFINE T == {i \in Nat : i \in 1..n => g[i] = f[i]}
  <2>2. 0 \in T
    OBVIOUS
  <2>3. ASSUME NEW i \in Nat, i \in T PROVE i + 1 \in T
    <3> SUFFICES ASSUME i + 1 <= n PROVE g[i + 1] = f[i + 1]
      OBVIOUS
    <3>1. g[i + 1] = IF i + 1 = 1 THEN t[i + 1] ELSE g[(i + 1) - 1] \o t[i + 1]
      <4>1. i + 1 \in 1..(n + 1)
        OBVIOUS
      <4>2. Flattens(g, t, n + 1)
        BY <1>2
      <4> HIDE DEF T, n
      <4> QED
        BY ONLY <4>2, <4>1, FlattensAt
    <3>2. f[i + 1] = IF i + 1 = 1 THEN s[i + 1] ELSE f[(i + 1) - 1] \o s[i + 1]
      <4>1. i + 1 \in 1..n
        OBVIOUS
      <4> QED
        BY <2>1, <4>1, FlattensAt
    <3>3. t[i + 1] = s[i + 1] /\ (i # 0 => g[i] = f[i]) /\ (i + 1) - 1 = i
      BY <1>1, <2>3
    <3> QED
      BY <3>1, <3>2, <3>3
  <2>4. Nat \subseteq T
    <3> HIDE DEF T
    <3> QED
      BY <2>2, <2>3, NatSetInduction
  <2>5. n \in 1..n /\ n \in Nat
    BY <1>5
  <2>6. g[n] = f[n]
    BY <2>4, <2>5
  <2>7. g[n + 1] = g[n] \o x
    BY <1>3, <2>5
  <2> QED
    BY <1>2, <2>1, <2>6, <2>7 DEF t
<1> QED
  BY <1>4, <1>5

\* Concatenation is associative.
LEMMA ConcatAssoc ==
  ASSUME NEW S, NEW a \in Seq(S), NEW b \in Seq(S), NEW c \in Seq(S)
  PROVE  (a \o b) \o c = a \o (b \o c)
BY ConcatAssociative

LEMMA FlattenConcat ==
  ASSUME NEW S, NEW s \in Seq(Seq(S)), NEW t \in Seq(Seq(S))
  PROVE  FlattenSeq(s \o t) = FlattenSeq(s) \o FlattenSeq(t)
<1> DEFINE T == {n \in Nat : \A u \in Seq(Seq(S)) :
                               Len(u) = n => FlattenSeq(s \o u) = FlattenSeq(s) \o FlattenSeq(u)}
<1>1. 0 \in T
  <2>1. ASSUME NEW u \in Seq(Seq(S)), Len(u) = 0 PROVE FlattenSeq(s \o u) = FlattenSeq(s) \o FlattenSeq(u)
    <3>1. u = <<>>
      BY <2>1
    <3>2. FlattenSeq(s) \in Seq(S)
      BY FlattenSequence
    <3> QED
      BY <3>1, <3>2, FlattenEmpty, ConcatEmptySeq
  <2> QED
    BY <2>1
<1>2. ASSUME NEW n \in Nat, n \in T PROVE n + 1 \in T
  <2>1. ASSUME NEW u \in Seq(Seq(S)), Len(u) = n + 1
        PROVE  FlattenSeq(s \o u) = FlattenSeq(s) \o FlattenSeq(u)
    <3>1. PICK w \in Seq(Seq(S)), x \in Seq(S) : u = Append(w, x)
      <4>1. u # <<>>
        BY <2>1
      <4> QED
        BY <4>1, SequenceEmptyOrAppend, Zenon
    <3>2. Len(w) = n
      BY <2>1, <3>1, AppendProperties
    <3>3. FlattenSeq(s \o w) = FlattenSeq(s) \o FlattenSeq(w)
      BY <1>2, <3>2
    <3>4. s \o u = Append(s \o w, x) /\ s \o w \in Seq(Seq(S))
      BY <3>1
    <3>5. FlattenSeq(s \o u) = FlattenSeq(s \o w) \o x
      BY <3>4, FlattenAppend
    <3>6. FlattenSeq(u) = FlattenSeq(w) \o x
      BY <3>1, FlattenAppend
    <3>7. FlattenSeq(s) \in Seq(S) /\ FlattenSeq(w) \in Seq(S) /\ x \in Seq(S)
      BY <3>1, FlattenSequence
    <3>8. (FlattenSeq(s) \o FlattenSeq(w)) \o x = FlattenSeq(s) \o (FlattenSeq(w) \o x)
      <4> DEFINE a == FlattenSeq(s)
                 b == FlattenSeq(w)
      <4>1. a \in Seq(S) /\ b \in Seq(S)
        BY <3>7
      <4> HIDE DEF a, b, T
      <4>2. (a \o b) \o x = a \o (b \o x)
        <5>1. x \in Seq(S)
          BY <3>7
        <5> QED
          BY <4>1, <5>1, ConcatAssoc, SMTT(40)
      <4> QED
        BY <4>2 DEF a, b
    <3> QED
      BY <3>3, <3>5, <3>6, <3>8
  <2> QED
    BY <2>1
<1>3. Nat \subseteq T
  <2> HIDE DEF T
  <2> QED
    BY <1>1, <1>2, NatSetInduction
<1> QED
  BY <1>3

-----------------------------------------------------------------------------
\* Vectors: sequences over some set.

LEMMA VecSeq == ASSUME NEW s, IsVec(s) PROVE s \in Seq({s[i] : i \in 1..Len(s)})
BY DEF IsVec

LEMMA SeqVec == ASSUME NEW S, NEW s \in Seq(S) PROVE IsVec(s)
<1>1. s = [i \in 1..Len(s) |-> s[i]]
  OBVIOUS
<1> QED
  BY <1>1 DEF IsVec

LEMMA WiderSeq == ASSUME NEW S, NEW R, S \subseteq R, NEW s \in Seq(S) PROVE s \in Seq(R)
<1>1. \A i \in 1..Len(s) : s[i] \in R
  OBVIOUS
<1>2. s = [i \in 1..Len(s) |-> s[i]] /\ Len(s) \in Nat
  OBVIOUS
<1> QED
  BY <1>1, <1>2, Z3

LEMMA VecUniverse ==
  ASSUME NEW a, NEW b, NEW c, IsVec(a), IsVec(b), IsVec(c)
  PROVE  \E S : a \in Seq(S) /\ b \in Seq(S) /\ c \in Seq(S)
<1> DEFINE A == {a[i] : i \in 1..Len(a)}
           B == {b[i] : i \in 1..Len(b)}
           C == {c[i] : i \in 1..Len(c)}
           S == A \cup B \cup C
<1>1. a \in Seq(A) /\ b \in Seq(B) /\ c \in Seq(C)
  BY VecSeq
<1>2. A \subseteq S /\ B \subseteq S /\ C \subseteq S
  OBVIOUS
<1> HIDE DEF A, B, C, S
<1>3. a \in Seq(S) /\ b \in Seq(S) /\ c \in Seq(S)
  BY <1>1, <1>2, WiderSeq
<1> QED
  BY <1>3

LEMMA VecEmpty ==
  /\ IsVec(<<>>)
  /\ \A a : IsVec(a) => a \o <<>> = a /\ <<>> \o a = a /\ (Len(a) = 0 <=> a = <<>>)
<1>1. IsVec(<<>>)
  BY DEF IsVec
<1>2. ASSUME NEW a, IsVec(a) PROVE a \o <<>> = a /\ <<>> \o a = a /\ (Len(a) = 0 <=> a = <<>>)
  <2>1. PICK S : a \in Seq(S)
    BY <1>2, VecSeq
  <2> QED
    BY <2>1, ConcatEmptySeq
<1> QED
  BY <1>1, <1>2

LEMMA VecOne == ASSUME NEW x PROVE IsVec(<<x>>) /\ Len(<<x>>) = 1 /\ <<x>>[1] = x /\ DOMAIN <<x>> = {1}
BY DEF IsVec

LEMMA VecCat ==
  ASSUME NEW a, NEW b, IsVec(a), IsVec(b)
  PROVE  /\ IsVec(a \o b) /\ Len(a \o b) = Len(a) + Len(b) /\ Len(a) \in Nat /\ Len(b) \in Nat
         /\ DOMAIN (a \o b) = 1..(Len(a) + Len(b)) /\ DOMAIN a = 1..Len(a) /\ DOMAIN b = 1..Len(b)
         /\ \A i \in 1..Len(a) : (a \o b)[i] = a[i]
         /\ \A i \in 1..Len(b) : (a \o b)[Len(a) + i] = b[i]
<1>1. PICK S : a \in Seq(S) /\ b \in Seq(S)
  BY VecUniverse
<1>2. a \o b \in Seq(S) /\ Len(a \o b) = Len(a) + Len(b) /\ Len(a) \in Nat /\ Len(b) \in Nat
  BY <1>1
<1>3. /\ \A i \in 1..Len(a) : (a \o b)[i] = a[i]
      /\ \A i \in 1..Len(b) : (a \o b)[Len(a) + i] = b[i]
  BY <1>1
<1>4. DOMAIN (a \o b) = 1..(Len(a) + Len(b)) /\ DOMAIN a = 1..Len(a) /\ DOMAIN b = 1..Len(b)
  BY <1>1, <1>2
<1> QED
  BY <1>2, <1>3, <1>4, SeqVec

LEMMA VecAssoc ==
  ASSUME NEW a, NEW b, NEW c, IsVec(a), IsVec(b), IsVec(c)
  PROVE  (a \o b) \o c = a \o (b \o c)
<1>1. PICK S : a \in Seq(S) /\ b \in Seq(S) /\ c \in Seq(S)
  BY VecUniverse
<1> QED
  BY <1>1, ConcatAssoc

LEMMA VecRegroup ==
  ASSUME NEW a, NEW b, NEW c, NEW d, NEW e, IsVec(a), IsVec(b), IsVec(c), d = a \o b, e = b \o c
  PROVE  d \o c = a \o e
BY VecAssoc

LEMMA VecHead ==
  ASSUME NEW a, IsVec(a), a # <<>>
  PROVE  /\ IsVec(Tail(a)) /\ Head(a) = a[1] /\ Len(a) \in Nat \ {0} /\ Len(Tail(a)) = Len(a) - 1
         /\ DOMAIN Tail(a) = 1..(Len(a) - 1) /\ a = <<a[1]>> \o Tail(a)
         /\ \A i \in 1..(Len(a) - 1) : Tail(a)[i] = a[i + 1]
<1>1. PICK S : a \in Seq(S)
  BY VecSeq
<1>2. Tail(a) \in Seq(S) /\ Len(a) # 0 /\ Len(a) \in Nat
  BY <1>1
<1>3. Head(a) = a[1] /\ Len(Tail(a)) = Len(a) - 1 /\ \A i \in 1..(Len(a) - 1) : Tail(a)[i] = a[i + 1]
  BY <1>1, <1>2
<1>4. a = <<a[1]>> \o Tail(a)
  BY <1>1, <1>2, <1>3
<1>5. DOMAIN Tail(a) = 1..(Len(a) - 1)
  BY <1>2, <1>3
<1> QED
  BY <1>2, <1>3, <1>4, <1>5, SeqVec

LEMMA VecSub ==
  ASSUME NEW a, IsVec(a), NEW k \in 0..Len(a)
  PROVE  /\ IsVec(SubSeq(a, 1, k)) /\ Len(SubSeq(a, 1, k)) = k /\ DOMAIN SubSeq(a, 1, k) = 1..k
         /\ \A i \in 1..k : SubSeq(a, 1, k)[i] = a[i]
         /\ IsVec(SubSeq(a, k + 1, Len(a))) /\ a = SubSeq(a, 1, k) \o SubSeq(a, k + 1, Len(a))
         /\ \A i \in DOMAIN SubSeq(a, k + 1, Len(a)) : SubSeq(a, k + 1, Len(a))[i] = a[k + i]
<1>1. PICK S : a \in Seq(S)
  BY VecSeq
<1>2. Len(a) \in Nat /\ k \in Nat /\ k <= Len(a)
  BY <1>1
<1> DEFINE b == SubSeq(a, 1, k)
           c == SubSeq(a, k + 1, Len(a))
<1>3. b \in Seq(S) /\ Len(b) = k /\ \A i \in 1..k : b[i] = a[i]
  BY <1>1, <1>2
<1>4. c \in Seq(S) /\ Len(c) = Len(a) - k /\ \A i \in 1..(Len(a) - k) : c[i] = a[k + i]
  BY <1>1, <1>2
<1> HIDE DEF b, c
<1>5. a = b \o c
  <2>1. b \o c \in Seq(S) /\ Len(b \o c) = Len(a)
    BY <1>2, <1>3, <1>4
  <2>2. ASSUME NEW i \in 1..Len(a) PROVE (b \o c)[i] = a[i]
    <3>1. CASE i <= k
      BY <1>2, <1>3, <1>4, <3>1
    <3>2. CASE i > k
      <4>1. i - k \in 1..Len(c) /\ i = Len(b) + (i - k)
        BY <1>2, <1>3, <1>4, <3>2
      <4>2. (b \o c)[Len(b) + (i - k)] = c[i - k]
        BY <1>3, <1>4, <4>1
      <4> QED
        BY <1>2, <1>4, <4>1, <4>2, <1>3
    <3>3. i <= k \/ i > k
      BY <1>2
    <3> QED
      BY <3>1, <3>2, <3>3, Zenon
  <2> QED
    BY <1>1, <2>1, <2>2, SeqEqual
<1>6. DOMAIN b = 1..k /\ DOMAIN c = 1..(Len(a) - k)
  BY <1>3, <1>4
<1>7. IsVec(b) /\ IsVec(c)
  BY <1>3, <1>4, SeqVec
<1> QED
  BY <1>3, <1>4, <1>5, <1>6, <1>7 DEF b, c

\* A sequence that starts with the first k of another.
LEMMA VecStart ==
  ASSUME NEW a, NEW b, IsVec(a), IsVec(b), NEW k \in 0..Len(a)
  PROVE  SubSeq(a \o b, 1, k) = SubSeq(a, 1, k)
<1>1. PICK S : a \in Seq(S) /\ b \in Seq(S)
  BY VecUniverse
<1> QED
  BY <1>1

LEMMA VecStartCat ==
  ASSUME NEW a, NEW b, IsVec(a), IsVec(b), NEW k \in 0..Len(b)
  PROVE  SubSeq(a \o b, 1, Len(a) + k) = a \o SubSeq(b, 1, k)
<1> DEFINE x == SubSeq(b, 1, k)
           y == SubSeq(b, k + 1, Len(b))
<1>1. IsVec(x) /\ IsVec(y) /\ b = x \o y /\ Len(x) = k
  BY VecSub
<1> HIDE DEF x, y
<1> DEFINE c == a \o x
<1>2. c = a \o x
  OBVIOUS
<1> HIDE DEF c
<1>3. IsVec(c) /\ Len(c) = Len(a) + k /\ Len(c) \in Nat
  BY <1>1, <1>2, VecCat
<1>4. c \o y = a \o b
  BY <1>1, <1>2, VecRegroup
<1>5. SubSeq(c \o y, 1, Len(c)) = SubSeq(c, 1, Len(c))
  BY <1>1, <1>3, VecStart
<1>6. SubSeq(c, 1, Len(c)) = c
  <2>1. PICK S : c \in Seq(S)
    BY <1>3, VecSeq
  <2> QED
    BY <2>1
<1> QED
  BY <1>2, <1>3, <1>4, <1>5, <1>6 DEF x

LEMMA VecPrefix ==
  ASSUME NEW a, NEW b, IsVec(a), IsVec(b)
  PROVE  IsPrefix(a, a \o b)
<1>1. SubSeq(a \o b, 1, Len(a)) = SubSeq(a, 1, Len(a)) /\ Len(a) <= Len(a \o b)
  BY VecCat, VecStart
<1> QED
  BY <1>1 DEF IsPrefix

LEMMA PrefixIs ==
  ASSUME NEW a, NEW w, IsVec(a), IsVec(w), IsPrefix(a, w)
  PROVE  Len(a) <= Len(w) /\ \E b : IsVec(b) /\ w = a \o b
<1>1. Len(a) \in 0..Len(w) /\ SubSeq(w, 1, Len(a)) = SubSeq(a, 1, Len(a))
  BY DEF IsPrefix, IsVec
<1>2. SubSeq(a, 1, Len(a)) = a
  <2>1. PICK S : a \in Seq(S)
    BY VecSeq
  <2> QED
    BY <2>1
<1> DEFINE b == SubSeq(w, Len(a) + 1, Len(w))
<1>3. IsVec(b) /\ w = a \o b
  BY <1>1, <1>2, VecSub
<1> HIDE DEF b
<1>4. Len(a) <= Len(w)
  BY <1>1 DEF IsVec
<1> QED
  BY <1>3, <1>4

LEMMA PrefixOf ==
  ASSUME NEW a, NEW b, NEW w, IsVec(a), IsVec(b), IsVec(w), IsPrefix(a \o b, w)
  PROVE  IsPrefix(a, w)
<1>1. IsVec(a \o b)
  BY VecCat
<1>2. PICK c : IsVec(c) /\ w = (a \o b) \o c
  BY <1>1, PrefixIs
<1>3. w = a \o (b \o c)
  BY <1>2, VecAssoc, SMTT(40)
<1>4. IsVec(b \o c)
  BY <1>2, VecCat
<1> QED
  BY <1>3, <1>4, VecPrefix
-----------------------------------------------------------------------------
\* The rows of a list of items or frames.

RowsIn(x) == IF x.k = "batch" THEN x.v ELSE <<>>
RowLists(items) == [i \in DOMAIN items |-> RowsIn(items[i])]

LEMMA ItemRowsIs == ASSUME NEW s PROVE ItemRows(s) = FlattenSeq(RowLists(s))
BY DEF ItemRows, MapAll, RowLists, RowsIn

LEMMA RowsAreVecs == ASSUME NEW s, IsItems(s), NEW i \in DOMAIN s PROVE IsVec(RowsIn(s[i]))
BY VecEmpty DEF IsItems, RowsIn

\* Some set holds all their rows.
LEMMA RowListsSeq ==
  ASSUME NEW s, IsItems(s)
  PROVE  \E S : RowLists(s) \in Seq(Seq(S))
<1> DEFINE Rows(i) == {RowsIn(s[i])[j] : j \in 1..Len(RowsIn(s[i]))}
           S == UNION {Rows(i) : i \in DOMAIN s}
<1>1. IsVec(s) /\ DOMAIN s = 1..Len(s) /\ Len(s) \in Nat
  BY DEF IsItems, IsVec
<1>2. ASSUME NEW i \in DOMAIN s PROVE RowsIn(s[i]) \in Seq(S)
  <2>1. RowsIn(s[i]) \in Seq(Rows(i))
    <3>1. IsVec(RowsIn(s[i]))
      BY RowsAreVecs
    <3> QED
      BY <3>1, VecSeq
  <2>2. Rows(i) \subseteq S
    OBVIOUS
  <2> HIDE DEF Rows, S
  <2> QED
    BY <2>1, <2>2, WiderSeq
<1>3. RowLists(s) \in Seq(Seq(S))
  <2> HIDE DEF S
  <2> QED
    BY <1>1, <1>2 DEF RowLists
<1> QED
  BY <1>3

LEMMA NestedVecs ==
  ASSUME NEW S, NEW s \in Seq(Seq(S)), NEW R, S \subseteq R
  PROVE  s \in Seq(Seq(R))
<1>1. Seq(S) \subseteq Seq(R)
  BY WiderSeq
<1> QED
  BY <1>1, WiderSeq

LEMMA ItemRowsVec == ASSUME NEW s, IsItems(s) PROVE IsVec(ItemRows(s))
<1>1. PICK S : RowLists(s) \in Seq(Seq(S))
  BY RowListsSeq
<1>2. FlattenSeq(RowLists(s)) \in Seq(S)
  BY <1>1, FlattenSequence
<1> QED
  BY <1>2, ItemRowsIs, SeqVec

LEMMA ItemRowsEmpty == IsItems(<<>>) /\ ItemRows(<<>>) = <<>>
<1>1. RowLists(<<>>) = <<>>
  BY DEF RowLists
<1>2. IsItems(<<>>)
  BY VecEmpty DEF IsItems
<1> QED
  BY <1>1, <1>2, ItemRowsIs, FlattenEmpty

LEMMA ItemsCat == ASSUME NEW s, NEW t, IsItems(s), IsItems(t) PROVE IsItems(s \o t)
<1>1. /\ IsVec(s \o t) /\ DOMAIN (s \o t) = 1..(Len(s) + Len(t)) /\ Len(s) \in Nat /\ Len(t) \in Nat
      /\ DOMAIN s = 1..Len(s) /\ DOMAIN t = 1..Len(t)
      /\ \A i \in 1..Len(s) : (s \o t)[i] = s[i]
      /\ \A i \in 1..Len(t) : (s \o t)[Len(s) + i] = t[i]
  BY VecCat DEF IsItems
<1>2. ASSUME NEW i \in DOMAIN (s \o t), (s \o t)[i].k = "batch" PROVE IsVec((s \o t)[i].v)
  <2>1. CASE i \in 1..Len(s)
    BY <1>1, <1>2, <2>1 DEF IsItems
  <2>2. CASE i \notin 1..Len(s)
    <3>1. i - Len(s) \in 1..Len(t) /\ i = Len(s) + (i - Len(s))
      BY <1>1, <2>2
    <3>2. (s \o t)[i] = t[i - Len(s)]
      BY <1>1, <3>1
    <3> QED
      BY <1>1, <1>2, <3>1, <3>2 DEF IsItems
  <2> QED
    BY <2>1, <2>2
<1> QED
  BY <1>1, <1>2 DEF IsItems

LEMMA ItemRowsCat ==
  ASSUME NEW s, NEW t, IsItems(s), IsItems(t)
  PROVE  ItemRows(s \o t) = ItemRows(s) \o ItemRows(t)
<1> DEFINE a == RowLists(s)
           b == RowLists(t)
           c == RowLists(s \o t)
<1>1. /\ IsVec(s \o t) /\ DOMAIN (s \o t) = 1..(Len(s) + Len(t)) /\ Len(s) \in Nat /\ Len(t) \in Nat
      /\ DOMAIN s = 1..Len(s) /\ DOMAIN t = 1..Len(t)
      /\ \A i \in 1..Len(s) : (s \o t)[i] = s[i]
      /\ \A i \in 1..Len(t) : (s \o t)[Len(s) + i] = t[i]
  BY VecCat DEF IsItems
<1>2. PICK A : a \in Seq(Seq(A))
  BY RowListsSeq
<1>3. PICK B : b \in Seq(Seq(B))
  BY RowListsSeq
<1>4. a \in Seq(Seq(A \cup B)) /\ b \in Seq(Seq(A \cup B))
  <2> HIDE DEF a, b
  <2> QED
    BY <1>2, <1>3, NestedVecs
<1>5. /\ DOMAIN a = 1..Len(s) /\ \A i \in 1..Len(s) : a[i] = RowsIn(s[i])
      /\ DOMAIN b = 1..Len(t) /\ \A i \in 1..Len(t) : b[i] = RowsIn(t[i])
      /\ c = [i \in 1..(Len(s) + Len(t)) |-> RowsIn((s \o t)[i])]
  BY <1>1 DEF RowLists
<1> HIDE DEF a, b, c
<1>6. Len(a) = Len(s) /\ Len(b) = Len(t)
  BY <1>1, <1>4, <1>5
<1>7. a \o b = c
  <2>1. a \o b = [i \in 1..(Len(s) + Len(t)) |-> (a \o b)[i]]
    <3>1. IsVec(a) /\ IsVec(b)
      BY <1>4, SeqVec
    <3>2. IsVec(a \o b) /\ Len(a \o b) = Len(s) + Len(t)
      BY <1>6, <3>1, VecCat
    <3> QED
      BY <3>2, Zenon DEF IsVec
  <2>2. ASSUME NEW i \in 1..(Len(s) + Len(t)) PROVE (a \o b)[i] = RowsIn((s \o t)[i])
    <3>1. CASE i \in 1..Len(s)
      BY <1>1, <1>4, <1>5, <1>6, <3>1
    <3>2. CASE i \notin 1..Len(s)
      <4>1. i - Len(s) \in 1..Len(t) /\ i = Len(s) + (i - Len(s))
        BY <1>1, <3>2
      <4>2. (s \o t)[i] = t[i - Len(s)]
        BY <1>1, <4>1
      <4>3. (a \o b)[i] = b[i - Len(s)]
        BY <1>1, <1>4, <1>6, <4>1
      <4> QED
        BY <1>5, <4>1, <4>2, <4>3
    <3> QED
      BY <3>1, <3>2
  <2> QED
    BY <1>5, <2>1, <2>2
<1>8. FlattenSeq(a \o b) = FlattenSeq(a) \o FlattenSeq(b)
  BY <1>4, FlattenConcat
<1> QED
  BY <1>7, <1>8, ItemRowsIs DEF a, b, c

LEMMA ItemsOne ==
  ASSUME NEW x, x.k = "batch" => IsVec(x.v)
  PROVE  IsItems(<<x>>) /\ ItemRows(<<x>>) = RowsIn(x)
<1>1. IsItems(<<x>>)
  BY VecOne DEF IsItems
<1> DEFINE v == RowsIn(x)
<1>2. IsVec(v)
  BY VecEmpty DEF RowsIn
<1>3. RowLists(<<x>>) = Append(<<>>, v)
  BY DEF RowLists
<1> HIDE DEF v
<1>4. PICK S : v \in Seq(S)
  BY <1>2, VecSeq
<1>5. FlattenSeq(Append(<<>>, v)) = FlattenSeq(<<>>) \o v
  <2>1. <<>> \in Seq(Seq(S))
    OBVIOUS
  <2> QED
    BY <1>4, <2>1, FlattenAppend
<1>6. FlattenSeq(<<>>) \o v = v
  BY <1>2, FlattenEmpty, VecEmpty
<1> QED
  BY <1>1, <1>3, <1>5, <1>6, ItemRowsIs DEF v

LEMMA ItemsSub ==
  ASSUME NEW s, IsItems(s), NEW k \in 0..Len(s)
  PROVE  /\ IsItems(SubSeq(s, 1, k)) /\ IsItems(SubSeq(s, k + 1, Len(s)))
         /\ ItemRows(s) = ItemRows(SubSeq(s, 1, k)) \o ItemRows(SubSeq(s, k + 1, Len(s)))
<1> DEFINE a == SubSeq(s, 1, k)
           b == SubSeq(s, k + 1, Len(s))
<1>1. IsVec(s) /\ Len(s) \in Nat /\ DOMAIN s = 1..Len(s) /\ \A i \in 1..Len(s) : s[i].k = "batch" => IsVec(s[i].v)
  BY DEF IsItems, IsVec
<1>2. /\ IsVec(a) /\ DOMAIN a = 1..k /\ \A i \in 1..k : a[i] = s[i]
      /\ IsVec(b) /\ s = a \o b /\ Len(a) = k
      /\ \A i \in DOMAIN b : b[i] = s[k + i]
  BY <1>1, VecSub
<1> HIDE DEF a, b
<1>3. IsItems(a)
  BY <1>1, <1>2 DEF IsItems
<1>4. IsItems(b)
  <2>1. DOMAIN b = 1..Len(b) /\ Len(s) = k + Len(b) /\ Len(b) \in Nat
    BY <1>2, VecCat
  <2> QED
    BY <1>1, <1>2, <2>1 DEF IsItems
<1>5. ItemRows(a \o b) = ItemRows(a) \o ItemRows(b)
  BY <1>3, <1>4, ItemRowsCat
<1> QED
  BY <1>2, <1>3, <1>4, <1>5 DEF a, b

LEMMA ItemsHead ==
  ASSUME NEW s, IsItems(s), s # <<>>
  PROVE  /\ IsItems(Tail(s)) /\ IsVec(RowsIn(s[1])) /\ ItemRows(s) = RowsIn(s[1]) \o ItemRows(Tail(s))
         /\ IsItems(<<s[1]>>) /\ ItemRows(<<s[1]>>) = RowsIn(s[1])
<1>1. IsVec(s) /\ Len(s) \in Nat /\ DOMAIN s = 1..Len(s) /\ \A i \in 1..Len(s) : s[i].k = "batch" => IsVec(s[i].v)
  BY DEF IsItems, IsVec
<1>2. /\ IsVec(Tail(s)) /\ Len(s) \in Nat \ {0}
      /\ DOMAIN Tail(s) = 1..(Len(s) - 1) /\ s = <<s[1]>> \o Tail(s)
      /\ \A i \in 1..(Len(s) - 1) : Tail(s)[i] = s[i + 1]
  BY <1>1, VecHead
<1>3. IsItems(Tail(s))
  BY <1>1, <1>2 DEF IsItems
<1>4. IsVec(RowsIn(s[1]))
  BY <1>1, <1>2, RowsAreVecs
<1>5. IsItems(<<s[1]>>) /\ ItemRows(<<s[1]>>) = RowsIn(s[1])
  BY <1>1, <1>2, ItemsOne
<1>6. ItemRows(<<s[1]>> \o Tail(s)) = ItemRows(<<s[1]>>) \o ItemRows(Tail(s))
  BY <1>3, <1>5, ItemRowsCat
<1> QED
  BY <1>2, <1>3, <1>4, <1>5, <1>6

\* The streams of gRPC.  Before its query runs a call has no result; then what
\* has arrived, with the frames in flight, is the rows of the items that the
\* server has taken from the engine.

Unfailed(items) == \A i \in DOMAIN items : items[i].k # "err"

Waiting(r) ==
    /\ r.result = <<>> /\ r.rows = <<>> /\ r.completion = None /\ r.sent = 0 /\ r.id = ""
    /\ r.at \notin {"streaming", "collecting"}

\* The first frame carries the id, unless the connection broke before it.
HasId(r) ==
    r.id = "" => /\ r.frames # <<>>
                 /\ \/ r.frames[1].k = "lost"
                    \/ r.frames[1].k = "started" /\ r.frames[1].v[1].id # ""

\* A completion follows all the rows of a result without an error; the end
\* follows a completion or an error.
CompletedInv(r, i) ==
    r.frames[i].k = "completed" =>
        /\ r.frames[i].v = Some(r.frames[i].v[1])
        /\ Unfailed(r.result)
        /\ r.frames[i].v[1].rows = Len(ItemRows(r.result))
        /\ r.rows \o ItemRows(SubSeq(r.frames, 1, i - 1)) = ItemRows(r.result)
EndInv(r, i) ==
    r.frames[i].k = "end" =>
        IF i = 1 THEN r.completion # None ELSE r.frames[i - 1].k \in {"error", "completed"}
FrameInv(r) == \A i \in DOMAIN r.frames : CompletedInv(r, i) /\ EndInv(r, i)

\* What the server has taken of a result that it has not finished.
Yielded(r) == SubSeq(r.result, 1, Len(r.result) - Len(r.feed))
FeedInv(r) ==
    r.feed # <<>> =>
        /\ Len(r.feed) <= Len(r.result)
        /\ r.result = Yielded(r) \o r.feed
        /\ ItemRows(Yielded(r)) = r.rows \o ItemRows(r.frames)
        /\ r.sent = Len(ItemRows(Yielded(r)))
        /\ r.completion = None
        /\ \A i \in DOMAIN r.frames : r.frames[i].k # "completed"

ListsOK(r) == IsResult(r.result) /\ IsVec(r.rows) /\ IsItems(r.frames) /\ IsItems(r.feed)
PrefixInv(r) == IsPrefix(r.rows \o ItemRows(r.frames), ItemRows(r.result))
ReportInv(r) ==
    r.completion # None =>
        Unfailed(r.result) /\ r.completion[1].rows = Len(ItemRows(r.result)) /\ r.rows = ItemRows(r.result)
Streams(r) ==
    /\ ListsOK(r) /\ PrefixInv(r) /\ ReportInv(r)
    /\ \/ r.at = "told" /\ (r.told[1].ok => r.completion # None)
       \/ r.at = "streaming" /\ HasId(r) /\ FrameInv(r) /\ FeedInv(r)

StreamInv == \A c \in Client : Grpc(c) => Waiting(conn[c]) \/ Streams(conn[c])

-----------------------------------------------------------------------------
\* A query starts.

Begins(r, c) ==
    /\ IsResult(r.result) /\ r.at = "streaming" /\ r.feed = r.result
    /\ r.rows = <<>> /\ r.sent = 0 /\ r.completion = None
    /\ c # "" /\ r.frames = <<Frame("started", <<[id |-> c]>>)>>
LEMMA StreamBegins ==
  ASSUME NEW r, NEW c, Begins(r, c)
  PROVE  Streams(r)
<1> DEFINE f == Frame("started", <<[id |-> c]>>)
<1>1. f.k = "started" /\ f.v[1].id = c
  BY DEF Frame
<1>0. /\ IsResult(r.result) /\ r.at = "streaming" /\ r.feed = r.result
      /\ r.rows = <<>> /\ r.sent = 0 /\ r.completion = None
  BY Zenon DEF Begins
<1>2. /\ r.frames = <<f>> /\ r.frames # <<>> /\ r.frames[1] = f /\ DOMAIN r.frames = {1}
      /\ IsItems(r.frames) /\ ItemRows(r.frames) = <<>>
  <2>1. f.k # "batch"
    BY <1>1
  <2> HIDE DEF f
  <2>2. r.frames = <<f>>
    BY Zenon DEF f, Begins
  <2>3. IsItems(<<f>>) /\ ItemRows(<<f>>) = RowsIn(f) /\ RowsIn(f) = <<>>
    BY <2>1, ItemsOne DEF RowsIn
  <2> QED
    BY <2>2, <2>3, VecOne
<1> HIDE DEF f
<1>3. IsItems(r.result) /\ IsVec(r.result) /\ Len(r.result) \in Nat
  BY <1>0 DEF IsResult, IsItems, IsVec
<1>4. Yielded(r) = <<>> /\ r.result = <<>> \o r.result
  <2>1. SubSeq(r.result, 1, 0) = <<>>
    <3>1. 0 \in 0..Len(r.result)
      BY <1>3
    <3>2. IsVec(SubSeq(r.result, 1, 0)) /\ Len(SubSeq(r.result, 1, 0)) = 0
      BY <1>3, <3>1, VecSub
    <3> QED
      BY <3>2, VecEmpty
  <2>2. Len(r.result) - Len(r.feed) = 0
    BY <1>0, <1>3
  <2>3. Yielded(r) = <<>>
    BY <2>1, <2>2, Zenon DEF Yielded
  <2> QED
    BY <1>3, <2>3, VecEmpty
<1>5. <<>> \o <<>> = <<>> /\ Len(<<>>) = 0
  OBVIOUS
<1>6. PrefixInv(r)
  <2>1. IsVec(ItemRows(r.result))
    BY <1>3, ItemRowsVec
  <2>2. IsPrefix(<<>>, <<>> \o ItemRows(r.result))
    BY <2>1, VecEmpty, VecPrefix
  <2>3. IsPrefix(<<>>, ItemRows(r.result))
    BY <2>1, <2>2, VecEmpty
  <2> QED
    BY <1>0, <1>2, <1>5, <2>3 DEF PrefixInv
<1>7. ListsOK(r)
  BY <1>0, <1>2, <1>3, VecEmpty DEF ListsOK
<1>8. FeedInv(r)
  <2>1. ItemRows(Yielded(r)) = r.rows \o ItemRows(r.frames)
    BY <1>0, <1>2, <1>4, <1>5, ItemRowsEmpty, Zenon
  <2>2. r.sent = Len(ItemRows(Yielded(r)))
    BY <1>0, <1>4, <1>5, ItemRowsEmpty, Zenon
  <2>3. r.result = Yielded(r) \o r.feed /\ Len(r.feed) <= Len(r.result)
    BY <1>0, <1>3, <1>4
  <2>4. \A i \in DOMAIN r.frames : r.frames[i].k # "completed"
    BY <1>1, <1>2
  <2> QED
    BY <1>0, <2>1, <2>2, <2>3, <2>4, Zenon DEF FeedInv
<1>9. HasId(r) /\ FrameInv(r)
  <2>1. c # ""
    BY Zenon DEF Begins
  <2>2. HasId(r)
    BY <1>1, <1>2, <2>1, Zenon DEF HasId
  <2> QED
    BY <1>1, <1>2, <2>2 DEF FrameInv, CompletedInv, EndInv
<1> QED
  BY <1>0, <1>6, <1>7, <1>8, <1>9 DEF Streams, ReportInv

-----------------------------------------------------------------------------
\* The client pulls a frame.

PullsFrame(r, s) ==
    /\ s.result = r.result /\ s.feed = r.feed /\ s.sent = r.sent /\ s.frames = Tail(r.frames)
    /\ s.rows = r.rows \o RowsIn(r.frames[1])
    /\ s.completion = IF r.completion # None THEN r.completion
                      ELSE IF r.frames[1].k = "completed" THEN r.frames[1].v ELSE None
    /\ \/ s.at = "told" /\ (s.told[1].ok => s.completion # None)
       \/ s.at = "streaming" /\ s.id # "" /\ r.frames[1].k # "error"
LEMMA StreamPulled ==
  ASSUME NEW r, Streams(r), r.at = "streaming", r.frames # <<>>, NEW s, PullsFrame(r, s)
  PROVE  Streams(s)
<1> DEFINE f == r.frames[1]
           t == Tail(r.frames)
<1>1. IsItems(r.frames) /\ IsVec(r.frames) /\ IsVec(r.rows) /\ IsItems(r.result)
  BY DEF Streams, ListsOK, IsItems, IsResult
<1>2. /\ IsItems(t) /\ IsVec(RowsIn(f)) /\ ItemRows(r.frames) = RowsIn(f) \o ItemRows(t)
      /\ IsItems(<<f>>) /\ ItemRows(<<f>>) = RowsIn(f)
  BY <1>1, ItemsHead
<1>3. /\ DOMAIN t = 1..(Len(r.frames) - 1) /\ r.frames = <<f>> \o t /\ Len(r.frames) \in Nat \ {0}
      /\ DOMAIN r.frames = 1..Len(r.frames) /\ IsVec(t) /\ Len(t) = Len(r.frames) - 1
      /\ \A i \in 1..(Len(r.frames) - 1) : t[i] = r.frames[i + 1]
  BY <1>1, VecHead DEF IsVec
<1>4. FrameInv(r) /\ FeedInv(r) /\ PrefixInv(r) /\ ReportInv(r)
  BY DEF Streams
<1>5. /\ s.frames = t /\ s.rows = r.rows \o RowsIn(f) /\ s.result = r.result /\ s.feed = r.feed /\ s.sent = r.sent
      /\ s.completion = IF r.completion # None THEN r.completion ELSE IF f.k = "completed" THEN f.v ELSE None
  BY Zenon DEF PullsFrame, f, t
<1>12. \/ s.at = "told" /\ (s.told[1].ok => s.completion # None)
       \/ s.at = "streaming" /\ s.id # "" /\ f.k # "error"
  BY Zenon DEF PullsFrame, f
<1> HIDE DEF f, t
<1>6. IsVec(ItemRows(t)) /\ IsVec(ItemRows(r.result))
  BY <1>1, <1>2, ItemRowsVec
<1>7. IsVec(s.rows) /\ s.rows \o ItemRows(t) = r.rows \o ItemRows(r.frames)
  <2>1. IsVec(r.rows \o RowsIn(f))
    BY <1>1, <1>2, VecCat
  <2>2. s.rows \o ItemRows(t) = r.rows \o ItemRows(r.frames)
    <3> DEFINE a == r.rows
               b == RowsIn(f)
               c == ItemRows(t)
               d == s.rows
               e == ItemRows(r.frames)
    <3>1. IsVec(a) /\ IsVec(b) /\ IsVec(c) /\ d = a \o b /\ e = b \o c
      BY <1>1, <1>2, <1>5, <1>6, Zenon
    <3> HIDE DEF a, b, c, d, e
    <3>2. d \o c = a \o e
      BY <3>1, VecRegroup
    <3> QED
      BY <3>2, Zenon DEF a, c, d, e
  <2> QED
    BY <1>5, <2>1, <2>2, Zenon
<1>8. PrefixInv(s)
  BY <1>4, <1>5, <1>7 DEF PrefixInv
<1>9. ListsOK(s)
  BY <1>2, <1>5, <1>7 DEF Streams, ListsOK
<1>10. r.completion # None => RowsIn(f) = <<>> /\ s.rows = r.rows
  <2> SUFFICES ASSUME r.completion # None PROVE RowsIn(f) = <<>>
    BY <1>1, <1>5, VecEmpty
  <2>1. r.rows = ItemRows(r.result)
    BY <1>4 DEF ReportInv
  <2>2. IsPrefix(s.rows \o ItemRows(t), ItemRows(r.result))
    BY <1>4, <1>7 DEF PrefixInv
  <2>3. IsPrefix(s.rows, ItemRows(r.result))
    BY <1>6, <1>7, <2>2, PrefixOf
  <2>4. Len(s.rows) <= Len(r.rows)
    BY <1>6, <1>7, <2>1, <2>3, PrefixIs
  <2>5. Len(s.rows) = Len(r.rows) + Len(RowsIn(f)) /\ Len(r.rows) \in Nat /\ Len(RowsIn(f)) \in Nat
    <3>1. Len(r.rows \o RowsIn(f)) = Len(r.rows) + Len(RowsIn(f)) /\ Len(r.rows) \in Nat /\ Len(RowsIn(f)) \in Nat
      BY <1>1, <1>2, VecCat
    <3> QED
      BY <1>5, <3>1, Zenon
  <2>6. Len(RowsIn(f)) = 0
    BY <2>4, <2>5
  <2> QED
    BY <1>2, <2>6, VecEmpty
<1>11. f.k = "completed" =>
         /\ f.v = Some(f.v[1]) /\ Unfailed(r.result) /\ f.v[1].rows = Len(ItemRows(r.result))
         /\ r.rows = ItemRows(r.result) /\ s.rows = r.rows
  <2> SUFFICES ASSUME f.k = "completed"
               PROVE  /\ f.v = Some(f.v[1]) /\ Unfailed(r.result) /\ f.v[1].rows = Len(ItemRows(r.result))
                      /\ r.rows = ItemRows(r.result) /\ s.rows = r.rows
    OBVIOUS
  <2>1. CompletedInv(r, 1)
    BY <1>3, <1>4 DEF FrameInv
  <2>2. SubSeq(r.frames, 1, 1 - 1) = <<>>
    <3>1. 0 \in 0..Len(r.frames) /\ 1 - 1 = 0
      BY <1>3
    <3>2. IsVec(SubSeq(r.frames, 1, 0)) /\ Len(SubSeq(r.frames, 1, 0)) = 0
      BY <1>1, <3>1, VecSub
    <3> QED
      BY <3>1, <3>2, VecEmpty
  <2>3. r.rows \o ItemRows(<<>>) = r.rows
    BY <1>1, ItemRowsEmpty, VecEmpty
  <2>4. RowsIn(f) = <<>>
    BY DEF RowsIn
  <2> QED
    BY <1>1, <1>5, <2>1, <2>2, <2>3, <2>4, VecEmpty DEF CompletedInv, f
<1>13. ReportInv(s)
  BY <1>4, <1>5, <1>10, <1>11 DEF ReportInv
<1>14. CASE s.at = "told"
  BY <1>8, <1>9, <1>12, <1>13, <1>14 DEF Streams
<1>15. CASE s.at = "streaming"
  <2>1. ASSUME NEW i \in DOMAIN t PROVE CompletedInv(s, i)
    <3> SUFFICES ASSUME t[i].k = "completed" PROVE CompletedInv(s, i)
      BY <1>5 DEF CompletedInv
    <3>1. i \in Nat /\ i >= 1 /\ i <= Len(t) /\ i + 1 \in DOMAIN r.frames /\ r.frames[i + 1] = t[i] /\ (i + 1) - 1 = i
      BY <1>3
    <3>2. CompletedInv(r, i + 1)
      BY <1>4, <3>1 DEF FrameInv
    <3> DEFINE u == SubSeq(t, 1, i - 1)
    <3>3. SubSeq(r.frames, 1, i) = <<f>> \o u
      <4>1. i - 1 \in 0..Len(t) /\ 1 + (i - 1) = i
        BY <1>3, <3>1
      <4>2. IsVec(<<f>>) /\ Len(<<f>>) = 1
        BY VecOne
      <4>3. SubSeq(<<f>> \o t, 1, Len(<<f>>) + (i - 1)) = <<f>> \o SubSeq(t, 1, i - 1)
        BY <1>3, <4>1, <4>2, VecStartCat, ZenonT(40)
      <4> QED
        BY <1>3, <4>1, <4>2, <4>3, Zenon
    <3>4. IsItems(u)
      BY <1>2, <3>1, ItemsSub
    <3> HIDE DEF u
    <3>5. ItemRows(<<f>> \o u) = RowsIn(f) \o ItemRows(u)
      BY <1>2, <3>4, ItemRowsCat
    <3>6. s.rows \o ItemRows(u) = r.rows \o ItemRows(<<f>> \o u)
      <4>1. IsVec(ItemRows(u))
        BY <3>4, ItemRowsVec
      <4> QED
        <5> DEFINE a == r.rows
                   b == RowsIn(f)
                   c == ItemRows(u)
                   d == s.rows
                   e == ItemRows(<<f>> \o u)
        <5>1. IsVec(a) /\ IsVec(b) /\ IsVec(c) /\ d = a \o b /\ e = b \o c
          BY <1>1, <1>2, <1>5, <3>5, <4>1, Zenon
        <5> HIDE DEF a, b, c, d, e
        <5>2. d \o c = a \o e
          BY <5>1, VecRegroup
        <5> QED
          BY <5>2, Zenon DEF a, c, d, e
    <3>7. /\ t[i].v = Some(t[i].v[1]) /\ Unfailed(r.result) /\ t[i].v[1].rows = Len(ItemRows(r.result))
          /\ s.rows \o ItemRows(u) = ItemRows(r.result)
      BY <3>1, <3>2, <3>3, <3>6 DEF CompletedInv
    <3> QED
      BY <1>5, <3>7 DEF CompletedInv, u
  <2>2. ASSUME NEW i \in DOMAIN t PROVE EndInv(s, i)
    <3> SUFFICES ASSUME t[i].k = "end" PROVE EndInv(s, i)
      BY <1>5 DEF EndInv
    <3>1. i \in Nat /\ i >= 1 /\ i + 1 \in DOMAIN r.frames /\ r.frames[i + 1] = t[i] /\ (i + 1) - 1 = i /\ i + 1 # 1
      BY <1>3
    <3>2. r.frames[i].k \in {"error", "completed"}
      BY <1>4, <3>1 DEF FrameInv, EndInv
    <3>3. CASE i = 1
      <4>1. f.k \in {"error", "completed"}
        BY <3>2, <3>3 DEF f
      <4>2. f.k = "completed"
        BY <1>12, <1>15, <4>1
      <4>3. s.completion # None
        BY <1>5, <1>11, <4>2, NoneIsNotSome
      <4> QED
        BY <3>3, <4>3 DEF EndInv
    <3>4. CASE i # 1
      <4>1. r.frames[i] = t[i - 1]
        BY <1>3, <3>1, <3>4
      <4> QED
        BY <1>5, <3>2, <3>4, <4>1 DEF EndInv
    <3> QED
      BY <3>3, <3>4
  <2>3. FeedInv(s)
    <3> SUFFICES ASSUME r.feed # <<>> PROVE FeedInv(s)
      BY <1>5 DEF FeedInv
    <3>1. Yielded(s) = Yielded(r)
      BY <1>5, Zenon DEF Yielded
    <3>0. \A i \in DOMAIN r.frames : r.frames[i].k # "completed"
      BY <1>4, Zenon DEF FeedInv
    <3>2. f.k # "completed"
      BY <1>3, <3>0, SMTT(40) DEF f
    <3>3. \A i \in DOMAIN t : t[i].k # "completed"
      <4> TAKE i \in DOMAIN t
      <4>1. t[i] = r.frames[i + 1] /\ i + 1 \in DOMAIN r.frames
        BY <1>3
      <4> QED
        BY <3>0, <4>1
    <3> QED
      BY <1>4, <1>5, <1>7, <3>1, <3>2, <3>3 DEF FeedInv
  <2> QED
    BY <1>5, <1>8, <1>9, <1>12, <1>13, <1>15, <2>1, <2>2, <2>3 DEF Streams, FrameInv, HasId
<1> QED
  BY <1>12, <1>14, <1>15, Zenon

LEMMA VecAll == ASSUME NEW a, IsVec(a) PROVE SubSeq(a, 1, Len(a)) = a
<1>1. PICK S : a \in Seq(S)
  BY VecSeq
<1> QED
  BY <1>1

LEMMA VecCut ==
  ASSUME NEW a, NEW b, NEW c, IsVec(a), IsVec(b), c = a \o b
  PROVE  SubSeq(c, 1, Len(c) - Len(b)) = a
<1>1. Len(c) - Len(b) = Len(a) /\ Len(a) \in 0..Len(a)
  BY VecCat
<1>2. SubSeq(a \o b, 1, Len(a)) = SubSeq(a, 1, Len(a))
  BY <1>1, VecStart
<1> QED
  BY <1>1, <1>2, VecAll

LEMMA VecAppend == ASSUME NEW a, IsVec(a), NEW x PROVE Append(a, x) = a \o <<x>>
<1>1. PICK S : a \in Seq(S)
  BY VecSeq
<1>2. a \in Seq(S \cup {x})
  BY <1>1, WiderSeq
<1> QED
  BY <1>2

-----------------------------------------------------------------------------
\* The first k frames stay, others follow.

Shares(r, s, k, more) ==
    /\ s.frames = SubSeq(r.frames, 1, k) \o more
    /\ s.rows = r.rows /\ s.completion = r.completion /\ s.id = r.id

LEMMA SharesIs ==
  ASSUME NEW r, NEW s, NEW k, NEW more, IsItems(r.frames), k \in 0..Len(r.frames), IsItems(more), Shares(r, s, k, more)
  PROVE  /\ IsItems(s.frames) /\ k \in Nat /\ Len(more) \in Nat /\ DOMAIN s.frames = 1..(k + Len(more))
         /\ \A i \in 1..k : s.frames[i] = r.frames[i] /\ SubSeq(s.frames, 1, i - 1) = SubSeq(r.frames, 1, i - 1)
         /\ \A i \in 1..Len(more) : s.frames[k + i] = more[i]
         /\ IsItems(SubSeq(r.frames, 1, k)) /\ DOMAIN r.frames = 1..Len(r.frames)
         /\ ItemRows(s.frames) = ItemRows(SubSeq(r.frames, 1, k)) \o ItemRows(more)
<1> DEFINE a == SubSeq(r.frames, 1, k)
           b == SubSeq(r.frames, k + 1, Len(r.frames))
<1>1. IsVec(r.frames) /\ IsVec(more) /\ k \in Nat /\ DOMAIN r.frames = 1..Len(r.frames) /\ Len(r.frames) \in Nat
  BY DEF IsItems, IsVec
<1>2. /\ IsItems(a) /\ IsVec(a) /\ Len(a) = k /\ \A i \in 1..k : a[i] = r.frames[i]
      /\ IsVec(b) /\ r.frames = a \o b
  BY <1>1, VecSub, ItemsSub
<1>3. s.frames = a \o more
  BY Zenon DEF Shares
<1> HIDE DEF a, b
<1>4. /\ DOMAIN (a \o more) = 1..(k + Len(more)) /\ Len(more) \in Nat
      /\ \A i \in 1..k : (a \o more)[i] = a[i]
      /\ \A i \in 1..Len(more) : (a \o more)[k + i] = more[i]
  <2>1. /\ DOMAIN (a \o more) = 1..(Len(a) + Len(more)) /\ Len(more) \in Nat
        /\ \A i \in 1..Len(a) : (a \o more)[i] = a[i]
        /\ \A i \in 1..Len(more) : (a \o more)[Len(a) + i] = more[i]
    <3>1. IsVec(a) /\ IsVec(more)
      BY <1>1, <1>2
    <3> QED
      BY ONLY <3>1, VecCat
  <2> QED
    BY <1>2, <2>1, Zenon
<1>5. ASSUME NEW i \in 1..k PROVE SubSeq(a \o more, 1, i - 1) = SubSeq(r.frames, 1, i - 1)
  <2>1. i - 1 \in 0..Len(a)
    BY <1>1, <1>2
  <2>2. SubSeq(a \o more, 1, i - 1) = SubSeq(a, 1, i - 1)
    BY <1>1, <1>2, <2>1, VecStart
  <2>3. SubSeq(a \o b, 1, i - 1) = SubSeq(a, 1, i - 1)
    BY <1>2, <2>1, VecStart
  <2> QED
    BY <1>2, <2>2, <2>3
<1>6. IsItems(a \o more) /\ ItemRows(a \o more) = ItemRows(a) \o ItemRows(more)
  BY <1>2, ItemsCat, ItemRowsCat
<1> QED
  BY <1>1, <1>2, <1>3, <1>4, <1>5, <1>6 DEF a

LEMMA SharedFrames ==
  ASSUME NEW r, NEW s, NEW k, NEW more, IsItems(r.frames), k \in 0..Len(r.frames), IsItems(more), Shares(r, s, k, more),
         FrameInv(r), s.result = r.result
  PROVE  \A i \in 1..k : CompletedInv(s, i) /\ EndInv(s, i)
<1> SUFFICES ASSUME NEW i \in 1..k PROVE CompletedInv(s, i) /\ EndInv(s, i)
  OBVIOUS
<1>1. /\ k \in Nat /\ DOMAIN r.frames = 1..Len(r.frames)
      /\ \A j \in 1..k : s.frames[j] = r.frames[j] /\ SubSeq(s.frames, 1, j - 1) = SubSeq(r.frames, 1, j - 1)
  BY SharesIs
<1>2. s.rows = r.rows /\ s.completion = r.completion
  BY Zenon DEF Shares
<1>3. i \in DOMAIN r.frames /\ (i # 1 => i - 1 \in 1..k)
  BY <1>1
<1>4. CompletedInv(r, i) /\ EndInv(r, i)
  BY <1>3 DEF FrameInv
<1>5. CompletedInv(s, i)
  BY <1>1, <1>2, <1>4, Zenon DEF CompletedInv
<1>6. EndInv(s, i)
  BY <1>1, <1>2, <1>3, <1>4, Zenon DEF EndInv
<1> QED
  BY <1>5, <1>6

LEMMA SharedId ==
  ASSUME NEW r, NEW s, NEW k, NEW more, IsItems(r.frames), k \in 0..Len(r.frames), IsItems(more), Shares(r, s, k, more),
         HasId(r), k = 0 => r.frames = <<>> \/ (more # <<>> /\ more[1].k = "lost")
  PROVE  HasId(s)
<1>2. /\ k \in Nat /\ Len(more) \in Nat /\ DOMAIN s.frames = 1..(k + Len(more))
      /\ \A j \in 1..k : s.frames[j] = r.frames[j]
      /\ \A j \in 1..Len(more) : s.frames[k + j] = more[j]
  BY SharesIs
<1> SUFFICES ASSUME s.id = "" PROVE s.frames # <<>> /\ (s.frames[1].k = "lost" \/ (s.frames[1].k = "started" /\ s.frames[1].v[1].id # ""))
  BY Zenon DEF HasId
<1>1. r.frames # <<>> /\ (r.frames[1].k = "lost" \/ (r.frames[1].k = "started" /\ r.frames[1].v[1].id # ""))
  BY Zenon DEF HasId, Shares
<1>3. CASE k = 0
  <2>1. more # <<>> /\ more[1].k = "lost"
    BY <1>1, <1>3, Zenon
  <2>2. IsVec(more)
    BY Zenon DEF IsItems
  <2>3. Len(more) # 0
    BY <2>1, <2>2, VecEmpty, Zenon
  <2>4. 1 \in DOMAIN s.frames /\ s.frames[0 + 1] = more[1] /\ 0 + 1 = 1
    <3> HIDE DEF HasId
    <3> QED
      BY ONLY <1>2, <1>3, <2>3
  <2>5. s.frames # <<>>
    BY ONLY <2>4
  <2> QED
    BY <2>1, <2>4, <2>5, Zenon
<1>4. CASE k # 0
  <2>1. 1 \in DOMAIN s.frames /\ s.frames[1] = r.frames[1]
    BY ONLY <1>2, <1>4
  <2>2. s.frames # <<>>
    BY ONLY <2>1
  <2> QED
    BY <1>1, <2>1, <2>2, Zenon
<1> QED
  BY <1>3, <1>4, Zenon

-----------------------------------------------------------------------------
\* The server takes an item.

Takes(r, s) == s.result = r.result /\ s.feed = Tail(r.feed)
LEMMA TakeOne ==
  ASSUME NEW r, ListsOK(r), FeedInv(r), r.feed # <<>>, NEW s, Takes(r, s)
  PROVE  /\ IsItems(s.feed) /\ Len(s.feed) <= Len(s.result) /\ s.result = Yielded(s) \o s.feed
         /\ IsItems(Yielded(r)) /\ \A i \in DOMAIN Yielded(r) : Yielded(r)[i] = r.result[i] /\ r.result[i].k = "batch"
         /\ IsItems(Yielded(s)) /\ Yielded(s) = Yielded(r) \o <<r.feed[1]>>
         /\ ItemRows(Yielded(s)) = ItemRows(Yielded(r)) \o RowsIn(r.feed[1])
         /\ ItemRows(r.result) = ItemRows(Yielded(s)) \o ItemRows(s.feed)
         /\ IsVec(RowsIn(r.feed[1])) /\ r.feed[1].k \in {"batch", "err", "end"}
         /\ r.feed[1].k # "batch" => s.feed = <<>>
         /\ r.feed[1].k = "end" => Unfailed(r.result)
<1> DEFINE x == r.feed[1]
           t == Tail(r.feed)
           y == Yielded(r)
           z == y \o <<x>>
<1>1. IsItems(r.feed) /\ IsVec(r.feed) /\ IsItems(r.result) /\ IsVec(r.result) /\ Len(r.result) \in Nat
  BY DEF ListsOK, IsResult, IsItems, IsVec
<1>2. Len(r.feed) <= Len(r.result) /\ r.result = y \o r.feed
  BY Zenon DEF FeedInv
<1>3. /\ IsVec(t) /\ Len(r.feed) \in Nat \ {0} /\ Len(t) = Len(r.feed) - 1 /\ r.feed = <<x>> \o t
  BY <1>1, VecHead
<1>4. IsItems(t) /\ IsVec(RowsIn(x)) /\ IsItems(<<x>>) /\ ItemRows(<<x>>) = RowsIn(x)
  BY <1>1, ItemsHead
<1>5. IsItems(y) /\ IsVec(y) /\ Len(y) = Len(r.result) - Len(r.feed)
  <2>1. Len(r.result) - Len(r.feed) \in 0..Len(r.result)
    BY <1>1, <1>2, <1>3
  <2> DEFINE k == Len(r.result) - Len(r.feed)
  <2>2. y = SubSeq(r.result, 1, k)
    BY Zenon DEF Yielded
  <2> HIDE DEF k
  <2>3. IsItems(SubSeq(r.result, 1, k)) /\ Len(SubSeq(r.result, 1, k)) = k
    BY <1>1, <2>1, ItemsSub, VecSub DEF k
  <2> QED
    BY <2>2, <2>3 DEF k, IsItems
<1>6. s.result = r.result /\ s.feed = t
  BY Zenon DEF Takes
<1>7. z = y \o <<x>>
  OBVIOUS
<1> HIDE DEF x, t, y, z
<1>8. IsItems(z) /\ IsVec(z) /\ ItemRows(z) = ItemRows(y) \o RowsIn(x) /\ Len(z) = Len(y) + 1
  <2> DEFINE o == <<x>>
  <2>1. IsVec(o) /\ Len(o) = 1
    BY VecOne
  <2>2. Len(y \o <<x>>) = Len(y) + 1
    <3>1. Len(y \o o) = Len(y) + Len(o)
      <4> HIDE DEF o
      <4> QED
        BY <1>5, <2>1, VecCat
    <3> QED
      BY <2>1, <3>1, Zenon
  <2>3. IsItems(y \o <<x>>) /\ ItemRows(y \o <<x>>) = ItemRows(y) \o RowsIn(x)
    BY <1>4, <1>5, ItemsCat, ItemRowsCat
  <2> QED
    BY <1>7, <2>2, <2>3 DEF IsItems
<1>9. z \o t = r.result
  <2> DEFINE o == <<x>>
             e == r.feed
  <2>1. IsVec(o) /\ z = y \o o /\ e = o \o t
    BY <1>3, <1>7, VecOne, Zenon
  <2>2. z \o t = y \o r.feed
    <3>1. z \o t = y \o e
      <4> HIDE DEF o, e
      <4> QED
        BY <1>3, <1>5, <2>1, VecRegroup
    <3> QED
      BY <3>1, Zenon
  <2> QED
    BY <1>2, <2>2
<1>10. Yielded(s) = z
  <2>1. SubSeq(r.result, 1, Len(r.result) - Len(t)) = z
    BY <1>3, <1>8, <1>9, VecCut
  <2> QED
    BY <1>6, <2>1, Zenon DEF Yielded
<1>11. ItemRows(r.result) = ItemRows(z) \o ItemRows(t)
  BY <1>4, <1>8, <1>9, ItemRowsCat
<1>12. /\ \A i \in 1..Len(y) : y[i] = r.result[i]
       /\ DOMAIN y = 1..Len(y) /\ Len(y) \in Nat
  <2>1. /\ \A i \in 1..Len(y) : (y \o r.feed)[i] = y[i]
        /\ DOMAIN y = 1..Len(y) /\ Len(y) \in Nat
    BY <1>1, <1>5, VecCat
  <2> QED
    BY <1>2, <2>1
<1>13. r.result[Len(y) + 1] = x
  <2>1. (y \o r.feed)[Len(y) + 1] = r.feed[1]
    BY <1>1, <1>3, <1>5, VecCat
  <2> QED
    BY <1>2, <2>1 DEF x
<1>14. \A i \in DOMAIN r.result : IF i < Len(r.result) THEN r.result[i].k = "batch" ELSE r.result[i].k \in {"err", "end"}
  BY Zenon DEF ListsOK, IsResult
<1>15. DOMAIN r.result = 1..Len(r.result)
  BY <1>1 DEF IsVec
<1>16. \A i \in DOMAIN y : y[i] = r.result[i] /\ r.result[i].k = "batch"
  BY <1>1, <1>3, <1>5, <1>12, <1>14, <1>15
<1>17. x.k \in {"batch", "err", "end"} /\ (x.k # "batch" => t = <<>>)
  <2>1. Len(y) + 1 \in DOMAIN r.result /\ Len(r.result) = Len(y) + 1 + Len(t) /\ Len(t) \in Nat
    BY <1>1, <1>3, <1>5, <1>12, <1>15
  <2>2. CASE Len(t) = 0
    <3>1. t = <<>>
      BY <1>3, <2>2, VecEmpty
    <3> QED
      BY <1>13, <1>14, <2>1, <2>2, <3>1
  <2>3. CASE Len(t) # 0
    <3>1. Len(y) + 1 < Len(r.result)
      BY <1>12, <2>1, <2>3
    <3> QED
      BY <1>13, <1>14, <2>1, <3>1
  <2> QED
    BY <2>2, <2>3
<1>18. Len(t) <= Len(r.result)
  BY <1>1, <1>2, <1>3
<1>19. x.k = "end" => Unfailed(r.result)
  <2> SUFFICES ASSUME x.k = "end", NEW i \in DOMAIN r.result PROVE r.result[i].k # "err"
    BY DEF Unfailed
  <2>1. CASE i < Len(r.result)
    BY <1>14, <2>1
  <2>2. CASE i >= Len(r.result)
    <3>1. t = <<>>
      BY <1>17
    <3>2. Len(t) = 0
      BY <1>3, <3>1, VecEmpty
    <3>3. i = Len(y) + 1
      BY <1>1, <1>3, <1>5, <1>12, <1>15, <2>2, <3>2
    <3> QED
      BY <1>13, <3>3
  <2> QED
    BY <1>1, <1>15, <2>1, <2>2
<1> QED
  BY <1>4, <1>5, <1>6, <1>7, <1>8, <1>9, <1>10, <1>11, <1>16, <1>17, <1>18, <1>19, Zenon DEF x, y

LEMMA StreamsIs ==
  ASSUME NEW r, Streams(r), r.at = "streaming"
  PROVE  /\ ListsOK(r) /\ PrefixInv(r) /\ ReportInv(r) /\ HasId(r) /\ FrameInv(r) /\ FeedInv(r)
         /\ IsItems(r.result) /\ IsVec(r.rows) /\ IsItems(r.frames) /\ IsItems(r.feed)
         /\ IsVec(ItemRows(r.result)) /\ IsVec(ItemRows(r.frames)) /\ Len(r.frames) \in 0..Len(r.frames)
         /\ SubSeq(r.frames, 1, Len(r.frames)) = r.frames
<1>1. ListsOK(r) /\ PrefixInv(r) /\ ReportInv(r) /\ HasId(r) /\ FrameInv(r) /\ FeedInv(r)
  BY DEF Streams
<1>2. IsItems(r.result) /\ IsVec(r.rows) /\ IsItems(r.frames) /\ IsItems(r.feed)
  BY <1>1 DEF ListsOK, IsResult
<1>3. IsVec(r.frames) /\ Len(r.frames) \in 0..Len(r.frames)
  BY <1>2 DEF IsItems, IsVec
<1> QED
  BY <1>1, <1>2, <1>3, ItemRowsVec, VecAll

\* The rows of the frames that are added follow the others.
LEMMA RowsGrow ==
  ASSUME NEW r, Streams(r), r.at = "streaming", NEW s, NEW more, IsItems(more), Shares(r, s, Len(r.frames), more)
  PROVE  s.rows \o ItemRows(s.frames) = (r.rows \o ItemRows(r.frames)) \o ItemRows(more)
<1> DEFINE a == r.rows
           b == ItemRows(r.frames)
           c == ItemRows(more)
           d == a \o b
           e == ItemRows(s.frames)
<1>1. IsVec(a) /\ IsVec(b) /\ IsVec(c)
  BY StreamsIs, ItemRowsVec
<1>2. e = b \o c
  <2> DEFINE n == Len(r.frames)
  <2>1. IsItems(r.frames) /\ n \in 0..n /\ SubSeq(r.frames, 1, n) = r.frames
    BY StreamsIs
  <2>2. Shares(r, s, n, more)
    OBVIOUS
  <2> HIDE DEF n
  <2>3. ItemRows(s.frames) = ItemRows(SubSeq(r.frames, 1, n)) \o ItemRows(more)
    BY <2>1, <2>2, SharesIs DEF n
  <2> QED
    BY <2>1, <2>3, Zenon
<1>3. d = a \o b
  OBVIOUS
<1> HIDE DEF a, b, c, d, e
<1>4. d \o c = a \o e
  BY <1>1, <1>2, <1>3, VecRegroup
<1>5. s.rows = r.rows
  BY Zenon DEF Shares
<1> QED
  BY <1>4, <1>5, Zenon DEF a, b, c, d, e

PumpsFrame(r, s, frame) ==
    /\ s.result = r.result /\ s.at = "streaming"
    /\ Shares(r, s, Len(r.frames), Closing(frame))
    /\ s.feed = IF Ends(frame) THEN <<>> ELSE Tail(r.feed)
    /\ s.sent = r.sent + (IF frame.k = "batch" THEN Len(frame.v) ELSE 0)

\* A batch becomes a frame, an empty one none.
LEMMA BatchPumped ==
  ASSUME NEW r, Streams(r), r.at = "streaming", r.feed # <<>>, r.feed[1].k = "batch",
         NEW s, NEW frame, frame = Frame("batch", r.feed[1].v), PumpsFrame(r, s, frame)
  PROVE  Streams(s)
<1> DEFINE v == r.feed[1].v
           more == Closing(frame)
           n == Len(r.frames)
<1>1. frame.k = "batch" /\ frame.v = v /\ ~Ends(frame) /\ v = RowsIn(r.feed[1])
  BY DEF Frame, Ends, RowsIn
<1>2. s.result = r.result /\ s.feed = Tail(r.feed) /\ s.sent = r.sent + Len(v) /\ s.at = "streaming" /\ Takes(r, s)
  BY <1>1, Zenon DEF PumpsFrame, Takes
<1>3. Shares(r, s, n, more) /\ s.rows = r.rows /\ s.completion = r.completion
  BY Zenon DEF PumpsFrame, Shares
<1>4. /\ IsItems(s.feed) /\ Len(s.feed) <= Len(s.result) /\ s.result = Yielded(s) \o s.feed
      /\ ItemRows(Yielded(s)) = ItemRows(Yielded(r)) \o v
      /\ ItemRows(s.result) = ItemRows(Yielded(s)) \o ItemRows(s.feed)
      /\ IsVec(v) /\ IsItems(Yielded(r)) /\ IsItems(Yielded(s))
  <2>1. ListsOK(r) /\ FeedInv(r)
    BY StreamsIs
  <2>2. v = RowsIn(r.feed[1])
    BY <1>1
  <2> HIDE DEF v, more, n
  <2>3. /\ IsItems(s.feed) /\ Len(s.feed) <= Len(s.result) /\ s.result = Yielded(s) \o s.feed
        /\ ItemRows(Yielded(s)) = ItemRows(Yielded(r)) \o RowsIn(r.feed[1])
        /\ ItemRows(r.result) = ItemRows(Yielded(s)) \o ItemRows(s.feed)
        /\ IsVec(RowsIn(r.feed[1])) /\ IsItems(Yielded(r)) /\ IsItems(Yielded(s))
    BY <1>2, <2>1, TakeOne
  <2> QED
    BY <1>2, <2>2, <2>3, Zenon
<1>5. IsItems(more) /\ ItemRows(more) = v /\ \A i \in DOMAIN more : more[i].k = "batch"
  <2>1. CASE v = <<>>
    <3>1. more = <<>>
      BY <1>1, <2>1 DEF Closing, Frame
    <3> QED
      BY <2>1, <3>1, ItemRowsEmpty
  <2>2. CASE v # <<>>
    <3>1. frame # Frame("batch", <<>>)
      BY <1>1, <2>2 DEF Frame
    <3>2. more = <<frame>>
      BY <1>1, <3>1, Zenon DEF Closing
    <3>3. IsItems(<<frame>>) /\ ItemRows(<<frame>>) = RowsIn(frame)
      BY <1>1, <1>4, ItemsOne
    <3>4. RowsIn(frame) = v
      BY <1>1 DEF RowsIn
    <3> HIDE DEF v
    <3>5. DOMAIN <<frame>> = {1} /\ <<frame>>[1] = frame
      BY VecOne
    <3> QED
      BY <1>1, <3>2, <3>3, <3>4, <3>5
  <2> QED
    BY <2>1, <2>2
<1>6. n \in 0..n /\ IsItems(r.frames) /\ ListsOK(r) /\ ReportInv(r) /\ HasId(r) /\ FrameInv(r) /\ FeedInv(r)
  BY StreamsIs
<1> HIDE DEF v, more, n
<1>7. s.rows \o ItemRows(s.frames) = (r.rows \o ItemRows(r.frames)) \o v
  BY <1>3, <1>5, RowsGrow DEF n
<1>8. ItemRows(Yielded(r)) = r.rows \o ItemRows(r.frames) /\ r.sent = Len(ItemRows(Yielded(r))) /\ r.completion = None
  BY <1>6, Zenon DEF FeedInv
<1>9. s.rows \o ItemRows(s.frames) = ItemRows(Yielded(s))
  BY <1>4, <1>7, <1>8, Zenon
<1>10. PrefixInv(s)
  <2>1. IsVec(ItemRows(Yielded(s))) /\ IsVec(ItemRows(s.feed))
    BY <1>4, ItemRowsVec
  <2> QED
    BY <1>4, <1>9, <2>1, VecPrefix DEF PrefixInv
<1>11. /\ IsItems(s.frames) /\ n \in Nat /\ Len(more) \in Nat /\ DOMAIN s.frames = 1..(n + Len(more))
       /\ \A i \in 1..n : s.frames[i] = r.frames[i]
       /\ \A i \in 1..Len(more) : s.frames[n + i] = more[i]
       /\ DOMAIN r.frames = 1..n
  BY <1>3, <1>5, <1>6, SharesIs, SMTT(40) DEF n
<1>12. DOMAIN more = 1..Len(more)
  BY <1>5 DEF IsItems, IsVec
<1>13. ASSUME NEW i \in DOMAIN s.frames, i \notin 1..n PROVE s.frames[i].k = "batch"
  <2>1. i - n \in 1..Len(more) /\ i = n + (i - n)
    BY <1>11, <1>13
  <2>2. s.frames[i] = more[i - n]
    BY <1>11, <2>1
  <2> QED
    BY <1>5, <1>12, <2>1, <2>2
<1>14. FrameInv(s)
  <2>1. \A i \in 1..n : CompletedInv(s, i) /\ EndInv(s, i)
    BY <1>2, <1>3, <1>5, <1>6, SharedFrames DEF n
  <2>2. ASSUME NEW i \in DOMAIN s.frames, i \notin 1..n PROVE CompletedInv(s, i) /\ EndInv(s, i)
    BY <1>13, <2>2 DEF CompletedInv, EndInv
  <2> QED
    BY <2>1, <2>2 DEF FrameInv
<1>15. FeedInv(s)
  <2>1. \A i \in DOMAIN r.frames : r.frames[i].k # "completed"
    BY <1>6, Zenon DEF FeedInv
  <2>2. \A i \in DOMAIN s.frames : s.frames[i].k # "completed"
    BY <1>11, <1>13, <2>1
  <2>3. s.sent = Len(ItemRows(Yielded(s)))
    <3>1. IsVec(ItemRows(Yielded(r)))
      BY <1>4, ItemRowsVec
    <3>2. Len(ItemRows(Yielded(r)) \o v) = Len(ItemRows(Yielded(r))) + Len(v)
      BY <1>4, <3>1, VecCat
    <3> QED
      BY <1>2, <1>4, <1>8, <3>2, Zenon DEF v
  <2>4. s.completion = None
    BY <1>3, <1>8
  <2> QED
    BY <1>4, <1>9, <2>2, <2>3, <2>4, Zenon DEF FeedInv
<1>16. HasId(s)
  <2>1. n = 0 => r.frames = <<>>
    BY <1>6, VecEmpty DEF n, IsItems
  <2> QED
    BY <1>3, <1>5, <1>6, <2>1, SharedId DEF n
<1>17. ListsOK(s) /\ ReportInv(s)
  BY <1>2, <1>3, <1>4, <1>6, <1>8, <1>11 DEF ListsOK, ReportInv
<1> QED
  BY <1>2, <1>10, <1>14, <1>15, <1>16, <1>17, Zenon DEF Streams

\* An error or the end of the result becomes the last frame but one.
LEMMA LastPumped ==
  ASSUME NEW r, Streams(r), r.at = "streaming", r.feed # <<>>, r.feed[1].k # "batch",
         NEW s, NEW frame, frame = QueryFrame(r.feed[1], r.sent), PumpsFrame(r, s, frame)
  PROVE  Streams(s)
<1> DEFINE end == Frame("end", <<>>)
           more == Closing(frame)
           n == Len(r.frames)
           x == r.feed[1]
           p == [result |-> r.result, feed |-> Tail(r.feed)]
<1>1. /\ ListsOK(r) /\ PrefixInv(r) /\ ReportInv(r) /\ HasId(r) /\ FrameInv(r) /\ FeedInv(r)
      /\ n \in 0..n /\ IsItems(r.frames) /\ IsVec(r.rows) /\ IsVec(ItemRows(r.frames))
      /\ SubSeq(r.frames, 1, n) = r.frames
  BY StreamsIs
<1>2. Takes(r, p)
  BY DEF Takes
<1> HIDE DEF p
<1>3. /\ p.feed = <<>> /\ x.k \in {"err", "end"} /\ (x.k = "end" => Unfailed(r.result))
      /\ ItemRows(r.result) = ItemRows(Yielded(p)) \o ItemRows(p.feed)
      /\ ItemRows(Yielded(p)) = ItemRows(Yielded(r)) \o RowsIn(x)
      /\ IsItems(Yielded(r)) /\ IsItems(Yielded(p))
  BY <1>1, <1>2, TakeOne
<1>4. ItemRows(r.result) = r.rows \o ItemRows(r.frames) /\ r.sent = Len(ItemRows(r.result))
  <2>1. ItemRows(Yielded(r)) = r.rows \o ItemRows(r.frames) /\ r.sent = Len(ItemRows(Yielded(r)))
    BY <1>1, Zenon DEF FeedInv
  <2>2. IsVec(ItemRows(Yielded(r))) /\ IsVec(ItemRows(Yielded(p)))
    BY <1>3, ItemRowsVec
  <2>3. RowsIn(x) = <<>>
    BY DEF RowsIn
  <2>4. ItemRows(Yielded(p)) = ItemRows(Yielded(r))
    BY <1>3, <2>2, <2>3, VecEmpty
  <2>5. ItemRows(r.result) = ItemRows(Yielded(p))
    BY <1>3, <2>2, ItemRowsEmpty, VecEmpty
  <2> QED
    BY <2>1, <2>4, <2>5, Zenon
<1>5. /\ x.k = "err" => frame.k = "error"
      /\ x.k = "end" => frame.k = "completed" /\ frame.v = Some([rows |-> r.sent, truncated |-> x.v.truncated])
  BY <1>3 DEF QueryFrame, ErrorFrame, Frame, Some
<1>6. Ends(frame) /\ more = <<frame, end>> /\ frame.k # "batch" /\ frame.k # "end" /\ end.k = "end"
  BY <1>3, <1>5 DEF Ends, Closing, Frame
<1>7. s.result = r.result /\ s.at = "streaming" /\ s.feed = <<>>
  BY <1>6, Zenon DEF PumpsFrame
<1>8. Shares(r, s, n, more) /\ s.rows = r.rows /\ s.completion = r.completion
  BY Zenon DEF PumpsFrame, Shares
<1>9. IsItems(more) /\ ItemRows(more) = <<>> /\ Len(more) = 2 /\ more[1] = frame /\ more[2] = end
  <2> HIDE DEF end, more
  <2>1. IsItems(<<frame>>) /\ ItemRows(<<frame>>) = <<>> /\ IsItems(<<end>>) /\ ItemRows(<<end>>) = <<>>
    BY <1>6, ItemsOne DEF RowsIn
  <2>2. more = <<frame>> \o <<end>>
    BY <1>6
  <2> DEFINE a == <<frame>>
             b == <<end>>
  <2>3. IsItems(a) /\ ItemRows(a) = <<>> /\ IsItems(b) /\ ItemRows(b) = <<>> /\ more = a \o b
    BY <2>1, <2>2, Zenon
  <2>4. Len(more) = 2 /\ more[1] = frame /\ more[2] = end
    BY <1>6
  <2> HIDE DEF a, b
  <2>5. IsItems(more) /\ ItemRows(more) = <<>>
    <3>1. IsItems(a \o b) /\ ItemRows(a \o b) = ItemRows(a) \o ItemRows(b)
      BY <2>3, ItemsCat, ItemRowsCat
    <3>2. <<>> \o <<>> = <<>>
      BY VecEmpty
    <3> QED
      BY <2>3, <3>1, <3>2, Zenon
  <2> QED
    BY <2>4, <2>5
<1> HIDE DEF end, more, n, x
<1>10. PrefixInv(s)
  <2>1. s.rows \o ItemRows(s.frames) = (r.rows \o ItemRows(r.frames)) \o ItemRows(more)
    BY <1>8, <1>9, RowsGrow DEF n
  <2>2. IsVec(r.rows \o ItemRows(r.frames))
    BY <1>1, VecCat
  <2>3. s.rows \o ItemRows(s.frames) = r.rows \o ItemRows(r.frames)
    BY <1>9, <2>1, <2>2, VecEmpty
  <2> QED
    BY <1>1, <1>7, <2>3 DEF PrefixInv
<1>11. /\ IsItems(s.frames) /\ n \in Nat /\ DOMAIN s.frames = 1..(n + Len(more))
       /\ \A i \in 1..n : s.frames[i] = r.frames[i] /\ SubSeq(s.frames, 1, i - 1) = SubSeq(r.frames, 1, i - 1)
       /\ \A i \in 1..Len(more) : s.frames[n + i] = more[i]
  <2>1. IsItems(more)
    BY <1>9
  <2>2. n \in 0..Len(r.frames) /\ IsItems(r.frames)
    BY <1>1 DEF n
  <2> QED
    BY <1>8, <2>1, <2>2, SharesIs
<1>12. s.frames[n + 1] = frame /\ s.frames[n + 2] = end
  BY <1>9, <1>11
<1>13. SubSeq(s.frames, 1, (n + 1) - 1) = r.frames
  <2>1. SubSeq(r.frames \o more, 1, n) = SubSeq(r.frames, 1, n)
    BY <1>1, <1>9, VecStart DEF IsItems, n
  <2>2. s.frames = r.frames \o more
    BY <1>1, <1>8, Zenon DEF Shares, n
  <2>3. (n + 1) - 1 = n
    BY <1>11
  <2> QED
    BY <1>1, <2>1, <2>2, <2>3, Zenon
<1>14. CompletedInv(s, n + 1)
  <2> SUFFICES ASSUME frame.k = "completed" PROVE CompletedInv(s, n + 1)
    BY <1>12 DEF CompletedInv
  <2>1. x.k = "end"
    BY <1>3, <1>5
  <2>2. frame.v = Some(frame.v[1]) /\ frame.v[1].rows = r.sent
    BY <1>5, <2>1 DEF Some
  <2>3. s.rows \o ItemRows(SubSeq(s.frames, 1, (n + 1) - 1)) = ItemRows(s.result)
    BY <1>4, <1>7, <1>8, <1>13, Zenon
  <2> QED
    BY <1>3, <1>4, <1>7, <1>12, <2>1, <2>2, <2>3, Zenon DEF CompletedInv
<1>15. EndInv(s, n + 1) /\ CompletedInv(s, n + 2)
  BY <1>6, <1>12 DEF EndInv, CompletedInv
<1>16. EndInv(s, n + 2)
  <2>1. frame.k \in {"error", "completed"}
    BY <1>3, <1>5
  <2>2. n + 2 # 1 /\ (n + 2) - 1 = n + 1
    BY <1>11
  <2> QED
    BY <1>12, <2>1, <2>2 DEF EndInv
<1>17. FrameInv(s)
  <2>1. \A i \in 1..n : CompletedInv(s, i) /\ EndInv(s, i)
    BY <1>1, <1>7, <1>8, <1>9, SharedFrames DEF n
  <2>2. \A i \in DOMAIN s.frames : i \in 1..n \/ i = n + 1 \/ i = n + 2
    BY <1>9, <1>11
  <2> QED
    BY <1>14, <1>15, <1>16, <2>1, <2>2 DEF FrameInv
<1>18. HasId(s)
  <2>1. n = 0 => r.frames = <<>>
    BY <1>1, VecEmpty DEF n, IsItems
  <2> QED
    BY <1>1, <1>8, <1>9, <2>1, SharedId DEF n
<1>19. ListsOK(s) /\ ReportInv(s) /\ FeedInv(s)
  BY <1>1, <1>7, <1>8, <1>11, ItemRowsEmpty DEF ListsOK, ReportInv, FeedInv
<1> QED
  BY <1>7, <1>10, <1>17, <1>18, <1>19, Zenon DEF Streams
LEMMA StreamPumped ==
  ASSUME NEW r, Streams(r), r.at = "streaming", r.feed # <<>>,
         NEW op, NEW s, PumpsFrame(r, s, SvcFrame(op, r.feed[1], r.sent))
  PROVE  Streams(s)
<1> DEFINE frame == SvcFrame(op, r.feed[1], r.sent)
<1>1. frame = QueryFrame(r.feed[1], r.sent)
  BY DEF SvcFrame, SemanticQueryFrame
<1>2. r.feed[1].k = "batch" => frame = Frame("batch", r.feed[1].v)
  BY <1>1 DEF QueryFrame
<1> HIDE DEF frame
<1>3. PumpsFrame(r, s, frame)
  BY Zenon DEF frame
<1> QED
  BY <1>1, <1>2, <1>3, BatchPumped, LastPumped

-----------------------------------------------------------------------------
\* A query is cancelled: the engine ends its result with an error.

CancelsInto(r, s) ==
    /\ s.at = "streaming" /\ s.feed = <<Cancelled>> /\ s.result = Append(Yielded(r), Cancelled)
    /\ s.frames = r.frames /\ s.rows = r.rows /\ s.completion = r.completion /\ s.id = r.id /\ s.sent = r.sent
LEMMA StreamCancelled ==
  ASSUME NEW r, Streams(r), r.at = "streaming", r.feed # <<>>, NEW s, CancelsInto(r, s)
  PROVE  Streams(s)
<1> DEFINE y == Yielded(r)
           last == <<Cancelled>>
           p == [result |-> r.result, feed |-> Tail(r.feed)]
<1>1. /\ ListsOK(r) /\ HasId(r) /\ FrameInv(r) /\ FeedInv(r)
      /\ IsItems(r.frames) /\ IsVec(r.rows) /\ IsVec(ItemRows(r.frames))
  BY StreamsIs
<1>2. Takes(r, p)
  BY DEF Takes
<1> HIDE DEF p
<1>3. IsItems(y) /\ \A i \in DOMAIN y : y[i].k = "batch"
  <2> HIDE DEF last
  <2>1. IsItems(Yielded(r)) /\ \A i \in DOMAIN Yielded(r) : Yielded(r)[i] = r.result[i] /\ r.result[i].k = "batch"
    BY <1>1, <1>2, TakeOne
  <2> QED
    BY <2>1
<1>4. Cancelled.k = "err" /\ IsItems(last) /\ ItemRows(last) = <<>> /\ Len(last) = 1 /\ last[1] = Cancelled
  <2>1. Cancelled.k = "err"
    BY DEF Cancelled
  <2>2. RowsIn(Cancelled) = <<>>
    BY <2>1 DEF RowsIn
  <2> QED
    BY <2>1, <2>2, ItemsOne, VecOne
<1>5. /\ s.at = "streaming" /\ s.feed = last
      /\ s.frames = r.frames /\ s.rows = r.rows /\ s.completion = r.completion /\ s.sent = r.sent
  BY Zenon DEF CancelsInto
<1>6. s.result = y \o last
  <2>1. s.result = Append(y, Cancelled)
    BY Zenon DEF CancelsInto
  <2> HIDE DEF y
  <2>2. IsVec(y)
    BY <1>3 DEF IsItems
  <2>3. Append(y, Cancelled) = y \o <<Cancelled>>
    BY <2>2, VecAppend
  <2> QED
    BY <2>1, <2>3, Zenon
<1> HIDE DEF y, last
<1>7. /\ IsVec(s.result) /\ Len(s.result) = Len(y) + 1 /\ Len(y) \in Nat /\ DOMAIN s.result = 1..(Len(y) + 1)
      /\ DOMAIN y = 1..Len(y)
      /\ \A i \in 1..Len(y) : s.result[i] = y[i]
      /\ s.result[Len(y) + 1] = Cancelled
  <2>1. IsVec(y) /\ IsVec(last)
    BY <1>3, <1>4 DEF IsItems
  <2>2. /\ IsVec(y \o last) /\ Len(y \o last) = Len(y) + Len(last) /\ Len(y) \in Nat
        /\ DOMAIN (y \o last) = 1..(Len(y) + Len(last)) /\ DOMAIN y = 1..Len(y)
        /\ \A i \in 1..Len(y) : (y \o last)[i] = y[i]
        /\ \A i \in 1..Len(last) : (y \o last)[Len(y) + i] = last[i]
    BY ONLY <2>1, VecCat
  <2>3. 1 \in 1..Len(last)
    BY <1>4
  <2> QED
    BY <1>4, <1>6, <2>2, <2>3, Zenon
<1>8. IsItems(s.result) /\ ItemRows(s.result) = ItemRows(y) /\ IsVec(ItemRows(y))
  <2>1. IsItems(y \o last) /\ ItemRows(y \o last) = ItemRows(y) \o ItemRows(last) /\ IsVec(ItemRows(y))
    BY <1>3, <1>4, ItemsCat, ItemRowsCat, ItemRowsVec
  <2>2. ItemRows(y) \o <<>> = ItemRows(y)
    BY <2>1, VecEmpty
  <2> QED
    BY <1>4, <1>6, <2>1, <2>2, Zenon
<1>9. IsResult(s.result)
  <2>1. s.result # <<>>
    BY <1>7, VecEmpty
  <2>2. ASSUME NEW i \in DOMAIN s.result
        PROVE  IF i < Len(s.result) THEN s.result[i].k = "batch" ELSE s.result[i].k \in {"err", "end"}
    <3>1. i \in 1..Len(y) \/ i = Len(y) + 1
      BY <1>7
    <3> QED
      BY <1>3, <1>4, <1>7, <3>1
  <2> QED
    BY <1>8, <2>1, <2>2 DEF IsResult
<1>10. ItemRows(y) = r.rows \o ItemRows(r.frames) /\ r.sent = Len(ItemRows(y)) /\ r.completion = None
       /\ \A i \in DOMAIN r.frames : r.frames[i].k # "completed"
  BY <1>1, Zenon DEF FeedInv, y
<1>11. Yielded(s) = y
  <2>1. IsVec(y) /\ IsVec(last)
    BY <1>3, <1>4 DEF IsItems
  <2>2. SubSeq(s.result, 1, Len(s.result) - Len(last)) = y
    BY <1>6, <2>1, VecCut
  <2> QED
    BY <1>5, <2>2, Zenon DEF Yielded
<1>12. PrefixInv(s)
  <2>1. IsPrefix(ItemRows(y), ItemRows(y) \o <<>>) /\ ItemRows(y) \o <<>> = ItemRows(y)
    BY <1>8, VecEmpty, VecPrefix
  <2> QED
    BY <1>5, <1>8, <1>10, <2>1, Zenon DEF PrefixInv
<1>13. FeedInv(s)
  <2>1. Len(s.feed) <= Len(s.result)
    <3>1. Len(s.feed) = 1
      BY <1>4, <1>5, Zenon
    <3>2. Len(s.result) = Len(y) + 1 /\ Len(y) \in Nat
      BY <1>7
    <3> QED
      BY ONLY <3>1, <3>2
  <2> QED
    BY <1>5, <1>6, <1>10, <1>11, <2>1, Zenon DEF FeedInv
<1>14. FrameInv(s)
  <2>1. ASSUME NEW i \in DOMAIN r.frames PROVE CompletedInv(s, i) /\ EndInv(s, i)
    <3>1. EndInv(r, i)
      BY <1>1 DEF FrameInv
    <3> QED
      BY <1>5, <1>10, <3>1, Zenon DEF CompletedInv, EndInv
  <2> QED
    BY <1>5, <2>1, Zenon DEF FrameInv
<1>15. HasId(s)
  BY <1>1, Zenon DEF HasId, CancelsInto
<1>16. ListsOK(s) /\ ReportInv(s)
  BY <1>1, <1>4, <1>5, <1>9, <1>10 DEF ListsOK, ReportInv
<1> QED
  BY <1>5, <1>12, <1>13, <1>14, <1>15, <1>16, Zenon DEF Streams

-----------------------------------------------------------------------------
\* The connection breaks: some of the frames in flight arrive, then an error.

LosesFrames(r, s, k) ==
    /\ s.at = "streaming" /\ s.result = r.result /\ s.feed = <<>> /\ s.frames = Append(SubSeq(r.frames, 1, k), Broken)
    /\ s.rows = r.rows /\ s.completion = r.completion /\ s.id = r.id
LEMMA StreamLost ==
  ASSUME NEW r, Streams(r), r.at = "streaming", NEW k \in 0..Len(r.frames), NEW s, LosesFrames(r, s, k)
  PROVE  Streams(s)
<1> DEFINE more == <<Broken>>
           a == SubSeq(r.frames, 1, k)
           b == SubSeq(r.frames, k + 1, Len(r.frames))
<1>1. /\ ListsOK(r) /\ PrefixInv(r) /\ ReportInv(r) /\ HasId(r) /\ FrameInv(r)
      /\ IsItems(r.frames) /\ IsVec(r.rows) /\ IsVec(ItemRows(r.result))
  BY StreamsIs
<1>2. /\ Broken.k = "lost" /\ IsItems(more) /\ ItemRows(more) = <<>> /\ Len(more) = 1 /\ more[1] = Broken
      /\ more # <<>>
  <2>1. Broken.k = "lost"
    BY DEF Broken, Frame
  <2>2. RowsIn(Broken) = <<>>
    BY <2>1 DEF RowsIn
  <2> QED
    BY <2>1, <2>2, ItemsOne, VecOne
<1>3. IsItems(a) /\ IsItems(b) /\ ItemRows(r.frames) = ItemRows(a) \o ItemRows(b)
  BY <1>1, ItemsSub
<1>4. s.at = "streaming" /\ s.result = r.result /\ s.feed = <<>> /\ s.rows = r.rows /\ s.completion = r.completion
  BY Zenon DEF LosesFrames
<1>5. Shares(r, s, k, more)
  <2>1. s.frames = Append(a, Broken)
    BY Zenon DEF LosesFrames
  <2>2. Append(a, Broken) = a \o <<Broken>>
    <3> HIDE DEF a
    <3>1. IsVec(a)
      BY <1>3 DEF IsItems
    <3> QED
      BY <3>1, VecAppend
  <2>3. s.frames = SubSeq(r.frames, 1, k) \o more
    BY <2>1, <2>2, Zenon
  <2> QED
    BY <2>3, Zenon DEF LosesFrames, Shares
<1> HIDE DEF more, a, b
<1>6. /\ IsItems(s.frames) /\ k \in Nat /\ DOMAIN s.frames = 1..(k + Len(more))
      /\ \A i \in 1..Len(more) : s.frames[k + i] = more[i]
      /\ ItemRows(s.frames) = ItemRows(a) \o ItemRows(more)
  <2>1. IsItems(more) /\ IsItems(r.frames)
    BY <1>1, <1>2
  <2> HIDE DEF LosesFrames
  <2>2. /\ IsItems(s.frames) /\ k \in Nat /\ DOMAIN s.frames = 1..(k + Len(more))
        /\ \A i \in 1..Len(more) : s.frames[k + i] = more[i]
        /\ ItemRows(s.frames) = ItemRows(SubSeq(r.frames, 1, k)) \o ItemRows(more)
    BY <1>5, <2>1, SharesIs
  <2> QED
    BY <2>2, Zenon DEF a
<1>7. PrefixInv(s)
  <2>1. IsVec(ItemRows(a)) /\ IsVec(ItemRows(b))
    BY <1>3, ItemRowsVec
  <2>2. ItemRows(s.frames) = ItemRows(a)
    BY <1>2, <1>6, <2>1, VecEmpty
  <2> DEFINE c == r.rows \o ItemRows(a)
             e == ItemRows(r.frames)
  <2>3. c = r.rows \o ItemRows(a) /\ e = ItemRows(a) \o ItemRows(b) /\ IsPrefix(r.rows \o e, ItemRows(r.result))
    BY <1>1, <1>3, Zenon DEF PrefixInv
  <2> HIDE DEF c, e
  <2>4. c \o ItemRows(b) = r.rows \o e /\ IsVec(c)
    <3> DEFINE x == r.rows
               u == ItemRows(a)
               w == ItemRows(b)
    <3>1. IsVec(x) /\ IsVec(u) /\ IsVec(w) /\ c = x \o u /\ e = u \o w
      BY <1>1, <2>1, <2>3, Zenon
    <3> HIDE DEF x, u, w
    <3>2. c \o w = x \o e /\ IsVec(c)
      BY <3>1, VecRegroup, VecCat
    <3> QED
      BY <3>2, Zenon DEF x, w
  <2>5. IsPrefix(c, ItemRows(r.result))
    BY <1>1, <2>1, <2>3, <2>4, PrefixOf
  <2> QED
    BY <1>4, <2>2, <2>3, <2>5, Zenon DEF PrefixInv
<1>8. FrameInv(s)
  <2>1. \A i \in 1..k : CompletedInv(s, i) /\ EndInv(s, i)
    BY <1>1, <1>2, <1>4, <1>5, SharedFrames
  <2>2. s.frames[k + 1] = Broken
    BY <1>2, <1>6
  <2>3. CompletedInv(s, k + 1) /\ EndInv(s, k + 1)
    BY <1>2, <2>2 DEF CompletedInv, EndInv
  <2>4. \A i \in DOMAIN s.frames : i \in 1..k \/ i = k + 1
    BY <1>2, <1>6
  <2> QED
    BY <2>1, <2>3, <2>4 DEF FrameInv
<1>9. HasId(s)
  BY <1>1, <1>2, <1>5, SharedId
<1>10. ListsOK(s) /\ ReportInv(s) /\ FeedInv(s)
  BY <1>1, <1>4, <1>6, ItemRowsEmpty DEF ListsOK, ReportInv, FeedInv
<1> QED
  BY <1>4, <1>7, <1>8, <1>9, <1>10, Zenon DEF Streams

KeepsStream(r, s) ==
    /\ s.result = r.result /\ s.rows = r.rows /\ s.completion = r.completion /\ s.sent = r.sent /\ s.id = r.id
    /\ s.at \notin {"streaming", "collecting"}

LEMMA StillWaits == ASSUME NEW r, Waiting(r), NEW s, KeepsStream(r, s) PROVE Waiting(s)
BY Zenon DEF Waiting, KeepsStream

LEMMA ToldKeeps == ASSUME NEW r, IsConn(r), NEW a PROVE KeepsStream(r, Told(r, a))
BY DEF IsConn, ConnFields, Told, KeepsStream

LEMMA GrpcIsNotMcp == ASSUME NEW c, Grpc(c) PROVE ~Mcp(c)
BY DEF Grpc, Mcp

LEMMA AnsweredKeeps ==
  ASSUME NEW c, Grpc(c), NEW r, IsConn(r), NEW a
  PROVE  KeepsStream(r, Answered(c, r, a))
<1>1. Answered(c, r, a) = [r EXCEPT !.at = "answered", !.answer = Some(a), !.resp = Some(Respond(c, Request(c), a))]
  BY GrpcIsNotMcp DEF Answered
<1> DEFINE x == Some(a)
           y == Some(Respond(c, Request(c), a))
<1> HIDE DEF x, y
<1>2. KeepsStream(r, [r EXCEPT !.at = "answered", !.answer = x, !.resp = y])
  BY DEF IsConn, ConnFields, KeepsStream
<1> QED
  BY <1>1, <1>2 DEF x, y

\* The calls that are neither streaming nor told wait for their stream.
LEMMA Waits ==
  ASSUME StreamInv, NEW c \in Client, Grpc(c), conn[c].at \notin {"streaming", "told"}
  PROVE  Waiting(conn[c])
BY DEF StreamInv, Streams

-----------------------------------------------------------------------------
\* One call moves.

LEMMA SetStreams ==
  ASSUME ConnOK, StreamInv, setup' = setup, NEW c \in Client, NEW r, Set(c, r), Grpc(c) => Waiting(r) \/ Streams(r)
  PROVE  StreamInv'
<1> SUFFICES ASSUME NEW d \in Client, Grpc(d) PROVE Waiting(conn'[d]) \/ Streams(conn'[d])
  BY DEF StreamInv, Grpc
<1>1. Waiting(conn[d]) \/ Streams(conn[d])
  BY DEF StreamInv
<1>2. conn'[d] = IF d = c THEN r ELSE conn[d]
  BY DEF Set, ConnOK
<1> QED
  BY <1>1, <1>2

LEMMA SetWaits ==
  ASSUME ConnOK, StreamInv, setup' = setup, NEW c \in Client, NEW r, Set(c, r),
         conn[c].at \notin {"streaming", "told"}, Grpc(c) => KeepsStream(conn[c], r)
  PROVE  StreamInv'
BY SetStreams, StillWaits, Waits

LEMMA SetAnswered ==
  ASSUME ConnOK, StreamInv, setup' = setup, NEW c \in Client, NEW a, Set(c, Answered(c, conn[c], a)),
         conn[c].at \notin {"streaming", "told"}
  PROVE  StreamInv'
<1>1. IsConn(conn[c])
  BY DEF ConnOK
<1> QED
  BY <1>1, AnsweredKeeps, SetWaits

\* A drop: the calls it meets are storing, none of them streams.
LEMMA MeetingStreams ==
  ASSUME ConnOK, StreamInv, setup' = setup, NEW c \in Client, NEW r, NEW n, NEW t, conn' = Meeting(c, r, n, t),
         conn[c].at \notin {"streaming", "told"}, Grpc(c) => KeepsStream(conn[c], r)
  PROVE  StreamInv'
<1> SUFFICES ASSUME NEW d \in Client, Grpc(d) PROVE Waiting(conn'[d]) \/ Streams(conn'[d])
  BY DEF StreamInv, Grpc
<1>1. Waiting(conn[d]) \/ Streams(conn[d])
  BY DEF StreamInv
<1>2. CASE d = c
  BY <1>2, StillWaits, Waits DEF Meeting
<1>3. CASE d # c /\ ~Storing(d, n)
  <2>1. conn'[d] = conn[d]
    BY <1>3 DEF Meeting
  <2> QED
    BY <1>1, <2>1
<1>4. CASE d # c /\ Storing(d, n)
  <2>1. conn'[d] = conn[d] \/ conn'[d] = [conn[d] EXCEPT !.dropped = TRUE]
    BY <1>4 DEF Meeting
  <2>2. IsConn(conn[d]) /\ conn[d].at \notin {"streaming", "collecting", "told"}
    BY <1>4 DEF ConnOK, Storing
  <2>3. KeepsStream(conn[d], [conn[d] EXCEPT !.dropped = TRUE])
    BY <2>2 DEF IsConn, ConnFields, KeepsStream
  <2>4. Waiting(conn[d])
    BY <2>2, Waits
  <2> QED
    BY <2>1, <2>3, <2>4, StillWaits
<1> QED
  BY <1>2, <1>3, <1>4

-----------------------------------------------------------------------------
\* The steps.

LEMMA SendStreams == ASSUME ConnOK, StreamInv, NEW c \in Client, Send(c) PROVE StreamInv'
<1>1. PICK call : Set(c, LET r == [NoConn EXCEPT !.at = "sent", !.next = conn[c].next + 1,
                                                !.call = Some(Resolved(c, call))]
                         IN  IF call.op = "shutdown" THEN Told(r, Shutdown(c)) ELSE r)
  BY ZenonT(40) DEF Send
<1> DEFINE r == [NoConn EXCEPT !.at = "sent", !.next = conn[c].next + 1, !.call = Some(Resolved(c, call))]
<1>2. IsConn(r) /\ r.at = "sent"
  BY ZenonT(40) DEF NoConn, IsConn, ConnFields
<1>3. Set(c, Told(r, Shutdown(c))) \/ Set(c, r)
  BY <1>1
<1>4. Waiting(r)
  BY <1>2, ZenonT(40) DEF Waiting, NoConn
<1>5. setup' = setup
  BY DEF Send
<1> HIDE DEF r
<1>6. Waiting(Told(r, Shutdown(c)))
  BY <1>2, <1>4, ToldKeeps, StillWaits
<1> QED
  BY <1>3, <1>4, <1>5, <1>6, SetStreams

LEMMA ReceiveStreams == ASSUME ConnOK, StreamInv, NEW c \in Client, Receive(c) PROVE StreamInv'
<1>1. IsConn(conn[c]) /\ conn[c].at = "answered" /\ setup' = setup
  BY DEF ConnOK, Receive
<1>2. PICK a : Set(c, Told(conn[c], a))
  BY DEF Receive
<1> QED
  BY <1>1, <1>2, ToldKeeps, SetWaits

LEMMA ArriveStreams == ASSUME ConnOK, StreamInv, NEW c \in Client, Arrive(c) PROVE StreamInv'
<1>1. IsConn(conn[c]) /\ conn[c].at = "sent" /\ setup' = setup
  BY DEF ConnOK, Arrive
<1>2. PICK x : Set(c, [conn[c] EXCEPT !.at = "open", !.made = x])
                 \/ Set(c, [conn[c] EXCEPT !.at = "answered", !.resp = x])
  BY DEF Arrive
<1>3. /\ KeepsStream(conn[c], [conn[c] EXCEPT !.at = "open", !.made = x])
      /\ KeepsStream(conn[c], [conn[c] EXCEPT !.at = "answered", !.resp = x])
  BY <1>1 DEF IsConn, ConnFields, KeepsStream
<1> QED
  BY <1>1, <1>2, <1>3, SetWaits

LEMMA ServeStreams == ASSUME ConnOK, StreamInv, NEW c \in Client, Serve(c) PROVE StreamInv'
<1>1. PICK a : Set(c, Answered(c, conn[c], a))
  BY DEF Serve
<1> QED
  BY <1>1, SetAnswered DEF Serve

LEMMA NamespaceStreams ==
  ASSUME ConnOK, StreamInv, NEW c \in Client,
         Open(c) \/ Memo(c) \/ Create(c) \/ Run(c) \/ Produce(c) \/ Store(c)
  PROVE  StreamInv'
<1>1. IsConn(conn[c]) /\ conn[c].at \notin {"streaming", "told"} /\ setup' = setup
  BY DEF ConnOK, Open, Memo, Create, Run, Produce, Store
<1>2. CASE \E a : Set(c, Answered(c, conn[c], a))
  BY <1>1, <1>2, SetAnswered
<1>3. ASSUME NEW at \in {"run", "memo", "create", "write", "upsert"}, NEW m, NEW x,
             \/ Set(c, [conn[c] EXCEPT !.at = at])
             \/ Set(c, [conn[c] EXCEPT !.at = at, !.mgr = m])
             \/ Set(c, [conn[c] EXCEPT !.at = at, !.answer = x])
      PROVE  StreamInv'
  <2>1. /\ KeepsStream(conn[c], [conn[c] EXCEPT !.at = at])
        /\ KeepsStream(conn[c], [conn[c] EXCEPT !.at = at, !.mgr = m])
        /\ KeepsStream(conn[c], [conn[c] EXCEPT !.at = at, !.answer = x])
    BY <1>1, <1>3 DEF IsConn, ConnFields, KeepsStream
  <2> QED
    BY <1>1, <1>3, <2>1, SetWaits
<1>4. CASE Open(c)
  BY <1>2, <1>3, <1>4 DEF Open, Opens
<1>5. CASE Memo(c)
  BY <1>3, <1>5 DEF Memo
<1>6. CASE Create(c)
  BY <1>3, <1>6 DEF Create
<1>7. CASE Run(c)
  BY <1>2, <1>3, <1>7 DEF Run
<1>8. CASE Produce(c)
  BY <1>2, <1>3, <1>8 DEF Produce
<1>9. CASE Store(c)
  BY <1>2, <1>9 DEF Store
<1> QED
  BY <1>4, <1>5, <1>6, <1>7, <1>8, <1>9

LEMMA DropStreams ==
  ASSUME ConnOK, StreamInv, NEW c \in Client, DropMaterialized(c) \/ DropNamespace(c) \/ EraseDir(c)
  PROVE  StreamInv'
<1>1. IsConn(conn[c]) /\ conn[c].at \notin {"streaming", "told"} /\ setup' = setup
  BY DEF ConnOK, DropMaterialized, DropNamespace, EraseDir
<1>2. CASE \E a : Set(c, Answered(c, conn[c], a))
  BY <1>1, <1>2, SetAnswered
<1>3. ASSUME NEW a, NEW n, NEW t, conn' = Meeting(c, Answered(c, conn[c], a), n, t) PROVE StreamInv'
  BY <1>1, <1>3, AnsweredKeeps, MeetingStreams
<1>4. CASE DropMaterialized(c)
  BY <1>2, <1>3, <1>4, ZenonT(40) DEF DropMaterialized
<1>5. CASE EraseDir(c)
  BY <1>3, <1>5 DEF EraseDir
<1>6. CASE DropNamespace(c)
  <2>1. PICK n : \/ \E a : Set(c, Answered(c, conn[c], a))
                 \/ conn' = Meeting(c, [conn[c] EXCEPT !.at = "erase", !.mgr = store.memo[n]], n, None)
    BY <1>6 DEF DropNamespace
  <2>2. KeepsStream(conn[c], [conn[c] EXCEPT !.at = "erase", !.mgr = store.memo[n]])
    BY <1>1 DEF IsConn, ConnFields, KeepsStream
  <2> QED
    BY <1>1, <1>2, <2>1, <2>2, MeetingStreams
<1> QED
  BY <1>4, <1>5, <1>6

LEMMA CancelStreams == ASSUME ConnOK, StreamInv, NEW c \in Client, Cancel(c) PROVE StreamInv'
<1>1. PICK hit, a :
         /\ hit = {d \in Client : Live(d, TableOf(E(c)))}
         /\ conn' = [d \in Client |-> IF d = c THEN Answered(c, conn[c], a)
                                      ELSE IF d \in hit THEN Stopped(conn[d]) ELSE conn[d]]
  BY DEF Cancel
<1>2. conn[c].at = "open" /\ setup' = setup /\ IsConn(conn[c])
  BY DEF Cancel, ConnOK
<1> SUFFICES ASSUME NEW d \in Client, Grpc(d) PROVE Waiting(conn'[d]) \/ Streams(conn'[d])
  BY <1>2 DEF StreamInv, Grpc
<1>3. Waiting(conn[d]) \/ Streams(conn[d])
  BY DEF StreamInv
<1>4. CASE d = c
  <2>1. conn'[d] = Answered(c, conn[c], a)
    BY <1>1, <1>4
  <2>2. Waiting(conn[c])
    BY <1>2, <1>4, Waits
  <2> QED
    BY <1>2, <1>4, <2>1, <2>2, AnsweredKeeps, StillWaits
<1>5. CASE d # c /\ d \notin hit
  <2>1. conn'[d] = conn[d]
    BY <1>1, <1>5
  <2> QED
    BY <1>3, <2>1
<1>6. CASE d # c /\ d \in hit
  <2>1. conn'[d] = Stopped(conn[d])
    BY <1>1, <1>6
  <2>2. conn[d].at \in {"streaming", "collecting"} /\ conn[d].feed # <<>> /\ IsConn(conn[d])
    BY <1>1, <1>6 DEF Live, ConnOK
  <2>3. conn[d].at = "streaming" /\ Streams(conn[d])
    BY <1>3, <2>2 DEF Waiting, Streams
  <2>4. CancelsInto(conn[d], Stopped(conn[d]))
    <3> DEFINE r == conn[d]
               x == <<Cancelled>>
               y == Append(Yielded(r), Cancelled)
    <3>1. Stopped(r) = [r EXCEPT !.feed = x, !.result = y]
      BY DEF Stopped, Yielded
    <3>2. IsConn(r) /\ r.at = "streaming"
      BY <2>2, <2>3
    <3> HIDE DEF r, x, y
    <3> DEFINE s == [r EXCEPT !.feed = x, !.result = y]
    <3>3. /\ s.at = "streaming" /\ s.feed = x /\ s.result = y
          /\ s.frames = r.frames /\ s.rows = r.rows /\ s.completion = r.completion /\ s.id = r.id /\ s.sent = r.sent
      BY <3>2 DEF IsConn, ConnFields
    <3> HIDE DEF s
    <3>4. CancelsInto(r, s)
      BY <3>3, Zenon DEF CancelsInto, x, y
    <3> QED
      BY <3>1, <3>4 DEF r, s
  <2> QED
    BY <2>1, <2>2, <2>3, <2>4, StreamCancelled
<1> QED
  BY <1>4, <1>5, <1>6

\* A stream that is under way.
LEMMA StreamUnderWay ==
  ASSUME ConnOK, StreamInv, NEW c \in Client, Grpc(c), conn[c].at \in {"streaming", "collecting"}
  PROVE  Streams(conn[c]) /\ conn[c].at = "streaming" /\ IsConn(conn[c])
BY DEF StreamInv, Waiting, Streams, ConnOK

LEMMA StartStreams ==
  ASSUME ConnOK, StreamInv, NEW c \in Client, StartQuery(c)
  PROVE  StreamInv'
<1>1. conn[c].at = "open" /\ setup' = setup /\ IsConn(conn[c])
  BY DEF StartQuery, ConnOK
<1>2. CASE \E a : Set(c, Answered(c, conn[c], a))
  BY <1>1, <1>2, SetAnswered
<1>3. ASSUME NEW items \in EngineResults, NEW cut,
             cut = IF Mcp(c) /\ E(c).op = "query" THEN Capped(items, E(c).arg.cap) ELSE items,
             Set(c, Streaming([conn[c] EXCEPT !.feed = cut, !.result = cut, !.whole = items], c, cut))
      PROVE  StreamInv'
  <2> DEFINE r == Streaming([conn[c] EXCEPT !.feed = cut, !.result = cut, !.whole = items], c, cut)
  <2>1. ASSUME Grpc(c) PROVE Streams(r)
    <3> DEFINE x == <<Frame("started", <<[id |-> c]>>)>>
               o == conn[c]
               q == [o EXCEPT !.feed = items, !.result = items, !.whole = items]
               s == [q EXCEPT !.at = "streaming", !.frames = x]
    <3>1. cut = items
      BY <1>3, <2>1, GrpcIsNotMcp, Zenon
    <3>2. r = s
      <4>1. r = Streaming(q, c, items)
        BY <3>1
      <4> HIDE DEF r, q
      <4>2. Streaming(q, c, items) = s
        BY <2>1, Zenon DEF Streaming
      <4> QED
        BY <4>1, <4>2
    <3>3. Waiting(o)
      BY <1>1, <2>1, Waits
    <3>4. o.rows = <<>> /\ o.sent = 0 /\ o.completion = None /\ IsConn(o)
      BY <1>1, <3>3, Zenon DEF Waiting
    <3>5. IsResult(items) /\ c # ""
      BY ResultsAssumption, Zenon
    <3> HIDE DEF o, x
    <3>6. /\ s.at = "streaming" /\ s.feed = items /\ s.result = items
          /\ s.rows = <<>> /\ s.sent = 0 /\ s.completion = None /\ s.frames = x
      BY <3>4, ZenonT(40) DEF IsConn, ConnFields
    <3> HIDE DEF s
    <3>7. Begins(s, c)
      BY <3>5, <3>6, Zenon DEF Begins, x
    <3> QED
      BY <3>2, <3>7, StreamBegins
  <2>2. Set(c, r)
    BY <1>3
  <2> HIDE DEF r
  <2> QED
    BY <1>1, <2>1, <2>2, SetStreams
<1> QED
  BY <1>2, <1>3 DEF StartQuery

LEMMA CollectStreams == ASSUME ConnOK, StreamInv, NEW c \in Client, Collect(c) PROVE StreamInv'
<1>1. conn[c].at = "collecting" /\ setup' = setup
  BY DEF Collect
<1>2. ~Grpc(c)
  BY <1>1, StreamUnderWay
<1>3. PICK r : Set(c, r)
  BY DEF Collect
<1> QED
  BY <1>1, <1>2, <1>3, SetStreams

LEMMA PumpStreams == ASSUME ConnOK, StreamInv, NEW c \in Client, Pump(c) PROVE StreamInv'
<1>1. conn[c].at = "streaming" /\ conn[c].feed # <<>> /\ setup' = setup
  BY DEF Pump
<1>2. CASE ~Grpc(c)
  <2>1. PICK r : Set(c, r)
    BY DEF Pump
  <2> QED
    BY <1>1, <1>2, <2>1, SetStreams
<1>3. CASE Grpc(c)
  <2> DEFINE r == conn[c]
  <2>1. Streams(r) /\ r.at = "streaming" /\ IsConn(r)
    BY <1>1, <1>3, StreamUnderWay
  <2>2. PICK op : Set(c, Pumped(r, SvcFrame(op, Head(r.feed), r.sent)))
    <3> DEFINE item == Head(r.feed)
    <3>1. PICK frame :
             /\ frame = IF Grpc(c) THEN SvcFrame(r.call[1].op, item, r.sent)
                        ELSE IF r.sent = Limit(c) THEN Frame("end", <<>>)
                        ELSE NdjsonLine(item, Limit(c) - r.sent)
             /\ Set(c, Pumped(r, frame))
      BY Zenon DEF Pump
    <3>2. frame = SvcFrame(r.call[1].op, Head(r.feed), r.sent)
      BY <1>3, <3>1, Zenon
    <3> QED
      BY <3>1, <3>2, Zenon
  <2>3. Head(r.feed) = r.feed[1] /\ SubSeq(r.frames, 1, Len(r.frames)) = r.frames
    <3> HIDE DEF r
    <3>1. IsVec(r.feed) /\ r.feed # <<>>
      BY <1>1, <2>1, StreamsIs DEF IsItems, r
    <3> QED
      BY <2>1, <3>1, StreamsIs, VecHead
  <2> DEFINE frame == SvcFrame(op, r.feed[1], r.sent)
             s == Pumped(r, frame)
  <2>4. Set(c, s)
    BY <2>2, <2>3, Zenon
  <2>5. PumpsFrame(r, s, frame)
    <3> HIDE DEF r, frame
    <3> DEFINE f == r.frames \o Closing(frame)
               g == IF Ends(frame) THEN <<>> ELSE Tail(r.feed)
               n == r.sent + (IF frame.k = "batch" THEN Len(frame.v) ELSE 0)
               p == [r EXCEPT !.frames = f, !.feed = g, !.sent = n]
    <3>1. s = p
      BY DEF Pumped
    <3> HIDE DEF f, g, n, s
    <3>2. /\ p.frames = f /\ p.feed = g /\ p.sent = n /\ p.result = r.result /\ p.at = "streaming"
          /\ p.rows = r.rows /\ p.completion = r.completion /\ p.id = r.id
      BY <2>1, ZenonT(40) DEF IsConn, ConnFields
    <3> HIDE DEF p
    <3>3. Shares(r, s, Len(r.frames), Closing(frame))
      BY <2>3, <3>1, <3>2, Zenon DEF Shares, f, r
    <3> QED
      BY <3>1, <3>2, <3>3, Zenon DEF PumpsFrame, g, n
  <2> HIDE DEF s, frame
  <2>6. Streams(s)
    <3>1. PumpsFrame(r, s, SvcFrame(op, r.feed[1], r.sent))
      BY <2>5, Zenon DEF frame
    <3> HIDE DEF r
    <3>2. r.feed # <<>>
      BY <1>1 DEF r
    <3> QED
      BY <2>1, <3>1, <3>2, StreamPumped
  <2> QED
    BY <1>1, <2>4, <2>6, SetStreams
<1> QED
  BY <1>2, <1>3

LEMMA LoseStreams == ASSUME ConnOK, StreamInv, NEW c \in Client, Lose(c) PROVE StreamInv'
<1>1. setup' = setup /\ IsConn(conn[c])
  BY DEF ConnOK, Lose
<1>2. CASE /\ conn[c].at \in {"sent", "open", "write", "answered", "collecting"}
           /\ Set(c, Told([conn[c] EXCEPT !.lost = TRUE, !.feed = <<>>], TransportError(c)))
  <2> DEFINE r == [conn[c] EXCEPT !.lost = TRUE, !.feed = <<>>]
  <2>1. IsConn(r) /\ KeepsStream(conn[c], Told(r, TransportError(c)))
    <3> DEFINE a == TransportError(c)
    <3> HIDE DEF a
    <3>1. IsConn(r)
      BY <1>1 DEF IsConn, ConnFields
    <3>2. r.result = conn[c].result /\ r.rows = conn[c].rows /\ r.completion = conn[c].completion /\ r.sent = conn[c].sent /\ r.id = conn[c].id
      BY <1>1 DEF IsConn, ConnFields
    <3> HIDE DEF r
    <3>3. KeepsStream(r, Told(r, a))
      BY <3>1, ToldKeeps
    <3>4. KeepsStream(conn[c], Told(r, a))
      BY <3>2, <3>3, Zenon DEF KeepsStream
    <3> QED
      BY <3>1, <3>4 DEF a
  <2>2. Set(c, Told(r, TransportError(c)))
    BY <1>2
  <2> HIDE DEF r
  <2>3. conn[c].at \notin {"streaming", "told"}
    BY <1>2
  <2> QED
    BY <1>1, <2>1, <2>2, <2>3, SetWaits
<1>3. ASSUME conn[c].at = "streaming", NEW k \in 0..Len(conn[c].frames),
             Set(c, [conn[c] EXCEPT !.lost = TRUE, !.feed = <<>>, !.frames = Append(SubSeq(@, 1, k), Broken)])
      PROVE  StreamInv'
  <2> DEFINE o == conn[c]
             x == Append(SubSeq(o.frames, 1, k), Broken)
             s == [o EXCEPT !.lost = TRUE, !.feed = <<>>, !.frames = x]
  <2>1. Set(c, s)
    BY <1>3
  <2>2. ASSUME Grpc(c) PROVE Streams(s)
    <3>1. Streams(o) /\ o.at = "streaming" /\ IsConn(o)
      BY <1>3, <2>2, StreamUnderWay
    <3>2. k \in 0..Len(o.frames)
      BY <1>3
    <3> HIDE DEF o, x
    <3>3. /\ s.at = "streaming" /\ s.feed = <<>> /\ s.frames = x /\ s.result = o.result
          /\ s.rows = o.rows /\ s.completion = o.completion /\ s.id = o.id
      BY <3>1, ZenonT(40) DEF IsConn, ConnFields
    <3> HIDE DEF s
    <3>4. LosesFrames(o, s, k)
      BY <3>3, Zenon DEF LosesFrames, x
    <3> QED
      BY <3>1, <3>2, <3>4, StreamLost
  <2> HIDE DEF s
  <2> QED
    BY <1>1, <2>1, <2>2, SetStreams
<1> QED
  BY <1>2, <1>3 DEF Lose

LEMMA PullStreams == ASSUME ConnOK, StreamInv, NEW c \in Client, Pull(c) PROVE StreamInv'
<1>1. conn[c].at = "streaming" /\ conn[c].frames # <<>> /\ setup' = setup
  BY DEF Pull
<1>2. CASE ~Grpc(c)
  <2>1. PICK r : Set(c, r)
    BY DEF Pull
  <2> QED
    BY <1>1, <1>2, <2>1, SetStreams
<1>3. CASE Grpc(c)
  <2> DEFINE o == conn[c]
             frame == o.frames[1]
             r == [o EXCEPT !.frames = Tail(@)]
             item == StreamItem(frame)
  <2>1. Streams(o) /\ o.at = "streaming" /\ IsConn(o) /\ o.frames # <<>>
    BY <1>1, <1>3, StreamUnderWay
  <2>2. Set(c, IF r.id = "" THEN Opened(r, ReadStartedId(frame)) ELSE Advanced(r, frame, item))
    <3>1. Head(o.frames) = frame
      <4> HIDE DEF o, r
      <4>1. IsVec(o.frames)
        BY <2>1, StreamsIs DEF IsItems
      <4> QED
        BY <2>1, <4>1, VecHead
    <3>2. PICK f : /\ f = Head(o.frames)
                   /\ Set(c, IF ~Grpc(c) THEN Chunk(r, f)
                             ELSE IF r.id = "" THEN Opened(r, ReadStartedId(f))
                             ELSE Advanced(r, f, StreamItem(f)))
      BY Zenon DEF Pull
    <3>3. f = frame
      BY <3>1, <3>2, Zenon
    <3> HIDE DEF r, frame
    <3> QED
      BY <1>3, <3>2, <3>3, Zenon
  <2>3. /\ IsConn(r) /\ r.at = "streaming" /\ r.frames = Tail(o.frames)
        /\ r.result = o.result /\ r.feed = o.feed /\ r.sent = o.sent /\ r.rows = o.rows
        /\ r.completion = o.completion /\ r.id = o.id
    <3> HIDE DEF o
    <3> QED
      BY <2>1 DEF IsConn, ConnFields
  <2>4. HasId(o) /\ FrameInv(o) /\ IsVec(o.rows) /\ 1 \in DOMAIN o.frames
    <3> HIDE DEF o
    <3>1. IsItems(o.frames) /\ HasId(o) /\ FrameInv(o) /\ IsVec(o.rows)
      BY <2>1, StreamsIs
    <3>2. DOMAIN o.frames = 1..Len(o.frames) /\ Len(o.frames) \in Nat \ {0}
      BY <2>1, <3>1, VecHead DEF IsItems, IsVec
    <3> QED
      BY <3>1, <3>2
  <2> HIDE DEF r, o
  \* A frame without rows or a completion leaves both as they are.
  <2>5. frame.k # "batch" => o.rows = o.rows \o RowsIn(frame)
    BY <2>4, VecEmpty DEF RowsIn
  <2>6. ASSUME frame.k \notin {"batch", "completed"}, NEW s, s.rows = o.rows, s.completion = o.completion
        PROVE  /\ s.rows = o.rows \o RowsIn(o.frames[1])
               /\ s.completion = IF o.completion # None THEN o.completion
                                 ELSE IF o.frames[1].k = "completed" THEN o.frames[1].v ELSE None
    BY <2>5, <2>6
  <2>7. ASSUME frame.k \notin {"batch", "completed"}, NEW a, a.ok => o.completion # None
        PROVE  Streams(Told(r, a))
    <3> DEFINE s == Told(r, a)
    <3>1. /\ s.at = "told" /\ s.told = Some(a) /\ s.result = r.result /\ s.feed = r.feed /\ s.sent = r.sent
          /\ s.frames = r.frames /\ s.rows = r.rows /\ s.completion = r.completion
      BY <2>3 DEF Told, IsConn, ConnFields
    <3> HIDE DEF s
    <3>2. s.told[1].ok => s.completion # None
      BY <2>3, <2>7, <3>1 DEF Some
    <3>3. s.rows = o.rows /\ s.completion = o.completion
      BY <2>3, <3>1
    <3> HIDE DEF frame
    <3>4. PullsFrame(o, s)
      BY <2>3, <2>6, <2>7, <3>1, <3>2, <3>3, Zenon DEF PullsFrame
    <3> QED
      BY <2>1, <3>4, StreamPulled DEF s
  <2>8. CASE r.id = ""
    <3>1. frame.k = "lost" \/ (frame.k = "started" /\ frame.v[1].id # "")
      BY <2>3, <2>4, <2>8, Zenon DEF HasId
    <3>2. Set(c, Opened(r, ReadStartedId(frame)))
      BY <2>2, <2>8, Zenon
    <3>3. CASE frame.k = "lost"
      <4>1. PICK e : Opened(r, ReadStartedId(frame)) = Told(r, Err(e))
        BY <3>3 DEF Opened, ReadStartedId, Err
      <4>2. ~Err(e).ok /\ frame.k \notin {"batch", "completed"}
        BY <3>3 DEF Err
      <4> HIDE DEF frame
      <4>3. Streams(Told(r, Err(e)))
        BY <2>7, <4>2
      <4> QED
        BY <1>1, <3>2, <4>1, <4>3, SetStreams
    <3>4. CASE frame.k = "started" /\ frame.v[1].id # ""
      <4> DEFINE id == frame.v[1].id
                 s == [r EXCEPT !.id = id]
      <4>1. Opened(r, ReadStartedId(frame)) = s
        BY <3>4, Zenon DEF Opened, ReadStartedId, Ok
      <4> HIDE DEF id
      <4>2. /\ s.at = "streaming" /\ s.id = id /\ s.result = r.result /\ s.feed = r.feed /\ s.sent = r.sent
            /\ s.frames = r.frames /\ s.rows = r.rows /\ s.completion = r.completion
        BY <2>3, ZenonT(40) DEF IsConn, ConnFields
      <4> HIDE DEF s
      <4>3. s.rows = o.rows /\ s.completion = o.completion /\ frame.k \notin {"batch", "completed"}
        BY <2>3, <3>4, <4>2, Zenon
      <4>4. o.frames[1].k # "error"
        BY <3>4, Zenon
      <4>5. s.id # ""
        BY <3>4, <4>2, Zenon DEF id
      <4>6. PullsFrame(o, s)
        BY <2>3, <2>6, <4>2, <4>3, <4>4, <4>5, Zenon DEF PullsFrame
      <4>7. Streams(s)
        BY <2>1, <4>6, StreamPulled
      <4> QED
        BY <1>1, <3>2, <4>1, <4>7, SetStreams
    <3> QED
      BY <3>1, <3>3, <3>4, Zenon
  <2>9. CASE r.id # ""
    <3>1. Set(c, Advanced(r, frame, item))
      BY <2>2, <2>9, Zenon
    <3>2. CASE item.error # None
      <4>1. PICK e : Advanced(r, frame, item) = Told(r, Err(e))
        BY <3>2 DEF Advanced
      <4>2. ~Err(e).ok
        BY DEF Err
      <4>3. frame.k \in {"error", "lost"}
        BY <3>2 DEF StreamItem
      <4>4. frame.k \notin {"batch", "completed"}
        BY <4>3
      <4> HIDE DEF frame
      <4>5. Streams(Told(r, Err(e)))
        BY <2>7, <4>2, <4>4
      <4> QED
        BY <1>1, <3>1, <4>1, <4>5, SetStreams
    <3>3. CASE item.error = None /\ frame.k = "end"
      <4>1. PICK v : Advanced(r, frame, item) = Told(r, Ok(v))
        BY <3>3 DEF Advanced
      <4>2. o.completion # None
        BY <2>4, <3>3 DEF FrameInv, EndInv
      <4>3. frame.k \notin {"batch", "completed"}
        BY <3>3
      <4> HIDE DEF frame
      <4>4. Streams(Told(r, Ok(v)))
        BY <2>7, <4>2, <4>3
      <4> QED
        BY <1>1, <3>1, <4>1, <4>4, SetStreams
    <3>4. CASE item.error = None /\ frame.k # "end"
      <4> DEFINE rows == r.rows \o item.rows
                 completion == IF r.completion = None THEN item.completion ELSE r.completion
                 s == [r EXCEPT !.rows = rows, !.completion = completion]
      <4>1. Advanced(r, frame, item) = s
        <5> HIDE DEF item, frame
        <5> QED
          BY <3>4, Zenon DEF Advanced
      <4>2. /\ item.rows = RowsIn(frame)
            /\ item.completion = IF frame.k = "completed" THEN frame.v ELSE None
        BY Zenon DEF StreamItem, RowsIn
      <4>3. frame.k # "error"
        <5> SUFFICES ASSUME frame.k = "error" PROVE FALSE
          OBVIOUS
        <5>1. PICK x : item.error = Some(x)
          BY DEF StreamItem
        <5> QED
          BY <3>4, <5>1, NoneIsNotSome, Zenon
      <4> HIDE DEF item, frame, rows, completion
      <4>4. /\ s.at = "streaming" /\ s.id = r.id /\ s.result = r.result /\ s.feed = r.feed /\ s.sent = r.sent
            /\ s.frames = r.frames /\ s.rows = rows /\ s.completion = completion
        BY <2>3, ZenonT(40) DEF IsConn, ConnFields
      <4> HIDE DEF s
      <4>5. PullsFrame(o, s)
        <5>1. s.rows = o.rows \o RowsIn(o.frames[1])
          BY <2>3, <4>2, <4>4, Zenon DEF rows, frame
        <5>2. s.completion = IF o.completion # None THEN o.completion
                             ELSE IF o.frames[1].k = "completed" THEN o.frames[1].v ELSE None
          BY <2>3, <4>2, <4>4 DEF completion, frame
        <5> QED
          BY <2>3, <2>9, <4>3, <4>4, <5>1, <5>2, Zenon DEF PullsFrame, frame
      <4>6. Streams(s)
        BY <2>1, <4>5, StreamPulled
      <4> QED
        BY <1>1, <3>1, <4>1, <4>6, SetStreams
    <3> QED
      BY <3>2, <3>3, <3>4, Zenon
  <2> QED
    BY <2>8, <2>9, Zenon
<1> QED
  BY <1>2, <1>3

LEMMA StreamStep == ASSUME NsInv, StreamInv, [Next]_vars PROVE StreamInv'
<1>1. ConnOK
  BY DEF NsInv
<1>2. ASSUME NEW c \in Client, Send(c) \/ Step(c) \/ Lose(c) PROVE StreamInv'
  BY <1>1, <1>2, SendStreams, LoseStreams, ReceiveStreams, PullStreams, ArriveStreams, ServeStreams, CancelStreams,
     NamespaceStreams, DropStreams, StartStreams, PumpStreams, CollectStreams DEF Step
<1>3. CASE UNCHANGED vars
  BY <1>3 DEF vars, StreamInv, Grpc
<1> QED
  BY <1>2, <1>3 DEF Next

\* What has arrived of a gRPC stream, with the frames in flight, is the rows of
\* the items that the server has taken from the engine (query.rs).
THEOREM StreamInvariant == Spec => []StreamInv
<1>1. Init => StreamInv
  <2> SUFFICES ASSUME Init, NEW c \in Client PROVE Waiting(conn[c])
    BY DEF StreamInv
  <2>1. conn[c] = NoConn
    BY DEF Init
  <2>2. Waiting(NoConn)
    BY ZenonT(40) DEF Waiting, NoConn
  <2> QED
    BY <2>1, <2>2
<1>2. NsInv /\ StreamInv /\ [Next]_vars => StreamInv'
  BY StreamStep
<1> QED
  BY <1>1, <1>2, OneManagerPerNamespace, PTL DEF Spec

\* A gRPC result never reads as more than it is, whatever the engine's results,
\* the window, the clients, and what is cancelled or lost: what has arrived is a
\* prefix of the engine's rows, a completion counts all of them and says that
\* none failed, and a call that was told success has them all (query.rs,
\* remote.rs).
THEOREM GrpcStreamsAreWhole == Spec => []GrpcStreamsWhole
<1>1. StreamInv => GrpcStreamsWhole
  <2> SUFFICES ASSUME StreamInv, NEW c \in Client, Grpc(c), conn[c].result # <<>>
               PROVE  /\ IsPrefix(conn[c].rows, EngineRows(c))
                      /\ conn[c].completion # None =>
                            ~Failed(c) /\ conn[c].completion[1].rows = Len(EngineRows(c))
                      /\ conn[c].at = "told" /\ conn[c].told[1].ok =>
                            conn[c].completion # None /\ conn[c].rows = EngineRows(c)
    BY DEF GrpcStreamsWhole
  <2> DEFINE r == conn[c]
  <2>1. Streams(r)
    BY DEF StreamInv, Waiting
  <2>2. EngineRows(c) = ItemRows(r.result) /\ (Failed(c) <=> ~Unfailed(r.result))
    BY DEF EngineRows, Failed, Unfailed
  <2> HIDE DEF r
  <2>3. ListsOK(r) /\ PrefixInv(r) /\ ReportInv(r)
    BY <2>1 DEF Streams
  <2>4. IsPrefix(r.rows, ItemRows(r.result))
    <3>1. IsVec(r.rows) /\ IsVec(ItemRows(r.frames)) /\ IsVec(ItemRows(r.result))
      BY <2>3, ItemRowsVec DEF ListsOK, IsResult
    <3> QED
      BY <2>3, <3>1, PrefixOf DEF PrefixInv
  <2>5. r.at = "told" /\ r.told[1].ok => r.completion # None
    BY <2>1 DEF Streams
  <2> QED
    BY <2>2, <2>3, <2>4, <2>5 DEF ReportInv, r
<1> QED
  BY <1>1, StreamInvariant, PTL

=============================================================================
