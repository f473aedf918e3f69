-------------------------- MODULE OAuthTokensProofs --------------------------
(***************************************************************************)
(* Proofs about the OAuth tokens.                                          *)
(*                                                                         *)
(* CachedTokenLives: the expiry that the engine keeps for a token is late  *)
(* by as long as the answer took to arrive, and no answer takes longer     *)
(* than the client's timeout.  The induction follows a mint from the       *)
(* moment its request is sent.                                             *)
(*                                                                         *)
(* RefreshKept: the newest refresh token of an id is in the value store or *)
(* in the hand of the one call that works with it.                         *)
(***************************************************************************)
EXTENDS OAuthTokens, Integers, TLAPS

\* The record of a call.
CallFields == {"pc", "id", "store", "use", "got", "at", "deadline", "interval", "snap"}
IsCall(r) == r = [f \in CallFields |-> r[f]]
CallsOK ==
    /\ act = [a \in Actors |-> act[a]]
    /\ \A a \in Actors : IsCall(act[a])

CellType == [tok : [exp : Nat, real : Nat], holder : Actors]
CoreType ==
    /\ now \in Nat
    /\ gen \in 1..2
    /\ setup \in Setups
    /\ cells \in [Slots -> CellType]
    /\ CallsOK

\* A cell's expiry is late by the timeout at most.
CellsHonest == \A s \in Slots : cells[s].tok.exp <= cells[s].tok.real + Timeout

\* A task works on a cell; its answer came while it was waiting, and it has
\* not waited longer than the timeout since it sent the request.
Sent == {"post", "answered", "persist", "write"}
HasAnswer == {"answered", "persist", "write"}
SlotInv(r) == r.pc # "idle" => r.store \in 1..2 /\ r.id \in Ids
WaitInv(r) ==
    r.pc \in Sent => r.at \in Nat /\ r.at <= now /\ now <= r.at + Timeout
AnswerInv(r) ==
    r.pc \in HasAnswer => /\ r.got.life \in Nat
                          /\ r.got.issued \in Nat
                          /\ r.at <= r.got.issued
                          /\ r.got.issued <= now
TaskInv(r) == SlotInv(r) /\ WaitInv(r) /\ AnswerInv(r)

\* The command line takes no cell.
CliInv(r) == r.pc \notin {"lock", "get", "send"}

TimeInv ==
    /\ CoreType
    /\ CellsHonest
    /\ \A t \in Tasks : TaskInv(act[t])
    /\ CliInv(act[Cli])

-----------------------------------------------------------------------------

LEMMA TimeInit == Init => TimeInv
<1> SUFFICES ASSUME Init PROVE TimeInv
  OBVIOUS
<1>1. CoreType
  <2>1. cells \in [Slots -> CellType]
    BY DEF Init, CellType, NoToken, Actors
  <2>2. CallsOK
    BY DEF Init, CallsOK, IsCall, CallFields, Idle
  <2> QED
    BY <2>1, <2>2 DEF Init, CoreType
<1>2. CellsHonest
  BY TimeAssumption DEF Init, CellsHonest, NoToken
<1>3. (\A t \in Tasks : TaskInv(act[t])) /\ CliInv(act[Cli])
  BY DEF Init, TaskInv, SlotInv, WaitInv, AnswerInv, CliInv, Idle, Sent, HasAnswer, Actors
<1> QED
  BY <1>1, <1>2, <1>3 DEF TimeInv

\* A step of one actor, whose call becomes r.
Fits(a, r) == IsCall(r) /\ (a \in Tasks => TaskInv(r)) /\ (a = Cli => CliInv(r))

LEMMA OneMoves ==
  ASSUME TimeInv, NEW a \in Actors, NEW r, Fits(a, r),
         act' = [act EXCEPT ![a] = r],
         now' = now, setup' = setup, gen' = gen,
         cells' \in [Slots -> CellType], CellsHonest'
  PROVE  TimeInv'
<1>1. CallsOK'
  <2>1. act' = [b \in Actors |-> act'[b]]
    BY DEF TimeInv, CoreType, CallsOK
  <2>2. ASSUME NEW b \in Actors PROVE IsCall(act'[b])
    BY DEF TimeInv, CoreType, CallsOK, Fits
  <2>3. ASSUME NEW b \in Actors PROVE IsCall(act[b])'
    BY <2>2 DEF IsCall, CallFields
  <2> QED
    BY <2>1, <2>3 DEF CallsOK
<1>2. CoreType'
  BY <1>1 DEF TimeInv, CoreType
<1>3. ASSUME NEW t \in Tasks PROVE TaskInv(act[t])'
  <2>1. act'[t] = act[t] \/ (t = a /\ act'[t] = r)
    BY DEF TimeInv, CoreType, CallsOK, Actors
  <2>2. TaskInv(act'[t])
    BY <2>1 DEF TimeInv, Fits
  <2> QED
    BY <2>2 DEF TaskInv, SlotInv, WaitInv, AnswerInv
<1>4. CliInv(act[Cli])'
  <2>1. act'[Cli] = act[Cli] \/ (Cli = a /\ act'[Cli] = r)
    BY DEF TimeInv, CoreType, CallsOK, Actors
  <2> QED
    BY <2>1 DEF TimeInv, Fits, CliInv
<1> QED
  BY <1>1, <1>2, <1>3, <1>4 DEF TimeInv

LEMMA IdleFits == ASSUME NEW a PROVE Fits(a, Idle)
BY DEF Fits, IsCall, CallFields, Idle, TaskInv, SlotInv, WaitInv, AnswerInv, CliInv, Sent, HasAnswer

\* Freeing a cell, or giving up.
LEMMA UnlockKeeps ==
  ASSUME TimeInv, NEW a \in Actors, a \in Tasks => act[a].pc # "idle", cells' = Unlock(a)
  PROVE  cells' \in [Slots -> CellType] /\ CellsHonest'
<1>1. CASE a = Cli
  BY <1>1 DEF Unlock, TimeInv, CoreType, CellsHonest
<1>2. CASE a # Cli
  <2>1. <<act[a].store, act[a].id>> \in Slots
    BY <1>2 DEF TimeInv, TaskInv, SlotInv, Slots, Actors
  <2>2. cells' = [cells EXCEPT ![<<act[a].store, act[a].id>>] = [@ EXCEPT !.holder = Cli]]
    BY <1>2 DEF Unlock
  <2>3. cells \in [Slots -> CellType] /\ Cli \in Actors
    BY DEF TimeInv, CoreType, Actors
  <2>4. cells' \in [Slots -> CellType]
    BY <2>1, <2>2, <2>3 DEF CellType
  <2>5. \A s \in Slots : cells'[s].tok = cells[s].tok
    BY <2>1, <2>2, <2>3, SMTT(30) DEF CellType
  <2> QED
    BY <2>4, <2>5 DEF CellsHonest, TimeInv
<1> QED
  BY <1>1, <1>2

LEMMA FailKeeps ==
  ASSUME TimeInv, NEW a \in Actors, a \in Tasks => act[a].pc # "idle", Fail(a),
         now' = now, setup' = setup, gen' = gen
  PROVE  TimeInv'
BY UnlockKeeps, IdleFits, OneMoves DEF Fail

\* into_cached: what a task caches lives almost as long as the cell says.
LEMMA FinishKeeps ==
  ASSUME TimeInv, NEW a \in Actors, act[a].pc \in HasAnswer, Finish(a),
         now' = now, setup' = setup, gen' = gen
  PROVE  TimeInv'
<1>1. CASE a = Cli
  <2>1. cells' \in [Slots -> CellType] /\ CellsHonest'
    BY <1>1 DEF Finish, TimeInv, CoreType, CellsHonest
  <2> QED
    BY <2>1, IdleFits, OneMoves DEF Finish
<1>2. CASE a # Cli
  <2> DEFINE tok == [exp |-> now + act[a].got.life, real |-> act[a].got.issued + act[a].got.life]
  <2>1. a \in Tasks /\ act[a].pc # "idle" /\ act[a].pc \in Sent
    BY <1>2 DEF Actors, HasAnswer, Sent
  <2>2. <<act[a].store, act[a].id>> \in Slots
    BY <2>1 DEF TimeInv, TaskInv, SlotInv, Slots
  <2>3. /\ act[a].got.life \in Nat /\ act[a].got.issued \in Nat /\ act[a].at \in Nat
        /\ act[a].at <= act[a].got.issued
        /\ now <= act[a].at + Timeout
    BY <2>1 DEF TimeInv, TaskInv, WaitInv, AnswerInv
  <2>4. now \in Nat /\ Timeout \in Nat
    BY TimeAssumption DEF TimeInv, CoreType
  <2>5. tok \in [exp : Nat, real : Nat] /\ tok.exp <= tok.real + Timeout
    BY <2>3, <2>4
  <2>6. cells' = [cells EXCEPT ![<<act[a].store, act[a].id>>] = [tok |-> tok, holder |-> Cli]]
    BY <1>2 DEF Finish, Cached
  <2>7. cells \in [Slots -> CellType] /\ Cli \in Actors
    BY DEF TimeInv, CoreType, Actors
  <2> HIDE DEF tok
  <2>8. cells' \in [Slots -> CellType]
    BY <2>2, <2>5, <2>6, <2>7 DEF CellType
  <2>9. CellsHonest'
    BY <2>2, <2>5, <2>6, <2>7 DEF CellsHonest, TimeInv
  <2> QED
    BY <2>8, <2>9, IdleFits, OneMoves DEF Finish
<1> QED
  BY <1>1, <1>2

\* A step that leaves the cells alone.
LEMMA CellsStay == ASSUME TimeInv, cells' = cells PROVE cells' \in [Slots -> CellType] /\ CellsHonest'
BY DEF TimeInv, CoreType, CellsHonest

-----------------------------------------------------------------------------

Frame == now' = now /\ setup' = setup /\ gen' = gen

LEMMA PostingFits ==
  ASSUME TimeInv, NEW a \in Actors, NEW use, a \in Tasks => act[a].pc # "idle"
  PROVE  Fits(a, Posting(a, use))
<1> DEFINE r == Posting(a, use)
<1>1. IsCall(act[a]) /\ now \in Nat
  BY DEF TimeInv, CoreType, CallsOK
<1>2. /\ IsCall(r) /\ r.pc = "post" /\ r.at = now
      /\ r.store = act[a].store /\ r.id = act[a].id
  BY <1>1 DEF IsCall, CallFields, Posting
<1> HIDE DEF r
<1>3. ASSUME a \in Tasks PROVE TaskInv(r)
  BY <1>1, <1>2, <1>3, TimeAssumption DEF TimeInv, TaskInv, SlotInv, WaitInv, AnswerInv, Sent, HasAnswer
<1>4. CliInv(r)
  BY <1>2 DEF CliInv
<1> QED
  BY <1>2, <1>3, <1>4 DEF Fits, r

LEMMA ResolveStep == ASSUME TimeInv, Resolve PROVE TimeInv'
<1>1. PICK t \in Tasks : \E s \in 1..gen, id \in setup.load[t] :
         act' = [act EXCEPT ![t] = [Idle EXCEPT !.pc = "lock", !.id = id, !.store = s]]
  BY DEF Resolve
<1>2. PICK s \in 1..gen, id \in setup.load[t] :
         act' = [act EXCEPT ![t] = [Idle EXCEPT !.pc = "lock", !.id = id, !.store = s]]
  BY <1>1
<1>3. s \in 1..2 /\ id \in Ids /\ t \in Actors
  BY LoadAssumption DEF TimeInv, CoreType, Actors
<1>4. Fits(t, [Idle EXCEPT !.pc = "lock", !.id = id, !.store = s])
  BY <1>3, CliAssumption DEF Fits, IsCall, CallFields, Idle, TaskInv, SlotInv, WaitInv, AnswerInv, CliInv, Sent, HasAnswer
<1> QED
  BY <1>2, <1>3, <1>4, CellsStay, OneMoves DEF Resolve

LEMMA EnterStep == ASSUME TimeInv, NEW t \in Actors, Enter(t) PROVE TimeInv'
<1>1. t \in Tasks /\ t # Cli
  BY CliAssumption DEF TimeInv, CliInv, Enter, Actors
<1> DEFINE slot == <<act[t].store, act[t].id>>
<1>2. slot \in Slots
  BY <1>1 DEF TimeInv, TaskInv, SlotInv, Enter, Slots
<1>3. CASE act' = [act EXCEPT ![t] = Idle] /\ cells' = cells
  BY <1>3, CellsStay, IdleFits, OneMoves DEF Enter
<1>4. CASE Go(t, Entry(act[t].id)) /\ cells' = [cells EXCEPT ![slot].holder = t]
  <2> DEFINE r == [act[t] EXCEPT !.pc = Entry(act[t].id)]
  <2>1. act' = [act EXCEPT ![t] = r]
    BY <1>4 DEF Go
  <2>2. Entry(act[t].id) \in {"discover", "get", "send"}
    BY DEF Entry
  <2>3. Fits(t, r)
    BY <1>1, <2>2, SMTT(60) DEF TimeInv, CoreType, CallsOK, Fits, IsCall, CallFields, TaskInv, SlotInv, WaitInv, AnswerInv, Sent, HasAnswer, Enter
  <2>4. cells' \in [Slots -> CellType]
    BY <1>2, <1>4 DEF TimeInv, CoreType, CellType
  <2>5. CellsHonest'
    <3>1. \A s \in Slots : cells'[s].tok = cells[s].tok
      BY <1>2, <1>4 DEF TimeInv, CoreType, CellType
    <3> QED
      BY <3>1 DEF TimeInv, CellsHonest
  <2> HIDE DEF r
  <2> QED
    BY <2>1, <2>3, <2>4, <2>5, OneMoves DEF Enter
<1> QED
  BY <1>3, <1>4 DEF Enter

LEMMA DiscoverStep == ASSUME TimeInv, NEW a \in Actors, Discover(a) PROVE TimeInv'
<1>1. CASE Fail(a)
  BY <1>1, FailKeeps DEF Discover
<1>2. CASE ~Fail(a)
  <2> DEFINE pc == IF a = Cli THEN "ask" ELSE IF Interactive(act[a].id) THEN "get" ELSE "send"
  <2> DEFINE r == [act[a] EXCEPT !.pc = pc]
  <2>1. act' = [act EXCEPT ![a] = r] /\ cells' = cells
    BY <1>2 DEF Discover, Go
  <2>2. pc \in {"ask", "get", "send"} /\ (a = Cli => pc = "ask")
    OBVIOUS
  <2> HIDE DEF pc
  <2>3. Fits(a, r)
    BY <2>2, CliAssumption DEF TimeInv, CoreType, CallsOK, Fits, IsCall, CallFields, TaskInv, SlotInv, WaitInv, AnswerInv, CliInv, Sent,
       HasAnswer, Discover
  <2> HIDE DEF r
  <2> QED
    BY <2>1, <2>3, CellsStay, OneMoves DEF Discover
<1> QED
  BY <1>1, <1>2

LEMMA GetRefreshStep == ASSUME TimeInv, NEW a \in Actors, GetRefresh(a) PROVE TimeInv'
<1>1. CASE Fail(a)
  BY <1>1, FailKeeps DEF GetRefresh
<1>2. CASE ~Fail(a)
  <2>1. PICK use : act' = [act EXCEPT ![a] = Posting(a, use)] /\ cells' = cells
    BY <1>2 DEF GetRefresh
  <2>2. Fits(a, Posting(a, use))
    BY PostingFits DEF GetRefresh
  <2> QED
    BY <2>1, <2>2, CellsStay, OneMoves DEF GetRefresh
<1> QED
  BY <1>1, <1>2

LEMMA SendStep == ASSUME TimeInv, NEW a \in Actors, Send(a) PROVE TimeInv'
<1>1. Fits(a, Posting(a, None))
  BY PostingFits DEF Send
<1> QED
  BY <1>1, CellsStay, OneMoves DEF Send

LEMMA AnsweredFits ==
  ASSUME TimeInv, NEW a \in Actors, act[a].pc = "post", NEW err, NEW life \in Nat, NEW new
  PROVE  Fits(a, [act[a] EXCEPT !.pc = "answered", !.got = Answer(err, life, new)])
<1> DEFINE got == Answer(err, life, new)
<1> DEFINE r == [act[a] EXCEPT !.pc = "answered", !.got = got]
<1>1. IsCall(act[a])
  BY DEF TimeInv, CoreType, CallsOK
<1>2. got.life = life /\ got.issued = now
  BY DEF Answer
<1> HIDE DEF got
<1>3. /\ IsCall(r) /\ r.pc = "answered" /\ r.got = got /\ r.at = act[a].at
      /\ r.store = act[a].store /\ r.id = act[a].id
  BY <1>1 DEF IsCall, CallFields
<1> HIDE DEF r
<1>4. ASSUME a \in Tasks PROVE TaskInv(r)
  BY <1>2, <1>3, <1>4 DEF TimeInv, CoreType, TaskInv, SlotInv, WaitInv, AnswerInv, Sent, HasAnswer
<1>5. CliInv(r)
  BY <1>3 DEF CliInv
<1>6. Fits(a, r)
  BY <1>3, <1>4, <1>5 DEF Fits
<1> QED
  BY <1>6 DEF r, got

LEMMA AnsweredKeeps ==
  ASSUME TimeInv, NEW a \in Actors, act[a].pc = "post", NEW err, NEW life \in Nat, NEW new,
         Answered(a, Answer(err, life, new)), cells' = cells, Frame
  PROVE  TimeInv'
<1>1. act' = [act EXCEPT ![a] = [act[a] EXCEPT !.pc = "answered", !.got = Answer(err, life, new)]]
  BY DEF Answered, TimeInv, CoreType, CallsOK
<1> QED
  BY <1>1, AnsweredFits, CellsStay, OneMoves DEF Frame

LEMMA ProviderStep == ASSUME TimeInv, NEW a \in Actors, Provider(a) PROVE TimeInv'
<1>1. CASE ProviderRefuses(a)
  BY <1>1, AnsweredKeeps DEF ProviderRefuses, Frame
<1>2. CASE ProviderMints(a)
  <2>1. PICK life \in Lifetimes : \E new : Answered(a, Answer("none", life, new))
    BY <1>2 DEF ProviderMints
  <2>2. PICK new : Answered(a, Answer("none", life, new))
    BY <2>1
  <2>3. life \in Nat
    BY LifetimeAssumption
  <2> QED
    BY <1>2, <2>2, <2>3, AnsweredKeeps DEF ProviderMints, Frame
<1>3. CASE RequestFails(a)
  BY <1>3, FailKeeps DEF RequestFails
<1> QED
  BY <1>1, <1>2, <1>3 DEF Provider

LEMMA CliAnswers == ASSUME TimeInv, ProviderGrants \/ ProviderWaits PROVE TimeInv'
<1>1. Cli \in Actors /\ 0 \in Nat
  BY DEF Actors
<1>2. PICK err, new : Answered(Cli, Answer(err, 0, new))
  BY DEF ProviderGrants, ProviderWaits
<1> QED
  BY <1>1, <1>2, AnsweredKeeps DEF ProviderGrants, ProviderWaits, Frame

LEMMA ReceiveStep == ASSUME TimeInv, NEW a \in Actors, Receive(a) PROVE TimeInv'
<1>1. act[a].pc = "answered" /\ act[a].pc \in HasAnswer /\ Frame
  BY DEF Receive, HasAnswer, Frame
<1>2. CASE Fail(a)
  BY <1>1, <1>2, FailKeeps DEF Frame
<1>3. CASE Finish(a)
  BY <1>1, <1>3, FinishKeeps DEF Frame
<1>4. CASE Go(a, "persist") /\ cells' = cells
  <2> DEFINE r == [act[a] EXCEPT !.pc = "persist"]
  <2>1. act' = [act EXCEPT ![a] = r]
    BY <1>4 DEF Go
  <2>2. Fits(a, r)
    BY <1>1, SMTT(60) DEF TimeInv, CoreType, CallsOK, Fits, IsCall, CallFields, TaskInv, SlotInv, WaitInv, AnswerInv, CliInv, Sent, HasAnswer
  <2> HIDE DEF r
  <2> QED
    BY <1>1, <1>4, <2>1, <2>2, CellsStay, OneMoves DEF Frame
<1>5. ASSUME NEW wait, cells' = cells,
             act' = [act EXCEPT ![a] = [@ EXCEPT !.pc = "sleep", !.interval = wait, !.at = now + wait, !.got = None]]
      PROVE  TimeInv'
  <2> DEFINE r == [act[a] EXCEPT !.pc = "sleep", !.interval = wait, !.at = now + wait, !.got = None]
  <2>1. act' = [act EXCEPT ![a] = r]
    BY <1>5
  <2>2. Fits(a, r)
    BY <1>1, ZenonT(30) DEF TimeInv, CoreType, CallsOK, Fits, IsCall, CallFields, TaskInv, SlotInv, WaitInv, AnswerInv, CliInv, Sent, HasAnswer
  <2> HIDE DEF r
  <2> QED
    BY <1>1, <1>5, <2>1, <2>2, CellsStay, OneMoves DEF Frame
<1> QED
  BY <1>2, <1>3, <1>4, <1>5 DEF Receive

LEMMA PersistStep == ASSUME TimeInv, NEW a \in Actors, Persist(a) PROVE TimeInv'
<1>1. act[a].pc = "persist" /\ act[a].pc \in HasAnswer /\ Frame
  BY DEF Persist, HasAnswer, Frame
<1>2. CASE Finish(a)
  BY <1>1, <1>2, FinishKeeps DEF Frame
<1>3. CASE Fail(a)
  BY <1>1, <1>3, FailKeeps DEF Frame
<1>4. ASSUME cells' = cells, NEW map, act' = [act EXCEPT ![a] = [@ EXCEPT !.pc = "write", !.snap = map]]
      PROVE  TimeInv'
  <2> DEFINE r == [act[a] EXCEPT !.pc = "write", !.snap = map]
  <2>1. act' = [act EXCEPT ![a] = r]
    BY <1>4
  <2>2. Fits(a, r)
    BY <1>1, ZenonT(30) DEF TimeInv, CoreType, CallsOK, Fits, IsCall, CallFields, TaskInv, SlotInv, WaitInv, AnswerInv, CliInv, Sent, HasAnswer
  <2> HIDE DEF r
  <2> QED
    BY <1>1, <1>4, <2>1, <2>2, CellsStay, OneMoves DEF Frame
<1> QED
  BY <1>2, <1>3, <1>4 DEF Persist

LEMMA WriteFileStep == ASSUME TimeInv, NEW a \in Actors, WriteFile(a) PROVE TimeInv'
BY FinishKeeps DEF WriteFile, HasAnswer

\* The steps of source connect leave the cells alone.
LEMMA ConnectStep ==
  ASSUME TimeInv, Connect \/ AskDevice \/ AskLoopback \/ Poll \/ AcceptCallback \/ Interrupt
  PROVE  TimeInv'
<1>1. Cli \in Actors /\ Cli \notin Tasks /\ Frame
  BY CliAssumption DEF Actors, Frame, Connect, AskDevice, AskLoopback, Poll, AcceptCallback, Interrupt
<1>2. CASE Fail(Cli)
  BY <1>1, <1>2, FailKeeps DEF Frame
<1>3. ASSUME NEW r, act' = [act EXCEPT ![Cli] = r], IsCall(r), CliInv(r), cells' = cells
      PROVE  TimeInv'
  <2>1. Fits(Cli, r)
    BY <1>1, <1>3 DEF Fits
  <2> QED
    BY <1>1, <1>3, <2>1, CellsStay, OneMoves DEF Frame
<1>4. IsCall(act[Cli]) /\ IsCall(Idle)
  BY <1>1 DEF TimeInv, CoreType, CallsOK, IsCall, CallFields, Idle
<1>5. CASE Connect
  <2>1. PICK id : act' = [act EXCEPT ![Cli] = [Idle EXCEPT
                !.pc = IF id \in Discovered /\ ~DocFresh THEN "discover" ELSE "ask", !.id = id]]
    BY <1>5 DEF Connect
  <2> DEFINE r == [Idle EXCEPT !.pc = IF id \in Discovered /\ ~DocFresh THEN "discover" ELSE "ask", !.id = id]
  <2>2. IsCall(r) /\ CliInv(r)
    BY <1>4 DEF IsCall, CallFields, CliInv, Idle
  <2> HIDE DEF r
  <2> QED
    BY <1>3, <1>5, <2>1, <2>2 DEF Connect, r
<1>6. CASE AskDevice /\ ~Fail(Cli)
  <2> DEFINE r == [act[Cli] EXCEPT !.pc = "sleep", !.interval = Interval, !.at = now + Interval, !.deadline = now + CodeLife]
  <2>1. act' = [act EXCEPT ![Cli] = r] /\ cells' = cells
    BY <1>6 DEF AskDevice
  <2>2. IsCall(r) /\ CliInv(r)
    BY <1>4 DEF IsCall, CallFields, CliInv
  <2> QED
    BY <1>3, <2>1, <2>2
<1>7. CASE AskLoopback /\ ~Fail(Cli)
  <2> DEFINE r == [act[Cli] EXCEPT !.pc = "callback"]
  <2>1. act' = [act EXCEPT ![Cli] = r] /\ cells' = cells
    BY <1>7 DEF AskLoopback, Go
  <2>2. IsCall(r) /\ CliInv(r)
    BY <1>4 DEF IsCall, CallFields, CliInv
  <2> QED
    BY <1>3, <2>1, <2>2
<1>8. CASE (Poll \/ AcceptCallback) /\ ~Fail(Cli)
  <2>1. act' = [act EXCEPT ![Cli] = Posting(Cli, None)] /\ cells' = cells
    BY <1>8 DEF Poll, AcceptCallback
  <2>2. Fits(Cli, Posting(Cli, None))
    BY <1>1, PostingFits
  <2> QED
    BY <1>3, <2>1, <2>2 DEF Fits
<1>9. CASE Interrupt
  <2>1. act' = [act EXCEPT ![Cli] = Idle] /\ cells' = cells /\ CliInv(Idle)
    BY <1>9 DEF Interrupt, CliInv, Idle
  <2> QED
    BY <1>3, <1>4, <2>1
<1> QED
  BY <1>2, <1>5, <1>6, <1>7, <1>8, <1>9

LEMMA StillStep ==
  ASSUME TimeInv, UNCHANGED <<now, cells, act, setup>>, gen' \in 1..2
  PROVE  TimeInv'
BY DEF TimeInv, CoreType, CallsOK, IsCall, CallFields, CellsHonest, TaskInv, SlotInv, WaitInv, AnswerInv, CliInv

LEMMA RestartStep == ASSUME TimeInv, Restart PROVE TimeInv'
<1>1. cells' \in [Slots -> CellType] /\ CellsHonest'
  BY TimeAssumption DEF Restart, CellType, NoToken, Actors, CellsHonest
<1>2. CallsOK'
  <2>1. act' = [a \in Actors |-> act'[a]]
    BY DEF Restart
  <2>2. ASSUME NEW a \in Actors PROVE IsCall(act'[a])
    BY DEF Restart, TimeInv, CoreType, CallsOK, IsCall, CallFields, Idle
  <2>3. ASSUME NEW a \in Actors PROVE IsCall(act[a])'
    BY <2>2 DEF IsCall, CallFields
  <2> QED
    BY <2>1, <2>3 DEF CallsOK
<1>3. ASSUME NEW t \in Tasks PROVE TaskInv(act[t])'
  <2>1. act'[t] = Idle
    BY CliAssumption DEF Restart, Actors
  <2> QED
    BY <2>1 DEF TaskInv, SlotInv, WaitInv, AnswerInv, Idle, Sent, HasAnswer
<1>4. CliInv(act[Cli])'
  BY DEF Restart, CliInv, TimeInv, Actors
<1> QED
  BY <1>1, <1>2, <1>3, <1>4 DEF TimeInv, CoreType, Restart

LEMMA TickStep == ASSUME TimeInv, Tick PROVE TimeInv'
<1>1. CoreType' /\ CellsHonest' /\ CliInv(act[Cli])'
  BY DEF Tick, TimeInv, CoreType, CallsOK, IsCall, CallFields, CellsHonest, CliInv
<1>2. ASSUME NEW t \in Tasks PROVE TaskInv(act[t])'
  <2>1. act[t].pc \notin {"persist", "write"} /\ (Waiting(t) => now - act[t].at < Timeout)
    BY DEF Tick, Actors
  <2>2. now \in Nat /\ Timeout \in Nat /\ now' = now + 1 /\ act' = act
    BY TimeAssumption DEF Tick, TimeInv, CoreType
  <2>3. SlotInv(act[t])'
    BY <2>2 DEF TimeInv, TaskInv, SlotInv
  <2>4. WaitInv(act[t])'
    BY <2>1, <2>2 DEF TimeInv, TaskInv, WaitInv, Waiting, Sent
  <2>5. AnswerInv(act[t])'
    BY <2>2 DEF TimeInv, TaskInv, AnswerInv, HasAnswer
  <2> QED
    BY <2>3, <2>4, <2>5 DEF TaskInv
<1> QED
  BY <1>1, <1>2 DEF TimeInv

LEMMA TimeStep == ASSUME TimeInv, [Next]_vars PROVE TimeInv'
<1>1. CASE Resolve
  BY <1>1, ResolveStep
<1>2. ASSUME NEW a \in Actors, Step(a) PROVE TimeInv'
  BY <1>2, EnterStep, DiscoverStep, GetRefreshStep, SendStep, ReceiveStep, PersistStep, WriteFileStep DEF Step
<1>3. ASSUME NEW a \in Actors, Provider(a) PROVE TimeInv'
  BY <1>3, ProviderStep
<1>4. CASE ProviderGrants \/ ProviderWaits
  BY <1>4, CliAnswers
<1>5. CASE Connect \/ AskDevice \/ AskLoopback \/ Poll \/ AcceptCallback \/ Interrupt
  BY <1>5, ConnectStep
<1>6. CASE Reload
  BY <1>6, StillStep DEF Reload
<1>7. CASE Restart
  BY <1>7, RestartStep
<1>8. CASE KeyringFlips \/ UNCHANGED vars
  <2>1. gen \in 1..2
    BY DEF TimeInv, CoreType
  <2> QED
    BY <1>8, <2>1, StillStep DEF KeyringFlips, vars
<1>9. CASE Tick
  BY <1>9, TickStep
<1> QED
  BY <1>1, <1>2, <1>3, <1>4, <1>5, <1>6, <1>7, <1>8, <1>9 DEF Next

\* A mint's clock: every cell's expiry, and every answer that is on its way to
\* a cell, is late by the client's timeout at most (into_cached, default_client).
THEOREM TokensAgeInTime == Spec => []TimeInv
<1>1. Init => TimeInv
  BY TimeInit
<1>2. TimeInv /\ [Next]_vars => TimeInv'
  BY TimeStep
<1> QED
  BY <1>1, <1>2, PTL DEF Spec

\* A token that is served from its cell is one the provider still accepts: the
\* skew covers what the arrival of the answer added to its life (resolve).
THEOREM ServedTokensLive == Spec => CachedTokenLives
<1>1. ASSUME TimeInv, NEW t \in Tasks, Enter(t), act'[t].pc = "idle"
      PROVE  now < cells[<<act[t].store, act[t].id>>].tok.real
  <2> DEFINE slot == <<act[t].store, act[t].id>>
  <2>1. slot \in Slots
    BY <1>1 DEF TimeInv, TaskInv, SlotInv, Enter, Slots
  <2>2. IsFresh(cells[slot].tok)
    <3>1. Entry(act[t].id) # "idle"
      BY DEF Entry
    <3>2. Go(t, Entry(act[t].id)) => act'[t].pc = Entry(act[t].id)
      BY <1>1 DEF Go, TimeInv, CoreType, CallsOK, IsCall, CallFields, Actors
    <3> QED
      BY <1>1, <3>1, <3>2 DEF Enter
  <2>3. cells[slot].tok.exp \in Nat /\ cells[slot].tok.real \in Nat
    BY <1>1, <2>1 DEF TimeInv, CoreType, CellType
  <2>4. cells[slot].tok.exp <= cells[slot].tok.real + Timeout
    BY <1>1, <2>1 DEF TimeInv, CellsHonest
  <2>5. now \in Nat
    BY <1>1 DEF TimeInv, CoreType
  <2> QED
    BY <2>2, <2>3, <2>4, <2>5, TimeAssumption DEF IsFresh
<1>2. TimeInv /\ [Next]_vars
        => [\A t \in Tasks : Enter(t) /\ act'[t].pc = "idle"
                => now < cells[<<act[t].store, act[t].id>>].tok.real]_vars
  BY <1>1
<1>3. Spec => []TimeInv /\ [][Next]_vars
  BY TokensAgeInTime, PTL DEF Spec
<1> QED
  BY <1>2, <1>3, PTL DEF CachedTokenLives

-----------------------------------------------------------------------------
(***************************************************************************)
(* RefreshKept.  A call is live while it works with a refresh token, and   *)
(* has one in hand when the provider gave it one that is not stored yet.   *)
(* For an id that is not contended at most one call is live, and the       *)
(* newest token is in its hand or else in the value store.  An id stops    *)
(* being contended when it is connected again: what makes that sound is    *)
(* that nobody else has a token of the grant that the command line has in  *)
(* hand, contended or not.                                                 *)
(***************************************************************************)

LiveTask(r) == r.pc \in Sent /\ r.use # None
LiveCli(r) == r.pc \in HasAnswer /\ r.got.new # None
LiveCall(a, r) == IF a = Cli THEN LiveCli(r) ELSE LiveTask(r)
InHand(r) == r.pc \in HasAnswer /\ r.got.new \notin {None, r.use}
Live(a) == LiveCall(a, act[a])
Hand(a) == InHand(act[a])

\* What is known of every call.
CliFields(r) == (r.pc # "idle" => r.id \in Ids) /\ (r.pc \in Sent => r.use = None)
GotFields(r) ==
    /\ r.pc \in HasAnswer => r.got # None /\ (r.got.err # "none" => r.got.new = None)
    /\ r.pc \in {"persist", "write"} => InHand(r)
TaskFields(r) == r.pc \in HasAnswer /\ r.use = None => r.got.new = None
CallFits(a, r) == GotFields(r) /\ (a = Cli => CliFields(r)) /\ (a \in Tasks => TaskFields(r))
CallInv == \A a \in Actors : CallFits(a, act[a])

\* The provider accepts one token of each grant.
Newest(i, r) == r \in idp[i].valid /\ r[1] = idp[i].grants
ProviderInv ==
    /\ idp = [i \in Ids |-> idp[i]]
    /\ \A i \in Ids :
          /\ idp[i] = [grants |-> idp[i].grants, valid |-> idp[i].valid]
          /\ idp[i].grants \in Nat
          /\ idp[i].valid \subseteq Nat \X Nat
          /\ \A r \in idp[i].valid : 1 <= r[1] /\ r[1] <= idp[i].grants
          /\ \A r, s \in idp[i].valid : r[1] = s[1] => r = s

\* The grants of an id whose tokens may have left the command line.
Spread(i) == IF LiveCli(act[Cli]) /\ act[Cli].id = i THEN idp[i].grants - 1 ELSE idp[i].grants
TokenOK(i, r) == r \in Nat \X Nat /\ 1 <= r[1] /\ r[1] <= Spread(i)
MapOK(m) == \A i \in Ids : Find(m, i) # None => TokenOK(i, Find(m, i))
TokenInv ==
    /\ MapOK(ring.map)
    /\ MapOK(disk.blob.map)
    /\ \A a \in Actors : act[a].pc = "write" => MapOK(act[a].snap)
    /\ \A t \in Tasks : LiveTask(act[t]) => /\ TokenOK(act[t].id, act[t].use)
                                            /\ Hand(t) => TokenOK(act[t].id, act[t].got.new)
    /\ LiveCli(act[Cli]) => /\ act[Cli].got.new = <<idp[act[Cli].id].grants, 0>>
                            /\ act[Cli].got.new \in idp[act[Cli].id].valid

\* An id that is not contended.
Value(i) == IF ring.on THEN Find(ring.map, i) ELSE Find(disk.blob.map, i)
Solo(i) ==
    \A a, b \in Actors : Live(a) /\ Live(b) /\ act[a].id = i /\ act[b].id = i => a = b
StoredInv(i) ==
    idp[i].grants > 0 /\ (\A a \in Actors : act[a].id = i => ~Hand(a)) => Newest(i, Value(i))
HandInv(i) == \A a \in Actors : Hand(a) /\ act[a].id = i => Newest(i, act[a].got.new)
UseInv(i) == \A t \in Tasks : LiveTask(act[t]) /\ ~Hand(t) /\ act[t].id = i => act[t].use = Value(i)
FileInv(i) == ring.on => Find(disk.blob.map, i) = None
QuietInv(i) == Solo(i) /\ StoredInv(i) /\ HandInv(i) /\ UseInv(i) /\ FileInv(i)

StoreShape ==
    /\ ring = [on |-> ring.on, up |-> ring.up, map |-> ring.map]
    /\ disk = [key |-> disk.key, blob |-> disk.blob]

KeepInv ==
    /\ StoreShape
    /\ CallInv
    /\ ProviderInv
    /\ TokenInv
    /\ \A i \in Ids \ contended : QuietInv(i)

LEMMA NoneFound == ASSUME NEW k PROVE Find(None, k) = None
BY DEF Find, None

LEMMA PutFind ==
  ASSUME NEW m, NEW k, NEW x, NEW j
  PROVE  Find(Put(m, k, x), j) = IF j = k THEN x ELSE Find(m, j)
BY DEF Find, Put

LEMMA PairIsNotNone == ASSUME NEW r \in Nat \X Nat PROVE r # None
BY DEF None

LEMMA AnswerIsNotNone == ASSUME NEW err, NEW life, NEW new PROVE Answer(err, life, new) # None
BY DEF Answer, None

\* A new token in hand is what a live call has.
LEMMA HandIsLive ==
  ASSUME CallInv, NEW a \in Actors, Hand(a)
  PROVE  Live(a)
BY CliAssumption DEF CallInv, CallFits, TaskFields, Hand, InHand, Live, LiveCall, LiveTask, LiveCli, Sent, HasAnswer, Actors

LEMMA KeepInit == Init => KeepInv
<1> SUFFICES ASSUME Init PROVE KeepInv
  OBVIOUS
<1>1. \A a \in Actors : act[a].pc = "idle"
  BY DEF Init, Idle
<1>2. StoreShape
  BY DEF Init, StoreShape
<1>3. Cli \in Actors /\ \A t \in Tasks : t \in Actors
  BY DEF Actors
<1>4. CallInv
  BY <1>1, <1>3 DEF CallInv, CallFits, CliFields, TaskFields, GotFields, Sent, HasAnswer
<1>5. ProviderInv
  BY DEF Init, ProviderInv
<1>6. TokenInv
  <2>1. MapOK(None)
    BY NoneFound DEF MapOK
  <2>2. ring.map = None /\ disk.blob.map = None
    BY DEF Init, NoBlob
  <2> QED
    BY <1>1, <1>3, <2>1, <2>2 DEF TokenInv, LiveTask, LiveCli, Sent, HasAnswer
<1>7. ASSUME NEW i \in Ids PROVE QuietInv(i)
  <2>1. \A a \in Actors : ~Live(a) /\ ~Hand(a)
    BY <1>1 DEF Live, LiveCall, LiveTask, LiveCli, Hand, InHand, Sent, HasAnswer
  <2>2. idp[i].grants = 0
    BY DEF Init
  <2>3. \A t \in Tasks : ~LiveTask(act[t])
    BY <1>1, <1>3 DEF LiveTask, Sent
  <2>4. Find(disk.blob.map, i) = None
    BY NoneFound DEF Init, NoBlob
  <2> QED
    BY <2>1, <2>2, <2>3, <2>4 DEF QuietInv, Solo, StoredInv, HandInv, UseInv, FileInv
<1> QED
  BY <1>2, <1>4, <1>5, <1>6, <1>7 DEF KeepInv

\* A step that gives nobody a token: each call stays as live as it was, or
\* ends, and what it had in hand is then lost.
Stays(a, r) ==
    /\ (LiveCall(a, r) <=> Live(a)) /\ (InHand(r) <=> Hand(a))
    /\ Live(a) => r.id = act[a].id /\ r.use = act[a].use
    /\ Hand(a) => r.got.new = act[a].got.new
    /\ r.pc = "write" => r.snap = disk.blob.map \/ (act[a].pc = "write" /\ r.snap = act[a].snap)
Quits(a, r) == ~LiveCall(a, r) /\ ~InHand(r) /\ r.pc # "write"
Fades(a, r) == Stays(a, r) \/ (Quits(a, r) /\ (Hand(a) => act[a].id \in contended'))

StoresStay ==
    idp' = idp /\ ring'.on = ring.on /\ ring'.map = ring.map /\ disk'.blob = disk.blob /\ StoreShape'

LEMMA FadeKeeps ==
  ASSUME TimeInv, KeepInv, CallInv', StoresStay, contended \subseteq contended', \A a \in Actors : Fades(a, act'[a])
  PROVE  KeepInv'
<1>1. \A a \in Actors : LiveCall(a, act'[a]) =>
         /\ Live(a) /\ (InHand(act'[a]) <=> Hand(a))
         /\ act'[a].id = act[a].id /\ act'[a].use = act[a].use
         /\ Hand(a) => act'[a].got.new = act[a].got.new
  BY DEF Fades, Stays, Quits
<1>2. Cli \in Actors /\ \A t \in Tasks : t \in Actors /\ t # Cli
  BY CliAssumption DEF Actors
<1>3. ProviderInv'
  BY DEF KeepInv, ProviderInv, StoresStay
<1>4. \A i \in Ids : Spread(i) <= Spread(i)' /\ Spread(i) \in Int /\ Spread(i)' \in Int
  <2>1. LiveCli(act'[Cli]) => LiveCli(act[Cli]) /\ act'[Cli].id = act[Cli].id
    BY <1>1, <1>2 DEF Live, LiveCall
  <2> QED
    BY <2>1 DEF KeepInv, ProviderInv, Spread, StoresStay, LiveCli
<1>5. ASSUME NEW i \in Ids, NEW r, TokenOK(i, r)
      PROVE  r \in Nat \X Nat /\ 1 <= r[1] /\ r[1] <= Spread(i)'
  BY <1>4, <1>5 DEF TokenOK
<1>6. TokenInv'
  <2>1. MapOK(ring.map)' /\ MapOK(disk.blob.map)'
    BY <1>5 DEF KeepInv, TokenInv, MapOK, TokenOK, StoresStay
  <2>2. ASSUME NEW a \in Actors, act'[a].pc = "write" PROVE MapOK(act[a].snap)'
    <3>1. act'[a].snap = disk.blob.map \/ (act[a].pc = "write" /\ act'[a].snap = act[a].snap)
      BY <2>2 DEF Fades, Stays, Quits
    <3>2. \A i \in Ids : Find(act'[a].snap, i) # None => TokenOK(i, Find(act'[a].snap, i))
      BY <3>1 DEF KeepInv, TokenInv, MapOK
    <3> QED
      BY <1>5, <3>2 DEF MapOK, TokenOK
  <2>3. ASSUME NEW t \in Tasks, LiveTask(act'[t])
        PROVE  /\ TokenOK(act[t].id, act[t].use)'
               /\ Hand(t)' => TokenOK(act[t].id, act[t].got.new)'
    <3>1. Live(t) /\ act'[t].id = act[t].id /\ act'[t].use = act[t].use /\ (InHand(act'[t]) <=> Hand(t))
          /\ (Hand(t) => act'[t].got.new = act[t].got.new)
      BY <1>1, <1>2, <2>3 DEF LiveCall
    <3>2. LiveTask(act[t])
      BY <1>2, <3>1 DEF Live, LiveCall
    <3>3. act[t].id \in Ids
      BY <3>2 DEF TimeInv, TaskInv, SlotInv, LiveTask, Sent
    <3>4. TokenOK(act[t].id, act[t].use) /\ (Hand(t) => TokenOK(act[t].id, act[t].got.new))
      BY <3>2 DEF KeepInv, TokenInv
    <3>5. Hand(t)' <=> InHand(act'[t])
      BY DEF Hand, InHand
    <3> QED
      BY <1>5, <3>1, <3>3, <3>4, <3>5 DEF TokenOK
  <2>4. LiveCli(act[Cli])' => /\ act'[Cli].got.new = <<idp[act[Cli].id].grants, 0>>'
                              /\ act'[Cli].got.new \in idp'[act'[Cli].id].valid
    <3> SUFFICES ASSUME LiveCli(act'[Cli])
                 PROVE  /\ act'[Cli].got.new = <<idp'[act'[Cli].id].grants, 0>>
                        /\ act'[Cli].got.new \in idp'[act'[Cli].id].valid
      BY DEF LiveCli
    <3>1. LiveCli(act[Cli]) /\ act'[Cli].id = act[Cli].id
      BY <1>1, <1>2 DEF Live, LiveCall
    <3>2. act[Cli].use = None
      BY <1>2, <3>1 DEF KeepInv, CallInv, CallFits, CliFields, LiveCli, Sent, HasAnswer
    <3>3. Hand(Cli)
      BY <3>1, <3>2 DEF Hand, InHand, LiveCli
    <3>4. act'[Cli].got.new = act[Cli].got.new
      BY <1>1, <1>2, <3>3 DEF LiveCall
    <3> QED
      BY <3>1, <3>4 DEF KeepInv, TokenInv, StoresStay
  <2> QED
    BY <2>1, <2>2, <2>3, <2>4 DEF TokenInv, LiveTask
<1>7. ASSUME NEW i \in Ids \ contended' PROVE QuietInv(i)'
  <2>1. QuietInv(i) /\ Value(i)' = Value(i)
    BY DEF KeepInv, Value, StoresStay
  <2>2. \A a \in Actors : (Live(a)' <=> LiveCall(a, act'[a])) /\ (Hand(a)' <=> InHand(act'[a]))
    BY DEF Live, LiveCall, LiveCli, LiveTask, Hand, InHand
  <2>3. \A a \in Actors : InHand(act'[a]) => LiveCall(a, act'[a])
    BY HandIsLive DEF Fades, Stays, Quits, KeepInv
  <2>4. Solo(i)'
    BY <1>1, <2>1, <2>2 DEF QuietInv, Solo
  <2>5. HandInv(i)'
    BY <1>1, <2>1, <2>2, <2>3 DEF QuietInv, HandInv, Newest, StoresStay
  <2>6. UseInv(i)'
    <3>1. ASSUME NEW t \in Tasks, LiveTask(act'[t]), ~InHand(act'[t]), act'[t].id = i PROVE act'[t].use = Value(i)
      <4>1. LiveTask(act[t]) /\ ~Hand(t) /\ act[t].id = i /\ act'[t].use = act[t].use
        BY <1>1, <1>2, <3>1 DEF Live, LiveCall
      <4> QED
        BY <2>1, <4>1 DEF QuietInv, UseInv
    <3> QED
      BY <1>2, <2>1, <2>2, <3>1 DEF UseInv, LiveTask
  <2>7. StoredInv(i)'
    <3> SUFFICES ASSUME idp[i].grants > 0, \A a \in Actors : act'[a].id = i => ~InHand(act'[a])
                 PROVE  Newest(i, Value(i))
      BY <2>1, <2>2 DEF StoredInv, Newest, StoresStay
    <3>1. ASSUME NEW a \in Actors, act[a].id = i, Hand(a) PROVE FALSE
      <4>1. Stays(a, act'[a])
        BY <1>7, <3>1 DEF Fades
      <4>2. Live(a)
        BY <3>1, HandIsLive DEF KeepInv
      <4> QED
        BY <3>1, <4>1, <4>2 DEF Stays
    <3> QED
      BY <2>1, <3>1 DEF QuietInv, StoredInv
  <2>8. FileInv(i)'
    BY <2>1 DEF QuietInv, FileInv, StoresStay
  <2> QED
    BY <2>4, <2>5, <2>6, <2>7, <2>8 DEF QuietInv
<1> QED
  BY <1>3, <1>6, <1>7 DEF KeepInv, StoresStay

-----------------------------------------------------------------------------
\* Steps of one actor.

LEMMA OneFades ==
  ASSUME TimeInv, KeepInv, NEW a \in Actors, NEW r, act' = [act EXCEPT ![a] = r],
         CallFits(a, r), Fades(a, r), StoresStay, contended \subseteq contended'
  PROVE  KeepInv'
<1>1. \A b \in Actors : act'[b] = IF b = a THEN r ELSE act[b]
  BY DEF TimeInv, CoreType, CallsOK
<1>2. \A b \in Actors : CallFits(b, act'[b])
  BY <1>1 DEF KeepInv, CallInv
<1>3. CallInv'
  BY <1>2 DEF CallInv, CallFits, CliFields, GotFields, TaskFields, InHand
<1>4. ASSUME NEW b \in Actors PROVE Fades(b, act'[b])
  <2>1. CASE b = a
    BY <1>1, <2>1
  <2>2. CASE b # a
    <3>1. act'[b] = act[b]
      BY <1>1, <2>2
    <3>2. Stays(b, act[b])
      BY DEF Stays, Live, Hand
    <3> QED
      BY <3>1, <3>2 DEF Fades
  <2> QED
    BY <2>1, <2>2
<1> QED
  BY <1>3, <1>4, FadeKeeps

\* A call that has nothing in hand may go to any place without a token.
LEMMA CalmMove ==
  ASSUME TimeInv, KeepInv, NEW a \in Actors, NEW r, act' = [act EXCEPT ![a] = r],
         ~Hand(a), r.pc \notin HasAnswer, r.pc = "post" => r.use = None,
         a = Cli /\ r.pc # "idle" => r.id \in Ids,
         StoresStay, contended \subseteq contended'
  PROVE  KeepInv'
<1>1. CallFits(a, r)
  BY DEF CallFits, GotFields, CliFields, TaskFields, Sent, HasAnswer
<1>2. Quits(a, r)
  BY DEF Quits, LiveCall, LiveTask, LiveCli, InHand, Sent, HasAnswer
<1>3. Fades(a, r)
  BY <1>2 DEF Fades
<1> QED
  BY <1>1, <1>3, OneFades

\* A call that had its answer keeps it.
LEMMA AnswerStays ==
  ASSUME TimeInv, KeepInv, NEW a \in Actors, NEW r, act' = [act EXCEPT ![a] = r],
         act[a].pc \in HasAnswer, r.pc \in {"persist", "write"}, Hand(a),
         r.id = act[a].id, r.use = act[a].use, r.got = act[a].got,
         r.pc = "write" => r.snap = disk.blob.map,
         StoresStay, contended \subseteq contended'
  PROVE  KeepInv'
<1>1. CallFits(a, act[a])
  BY DEF KeepInv, CallInv
<1>2. InHand(r) /\ (LiveCall(a, r) <=> Live(a))
  BY DEF Hand, InHand, Live, LiveCall, LiveTask, LiveCli, Sent, HasAnswer
<1>3. CallFits(a, r)
  BY <1>1, <1>2 DEF CallFits, GotFields, CliFields, TaskFields, Sent, HasAnswer
<1>4. Stays(a, r)
  BY <1>2 DEF Stays
<1> QED
  BY <1>3, <1>4, OneFades DEF Fades

\* The price of a call that ends.
LEMMA CostOfHand ==
  ASSUME KeepInv, NEW a \in Actors, Hand(a)
  PROVE  act[a].id \in Cost(a)
BY DEF KeepInv, CallInv, CallFits, GotFields, Hand, InHand, Cost

LEMMA IdleCall == ASSUME NEW a PROVE CallFits(a, Idle) /\ Quits(a, Idle)
BY DEF CallFits, GotFields, CliFields, TaskFields, Quits, LiveCall, LiveTask, LiveCli, InHand, Idle, Sent, HasAnswer

LEMMA FailFades ==
  ASSUME TimeInv, KeepInv, NEW a \in Actors, act' = [act EXCEPT ![a] = Idle], StoresStay,
         contended' = contended \cup Cost(a)
  PROVE  KeepInv'
<1>1. Fades(a, Idle)
  BY CostOfHand, IdleCall DEF Fades
<1> QED
  BY <1>1, IdleCall, OneFades

LEMMA SameStores ==
  ASSUME KeepInv, UNCHANGED <<idp, disk, ring>>
  PROVE  StoresStay
BY DEF KeepInv, StoresStay, StoreShape

\* AfterRead: the key may change, the values do not.
LEMMA ReadStores ==
  ASSUME KeepInv, NEW p, UNCHANGED <<idp, ring>>, disk' = disk \/ disk' = AfterRead(p)
  PROVE  StoresStay
<1>1. disk' = [key |-> disk'.key, blob |-> disk.blob]
  BY DEF KeepInv, StoreShape, AfterRead
<1> QED
  BY <1>1 DEF KeepInv, StoresStay, StoreShape

LEMMA NothingInHand ==
  ASSUME NEW a, act[a].pc \notin HasAnswer
  PROVE  ~Hand(a)
BY DEF Hand, InHand

-----------------------------------------------------------------------------
\* resolve and mint, up to the request.

LEMMA ResolveFades == ASSUME TimeInv, KeepInv, Resolve PROVE KeepInv'
<1>0. PICK t \in Tasks : act[t].pc = "idle" /\ \E s, id :
         act' = [act EXCEPT ![t] = [Idle EXCEPT !.pc = "lock", !.id = id, !.store = s]]
  BY DEF Resolve
<1>1. PICK s, id : act' = [act EXCEPT ![t] = [Idle EXCEPT !.pc = "lock", !.id = id, !.store = s]]
  BY <1>0
<1> DEFINE r == [Idle EXCEPT !.pc = "lock", !.id = id, !.store = s]
<1>2. r.pc = "lock" /\ t \in Actors /\ t # Cli
  BY CliAssumption DEF Idle, Actors
<1>3. ~Hand(t)
  BY <1>0, NothingInHand DEF HasAnswer
<1>4. StoresStay /\ contended \subseteq contended'
  BY SameStores DEF Resolve
<1> HIDE DEF r
<1> QED
  BY <1>1, <1>2, <1>3, <1>4, CalmMove DEF r, HasAnswer

\* Where a mint goes next.
LEMMA GoCalm ==
  ASSUME TimeInv, KeepInv, NEW a \in Actors, act[a].pc # "idle", act[a].pc \notin HasAnswer, NEW pc,
         pc \notin HasAnswer, pc # "post", Go(a, pc), UNCHANGED <<idp, disk, ring, contended>>
  PROVE  KeepInv'
<1> DEFINE r == [act[a] EXCEPT !.pc = pc]
<1>1. act' = [act EXCEPT ![a] = r]
  BY DEF Go
<1>2. r.pc = pc /\ r.id = act[a].id
  BY DEF TimeInv, CoreType, CallsOK, IsCall, CallFields
<1>3. a = Cli => act[a].id \in Ids
  BY DEF KeepInv, CallInv, CallFits, CliFields
<1>4. ~Hand(a) /\ StoresStay
  BY NothingInHand, SameStores
<1> HIDE DEF r
<1> QED
  BY <1>1, <1>2, <1>3, <1>4, CalmMove

LEMMA EnterFades == ASSUME TimeInv, KeepInv, NEW t \in Actors, Enter(t) PROVE KeepInv'
<1>1. act[t].pc = "lock" /\ UNCHANGED <<idp, disk, ring, contended>>
  BY DEF Enter
<1>2. CASE act' = [act EXCEPT ![t] = Idle]
  <2>1. ~Hand(t) /\ StoresStay
    BY <1>1, NothingInHand, SameStores DEF HasAnswer
  <2> QED
    BY <1>1, <1>2, <2>1, CalmMove DEF Idle, HasAnswer
<1>3. CASE Go(t, Entry(act[t].id))
  <2>1. Entry(act[t].id) \in {"discover", "get", "send"}
    BY DEF Entry
  <2> QED
    BY <1>1, <1>3, <2>1, GoCalm DEF HasAnswer
<1> QED
  BY <1>2, <1>3 DEF Enter

LEMMA DiscoverFades == ASSUME TimeInv, KeepInv, NEW a \in Actors, Discover(a) PROVE KeepInv'
<1>1. act[a].pc = "discover" /\ UNCHANGED <<idp, disk, ring>>
  BY DEF Discover
<1>2. CASE Fail(a)
  BY <1>1, <1>2, SameStores, FailFades DEF Fail
<1>3. CASE ~Fail(a)
  <2> DEFINE pc == IF a = Cli THEN "ask" ELSE IF Interactive(act[a].id) THEN "get" ELSE "send"
  <2>1. Go(a, pc) /\ UNCHANGED contended
    BY <1>3 DEF Discover
  <2>2. pc \in {"ask", "get", "send"}
    OBVIOUS
  <2> HIDE DEF pc
  <2> QED
    BY <1>1, <2>1, <2>2, GoCalm DEF HasAnswer
<1> QED
  BY <1>2, <1>3

LEMMA PostCall ==
  ASSUME TimeInv, NEW a \in Actors, NEW use
  PROVE  /\ Posting(a, use).pc = "post" /\ Posting(a, use).use = use
         /\ Posting(a, use).id = act[a].id
BY DEF TimeInv, CoreType, CallsOK, IsCall, CallFields, Posting

\* A request that carries no refresh token.
LEMMA PostCalm ==
  ASSUME TimeInv, KeepInv, NEW a \in Actors, act[a].pc # "idle", act[a].pc \notin HasAnswer,
         act' = [act EXCEPT ![a] = Posting(a, None)], UNCHANGED <<idp, disk, ring, contended>>
  PROVE  KeepInv'
<1>1. a = Cli => act[a].id \in Ids
  BY DEF KeepInv, CallInv, CallFits, CliFields
<1>2. ~Hand(a) /\ StoresStay
  BY NothingInHand, SameStores
<1> QED
  BY <1>1, <1>2, PostCall, CalmMove DEF HasAnswer

LEMMA SendFades == ASSUME TimeInv, KeepInv, NEW t \in Actors, Send(t) PROVE KeepInv'
BY PostCalm DEF Send, HasAnswer

-----------------------------------------------------------------------------
\* Answers that give no new token, and what is done with an answer.

LEMMA AnsweredCall ==
  ASSUME TimeInv, NEW a \in Actors, NEW err, NEW life, NEW new, Answered(a, Answer(err, life, new))
  PROVE  \E r : /\ act' = [act EXCEPT ![a] = r]
                /\ r.pc = "answered" /\ r.id = act[a].id /\ r.use = act[a].use
                /\ r.got # None /\ r.got.err = err /\ r.got.new = new
<1> DEFINE r == [act[a] EXCEPT !.pc = "answered", !.got = Answer(err, life, new)]
<1>1. act' = [act EXCEPT ![a] = r]
  BY DEF Answered, TimeInv, CoreType, CallsOK
<1>2. r.pc = "answered" /\ r.id = act[a].id /\ r.use = act[a].use /\ r.got = Answer(err, life, new)
  BY DEF TimeInv, CoreType, CallsOK, IsCall, CallFields
<1>3. r.got # None /\ r.got.err = err /\ r.got.new = new
  BY <1>2, AnswerIsNotNone DEF Answer
<1> HIDE DEF r
<1> QED
  BY <1>1, <1>2, <1>3

\* An answer without a token, or with the one that was sent.
LEMMA PlainAnswer ==
  ASSUME TimeInv, KeepInv, NEW a \in Actors, act[a].pc = "post", NEW err, NEW life, NEW new,
         Answered(a, Answer(err, life, new)),
         new = None \/ (err = "none" /\ new = act[a].use), a = Cli => new = None,
         UNCHANGED <<idp, disk, ring, contended>>
  PROVE  KeepInv'
<1>1. PICK r : /\ act' = [act EXCEPT ![a] = r]
               /\ r.pc = "answered" /\ r.id = act[a].id /\ r.use = act[a].use
               /\ r.got # None /\ r.got.err = err /\ r.got.new = new
  BY AnsweredCall
<1>2. CallFits(a, act[a])
  BY DEF KeepInv, CallInv
<1>3. CallFits(a, r)
  BY <1>1, <1>2 DEF CallFits, GotFields, CliFields, TaskFields, Sent, HasAnswer
<1>4. Stays(a, r)
  BY <1>1 DEF Stays, LiveCall, Live, LiveTask, LiveCli, Hand, InHand, Sent, HasAnswer
<1>5. StoresStay
  BY SameStores
<1> QED
  BY <1>1, <1>3, <1>4, <1>5, OneFades DEF Fades

LEMMA RefusesFades == ASSUME TimeInv, KeepInv, NEW a \in Actors, ProviderRefuses(a) PROVE KeepInv'
BY PlainAnswer DEF ProviderRefuses

LEMMA WaitsFades == ASSUME TimeInv, KeepInv, ProviderWaits PROVE KeepInv'
<1>1. Cli \in Actors
  BY DEF Actors
<1>2. PICK err : Answered(Cli, Answer(err, 0, None))
  BY DEF ProviderWaits
<1> QED
  BY <1>1, <1>2, PlainAnswer DEF ProviderWaits

LEMMA RequestFades == ASSUME TimeInv, KeepInv, NEW a \in Actors, RequestFails(a) PROVE KeepInv'
BY SameStores, FailFades DEF RequestFails, Fail

LEMMA ReceiveFades == ASSUME TimeInv, KeepInv, NEW a \in Actors, Receive(a) PROVE KeepInv'
<1>1. act[a].pc = "answered" /\ act[a].pc \in HasAnswer /\ StoresStay
  BY SameStores DEF Receive, HasAnswer
<1>2. CASE Fail(a)
  BY <1>1, <1>2, FailFades DEF Fail
<1>3. CASE Finish(a) /\ UNCHANGED contended /\ ~Keeps(a)
  <2>1. ~Hand(a)
    BY <1>3 DEF Keeps, Hand, InHand
  <2> QED
    BY <1>1, <1>3, <2>1, CalmMove DEF Finish, Idle, HasAnswer
<1>4. CASE Go(a, "persist") /\ UNCHANGED contended /\ Keeps(a)
  <2> DEFINE r == [act[a] EXCEPT !.pc = "persist"]
  <2>1. act' = [act EXCEPT ![a] = r]
    BY <1>4 DEF Go
  <2>2. r.pc = "persist" /\ r.id = act[a].id /\ r.use = act[a].use /\ r.got = act[a].got
    BY DEF TimeInv, CoreType, CallsOK, IsCall, CallFields
  <2>3. Hand(a)
    BY <1>1, <1>4 DEF Keeps, Hand, InHand
  <2> HIDE DEF r
  <2> QED
    BY <1>1, <1>4, <2>1, <2>2, <2>3, AnswerStays
<1>5. ASSUME NEW wait, UNCHANGED contended, act[a].got.err \in {"authorization_pending", "slow_down"},
             act' = [act EXCEPT ![a] = [@ EXCEPT !.pc = "sleep", !.interval = wait, !.at = now + wait, !.got = None]]
      PROVE  KeepInv'
  <2> DEFINE r == [act[a] EXCEPT !.pc = "sleep", !.interval = wait, !.at = now + wait, !.got = None]
  <2>1. act' = [act EXCEPT ![a] = r]
    BY <1>5
  <2>2. r.pc = "sleep" /\ r.id = act[a].id
    BY DEF TimeInv, CoreType, CallsOK, IsCall, CallFields
  <2>3. CallFits(a, act[a])
    BY DEF KeepInv, CallInv
  <2>4. ~Hand(a) /\ (a = Cli => act[a].id \in Ids)
    BY <1>1, <1>5, <2>3 DEF CallFits, GotFields, CliFields, Hand, InHand
  <2> HIDE DEF r
  <2> QED
    BY <1>1, <1>5, <2>1, <2>2, <2>4, CalmMove DEF HasAnswer
<1> QED
  BY <1>2, <1>3, <1>4, <1>5 DEF Receive

-----------------------------------------------------------------------------
\* source connect, and what happens around the calls.

LEMMA ConnectFades ==
  ASSUME TimeInv, KeepInv, Connect \/ AskDevice \/ AskLoopback \/ Poll \/ AcceptCallback
  PROVE  KeepInv'
<1>1. Cli \in Actors /\ UNCHANGED <<idp, disk, ring>> /\ act[Cli].pc \in {"idle", "ask", "sleep", "callback"}
  BY DEF Actors, Connect, AskDevice, AskLoopback, Poll, AcceptCallback
<1>2. act[Cli].pc \notin HasAnswer /\ ~Hand(Cli) /\ StoresStay
  BY <1>1, NothingInHand, SameStores DEF HasAnswer
<1>3. CASE Fail(Cli)
  BY <1>1, <1>2, <1>3, FailFades DEF Fail
<1>4. CASE act[Cli].pc # "idle" /\ act' = [act EXCEPT ![Cli] = Posting(Cli, None)] /\ UNCHANGED contended
  BY <1>1, <1>2, <1>4, PostCalm
<1>5. CASE act[Cli].pc # "idle" /\ Go(Cli, "callback") /\ UNCHANGED contended
  BY <1>1, <1>2, <1>5, GoCalm DEF HasAnswer
<1>6. CASE Connect
  <2>1. PICK id \in setup.load[Cli] : act' = [act EXCEPT ![Cli] = [Idle EXCEPT
                !.pc = IF id \in Discovered /\ ~DocFresh THEN "discover" ELSE "ask", !.id = id]]
    BY <1>6 DEF Connect
  <2> DEFINE r == [Idle EXCEPT !.pc = IF id \in Discovered /\ ~DocFresh THEN "discover" ELSE "ask", !.id = id]
  <2>2. r.pc \in {"discover", "ask"} /\ r.id = id
    BY DEF Idle
  <2>3. id \in Ids
    BY <1>1, LoadAssumption DEF TimeInv, CoreType
  <2> HIDE DEF r
  <2>4. act' = [act EXCEPT ![Cli] = r] /\ contended' = contended
    BY <1>6, <2>1 DEF r, Connect
  <2> QED
    BY <1>1, <1>2, <2>2, <2>3, <2>4, CalmMove DEF HasAnswer
<1>7. CASE AskDevice /\ ~Fail(Cli)
  <2> DEFINE r == [act[Cli] EXCEPT !.pc = "sleep", !.interval = Interval, !.at = now + Interval, !.deadline = now + CodeLife]
  <2>1. act' = [act EXCEPT ![Cli] = r] /\ contended' = contended
    BY <1>7 DEF AskDevice
  <2>2. r.pc = "sleep" /\ r.id = act[Cli].id
    BY <1>1 DEF TimeInv, CoreType, CallsOK, IsCall, CallFields
  <2>3. act[Cli].id \in Ids
    BY <1>1, <1>7 DEF KeepInv, CallInv, CallFits, CliFields, AskDevice
  <2> HIDE DEF r
  <2> QED
    BY <1>1, <1>2, <2>1, <2>2, <2>3, CalmMove DEF HasAnswer
<1> QED
  BY <1>3, <1>4, <1>5, <1>6, <1>7 DEF AskDevice, AskLoopback, Poll, AcceptCallback

\* Nobody's call changes.
LEMMA CallsStay ==
  ASSUME TimeInv, KeepInv, act' = act, StoresStay, contended' = contended
  PROVE  KeepInv'
<1>1. CallInv'
  BY DEF KeepInv, CallInv, CallFits, CliFields, GotFields, TaskFields, InHand
<1>2. \A a \in Actors : Fades(a, act'[a])
  BY DEF Fades, Stays, Live, Hand
<1> QED
  BY <1>1, <1>2, FadeKeeps

LEMMA AroundFades ==
  ASSUME TimeInv, KeepInv, Reload \/ Restart \/ Interrupt \/ KeyringFlips \/ Tick
  PROVE  KeepInv'
<1>1. CASE Reload \/ Tick
  BY <1>1, SameStores, CallsStay DEF Reload, Tick
<1>2. CASE KeyringFlips
  <2>1. StoresStay
    BY <1>2 DEF KeepInv, StoreShape, StoresStay, KeyringFlips
  <2> QED
    BY <1>2, <2>1, CallsStay DEF KeyringFlips
<1>3. CASE Interrupt
  BY <1>3, SameStores, FailFades DEF Interrupt, Actors
<1>4. CASE Restart
  <2>1. StoresStay
    BY <1>4, SameStores DEF Restart
  <2>2. \A a \in Actors : act'[a] = act[a] \/ (a \in Tasks /\ act'[a] = Idle)
    BY <1>4 DEF Restart, Actors
  <2>3. \A a \in Actors : CallFits(a, act'[a])
    BY <2>2, IdleCall DEF KeepInv, CallInv
  <2>4. CallInv'
    BY <2>3 DEF CallInv, CallFits, CliFields, GotFields, TaskFields, InHand
  <2>5. ASSUME NEW a \in Actors PROVE Fades(a, act'[a])
    <3>1. CASE act'[a] = act[a]
      BY <3>1 DEF Fades, Stays, Live, Hand
    <3>2. CASE a \in Tasks /\ act'[a] = Idle
      <4>1. Hand(a) => act[a].id \in contended'
        BY <1>4, <3>2, CostOfHand DEF Restart
      <4> QED
        BY <3>2, <4>1, IdleCall DEF Fades
    <3> QED
      BY <2>2, <3>1, <3>2
  <2>6. contended \subseteq contended'
    BY <1>4 DEF Restart
  <2> QED
    BY <2>1, <2>4, <2>5, <2>6, FadeKeeps
<1> QED
  BY <1>1, <1>2, <1>3, <1>4

-----------------------------------------------------------------------------
(***************************************************************************)
(* The steps that move a token: it is read from the store, replaced by the *)
(* provider, granted, and written back.  Each concerns the id of one call. *)
(***************************************************************************)

\* The other ids see nothing of it.
LEMMA OthersQuiet ==
  ASSUME TimeInv, KeepInv, NEW a \in Actors, NEW r, act' = [act EXCEPT ![a] = r],
         LiveCall(a, r) \/ InHand(r) => r.id = act[a].id,
         NEW i \in Ids \ contended, i # act[a].id,
         idp'[i] = idp[i], ring'.on = ring.on, Value(i)' = Value(i),
         Find(disk'.blob.map, i) = Find(disk.blob.map, i)
  PROVE  QuietInv(i)'
<1>1. \A b \in Actors : act'[b] = IF b = a THEN r ELSE act[b]
  BY DEF TimeInv, CoreType, CallsOK
<1>2. \A b \in Actors : (Live(b)' <=> LiveCall(b, act'[b])) /\ (Hand(b)' <=> InHand(act'[b]))
  BY DEF Live, LiveCall, LiveCli, LiveTask, Hand, InHand
<1>3. \A b \in Actors : act'[b].id = i /\ (LiveCall(b, act'[b]) \/ InHand(act'[b])) => act'[b] = act[b]
  BY <1>1
<1>4. \A b \in Actors : act[b].id = i => act'[b] = act[b]
  BY <1>1
<1>5. QuietInv(i)
  BY DEF KeepInv
<1>6. Solo(i)'
  BY <1>2, <1>3, <1>5 DEF QuietInv, Solo, Live
<1>7. HandInv(i)'
  BY <1>2, <1>3, <1>5 DEF QuietInv, HandInv, Newest, Hand
<1>8. StoredInv(i)'
  BY <1>2, <1>4, <1>5 DEF QuietInv, StoredInv, Newest, Hand
<1>9. UseInv(i)'
  <2>1. \A t \in Tasks : t \in Actors /\ t # Cli
    BY CliAssumption DEF Actors
  <2>2. ASSUME NEW t \in Tasks, LiveTask(act'[t]), ~InHand(act'[t]), act'[t].id = i PROVE act'[t].use = Value(i)
    <3>1. act'[t] = act[t]
      BY <1>3, <2>1, <2>2 DEF LiveCall
    <3> QED
      BY <1>5, <2>2, <3>1 DEF QuietInv, UseInv, Hand
  <2> QED
    BY <1>2, <2>1, <2>2 DEF UseInv, LiveTask
<1>10. FileInv(i)'
  BY <1>5 DEF QuietInv, FileInv
<1> QED
  BY <1>6, <1>7, <1>8, <1>9, <1>10 DEF QuietInv

\* Tokens that were spread stay so.
TokenIn(n, r) == r \in Nat \X Nat /\ 1 <= r[1] /\ r[1] <= n

LEMMA TokensKeep ==
  ASSUME TimeInv, KeepInv, NEW a \in Actors, NEW r, act' = [act EXCEPT ![a] = r], r.pc # "write",
         \A i \in Ids : Spread(i) \in Int /\ Spread(i)' \in Int /\ Spread(i) <= Spread(i)',
         MapOK(ring.map)', MapOK(disk.blob.map)',
         a # Cli /\ LiveTask(r) => r.id \in Ids,
         \A i \in Ids : a # Cli /\ LiveTask(r) /\ i = r.id =>
             TokenIn(Spread(i)', r.use) /\ (InHand(r) => TokenIn(Spread(i)', r.got.new)),
         LiveCli(act'[Cli]) => /\ act'[Cli].got.new = <<idp'[act'[Cli].id].grants, 0>>
                               /\ act'[Cli].got.new \in idp'[act'[Cli].id].valid
  PROVE  TokenInv'
<1>1. \A b \in Actors : act'[b] = IF b = a THEN r ELSE act[b]
  BY DEF TimeInv, CoreType, CallsOK
<1>2. \A i \in Ids : \A x : TokenIn(Spread(i), x) => TokenIn(Spread(i)', x)
  BY DEF TokenIn
<1>3. \A i, x : (TokenOK(i, x) <=> TokenIn(Spread(i), x))
  BY DEF TokenOK, TokenIn
<1>4. ASSUME NEW b \in Actors, act'[b].pc = "write" PROVE MapOK(act[b].snap)'
  <2>1. act'[b] = act[b] /\ act[b].pc = "write"
    BY <1>1, <1>4
  <2>2. \A i \in Ids : Find(act'[b].snap, i) # None => TokenIn(Spread(i)', Find(act'[b].snap, i))
    BY <1>2, <1>3, <2>1 DEF KeepInv, TokenInv, MapOK
  <2> QED
    BY <2>2 DEF MapOK, TokenOK, TokenIn
<1>5. ASSUME NEW t \in Tasks, LiveTask(act'[t])
      PROVE  /\ TokenOK(act[t].id, act[t].use)'
             /\ Hand(t)' => TokenOK(act[t].id, act[t].got.new)'
  <2>1. t \in Actors /\ t # Cli
    BY CliAssumption DEF Actors
  <2>2. act'[t].id \in Ids
    BY <1>1, <1>5, <2>1 DEF TimeInv, TaskInv, SlotInv, LiveTask, Sent
  <2>3. ASSUME NEW i \in Ids, i = act'[t].id
        PROVE  TokenIn(Spread(i)', act'[t].use) /\ (InHand(act'[t]) => TokenIn(Spread(i)', act'[t].got.new))
    <3>1. CASE t = a
      BY <1>1, <1>5, <2>1, <2>3, <3>1
    <3>2. CASE t # a
      <4>1. act'[t] = act[t]
        BY <1>1, <2>1, <3>2
      <4>2. TokenIn(Spread(i), act[t].use) /\ (Hand(t) => TokenIn(Spread(i), act[t].got.new))
        BY <1>3, <1>5, <2>3, <4>1 DEF KeepInv, TokenInv
      <4>3. InHand(act'[t]) => Hand(t)
        BY <4>1 DEF Hand
      <4> QED
        BY <1>2, <4>1, <4>2, <4>3
    <3> QED
      BY <3>1, <3>2
  <2>4. Hand(t)' <=> InHand(act'[t])
    BY DEF Hand, InHand
  <2> QED
    BY <2>2, <2>3, <2>4 DEF TokenOK, TokenIn, Spread, LiveCli
<1> QED
  BY <1>4, <1>5 DEF TokenInv, LiveTask, LiveCli

LEMMA SpreadType ==
  ASSUME KeepInv, NEW i \in Ids
  PROVE  Spread(i) \in Int /\ Spread(i) <= idp[i].grants /\ idp[i].grants \in Nat
BY DEF KeepInv, ProviderInv, Spread

\* A token that a store has.
LEMMA StoreGives ==
  ASSUME KeepInv, NEW i \in Ids, NEW p, StoreGet(p, i).v # None
  PROVE  /\ TokenOK(i, StoreGet(p, i).v)
         /\ i \notin contended => StoreGet(p, i).v = Value(i)
<1>1. CASE UsesKeyring
  <2>1. StoreGet(p, i).v = Find(ring.map, i)
    BY <1>1 DEF StoreGet
  <2> QED
    BY <1>1, <2>1 DEF KeepInv, TokenInv, MapOK, Value, UsesKeyring
<1>2. CASE ~UsesKeyring
  <2>1. StoreGet(p, i).v = Find(disk.blob.map, i)
    BY <1>2 DEF StoreGet, ReadAll, NoBlob
  <2>2. i \notin contended => ~ring.on
    BY <2>1 DEF KeepInv, QuietInv, FileInv
  <2> QED
    BY <2>1, <2>2 DEF KeepInv, TokenInv, MapOK, Value
<1> QED
  BY <1>1, <1>2

LEMMA GetRefreshKeeps == ASSUME TimeInv, KeepInv, NEW t \in Actors, GetRefresh(t) PROVE KeepInv'
<1>1. /\ act[t].pc = "get" /\ UNCHANGED <<idp, ring>> /\ (disk' = disk \/ disk' = AfterRead("engine"))
  BY DEF GetRefresh
<1>2. StoresStay
  BY <1>1, ReadStores
<1>3. CASE Fail(t)
  BY <1>2, <1>3, FailFades DEF Fail
<1>4. CASE ~Fail(t)
  <2> DEFINE id == act[t].id
  <2> DEFINE v == StoreGet("engine", id).v
  <2> DEFINE r == Posting(t, v)
  <2>1. /\ v # None /\ act' = [act EXCEPT ![t] = r]
        /\ contended' = IF Busy(t, id) THEN contended \cup {id} ELSE contended
    BY <1>4 DEF GetRefresh
  <2>2. t \in Tasks /\ t # Cli
    BY <1>1, CliAssumption DEF TimeInv, CliInv, Actors
  <2>3. id \in Ids
    BY <1>1, <2>2 DEF TimeInv, TaskInv, SlotInv
  <2>4. TokenOK(id, v) /\ (id \notin contended => v = Value(id))
    BY <2>1, <2>3, StoreGives
  <2>5. r.pc = "post" /\ r.use = v /\ r.id = id
    BY PostCall
  <2> HIDE DEF id, v, r
  <2>6. \A b \in Actors : act'[b] = IF b = t THEN r ELSE act[b]
    BY <2>1 DEF TimeInv, CoreType, CallsOK
  <2>7. CallInv'
    <3>1. CallFits(t, r)
      BY <2>2, <2>5 DEF CallFits, GotFields, CliFields, TaskFields, HasAnswer
    <3>2. \A b \in Actors : CallFits(b, act'[b])
      BY <2>6, <3>1 DEF KeepInv, CallInv
    <3> QED
      BY <3>2 DEF CallInv, CallFits, CliFields, GotFields, TaskFields, InHand
  <2>8. ~InHand(r) /\ LiveTask(r)
    BY <2>1, <2>5 DEF InHand, LiveTask, Sent, HasAnswer
  <2>9. ProviderInv'
    BY <1>1 DEF KeepInv, ProviderInv
  <2>10. act'[Cli] = act[Cli]
    BY <2>2, <2>6 DEF Actors
  <2>11. \A i \in Ids : Spread(i)' = Spread(i) /\ Spread(i) \in Int
    BY <1>1, <2>10, SpreadType DEF Spread, LiveCli
  <2>12. TokenInv'
    <3>1. MapOK(ring.map)' /\ MapOK(disk.blob.map)'
      BY <1>2, <2>11 DEF StoresStay, KeepInv, TokenInv, MapOK, TokenOK
    <3>2. \A i \in Ids : i = r.id => TokenIn(Spread(i)', r.use)
      BY <2>3, <2>4, <2>5, <2>11 DEF TokenOK, TokenIn
    <3>3. \A i \in Ids : Spread(i) \in Int /\ Spread(i)' \in Int /\ Spread(i) <= Spread(i)'
      BY <2>11
    <3>4. LiveCli(act'[Cli]) => /\ act'[Cli].got.new = <<idp'[act'[Cli].id].grants, 0>>
                                /\ act'[Cli].got.new \in idp'[act'[Cli].id].valid
      BY <1>1, <2>10 DEF KeepInv, TokenInv
    <3> QED
      BY <2>1, <2>3, <2>5, <2>8, <3>1, <3>2, <3>3, <3>4, TokensKeep
  <2>13. ASSUME NEW i \in Ids \ contended' PROVE QuietInv(i)'
    <3>1. i \notin contended
      BY <2>1
    <3>2. Value(i)' = Value(i) /\ Find(disk'.blob.map, i) = Find(disk.blob.map, i) /\ ring'.on = ring.on
      BY <1>2 DEF StoresStay, Value
    <3>3. CASE i # id
      BY <1>1, <2>1, <2>5, <3>1, <3>2, <3>3, OthersQuiet DEF id
    <3>4. CASE i = id
      <4>1. ~Busy(t, id)
        BY <2>1, <2>13, <3>4
      <4>2. ASSUME NEW b \in Actors, b # t, act[b].id = i PROVE ~Live(b) /\ ~Hand(b)
        BY <3>4, <4>1, <4>2 DEF Busy, Live, LiveCall, LiveTask, LiveCli, Hand, InHand, Sent, HasAnswer, id
      <4>3. \A b \in Actors : (Live(b)' <=> LiveCall(b, act'[b])) /\ (Hand(b)' <=> InHand(act'[b]))
        BY DEF Live, LiveCall, LiveCli, LiveTask, Hand, InHand
      <4>4. \A b \in Actors : b # t /\ act'[b].id = i => ~Live(b)' /\ ~Hand(b)'
        BY <2>6, <4>2, <4>3 DEF Live, Hand
      <4>5. ~Hand(t)' /\ ~Hand(t)
        BY <1>1, <2>6, <2>8, <4>3, NothingInHand DEF HasAnswer
      <4>6. QuietInv(i)
        BY <3>1 DEF KeepInv
      <4>7. Solo(i)' /\ HandInv(i)'
        BY <4>4, <4>5 DEF Solo, HandInv
      <4>8. StoredInv(i)'
        <5>1. \A b \in Actors : act[b].id = i => ~Hand(b)
          BY <4>2, <4>5
        <5> QED
          BY <1>1, <3>2, <4>6, <5>1 DEF QuietInv, StoredInv, Newest
      <4>9. UseInv(i)'
        <5>1. ASSUME NEW s \in Tasks, LiveTask(act'[s]), act'[s].id = i PROVE act'[s].use = Value(i)
          <6>1. s \in Actors /\ s # Cli
            BY CliAssumption DEF Actors
          <6>2. s = t
            BY <4>3, <4>4, <5>1, <6>1 DEF LiveCall
          <6> QED
            BY <2>4, <2>5, <2>6, <3>1, <3>4, <6>1, <6>2
        <5> QED
          BY <3>2, <5>1 DEF UseInv, LiveTask
      <4>10. FileInv(i)'
        BY <3>2, <4>6 DEF QuietInv, FileInv
      <4> QED
        BY <4>7, <4>8, <4>9, <4>10 DEF QuietInv
    <3> QED
      BY <3>3, <3>4
  <2> QED
    BY <1>2, <2>7, <2>9, <2>12, <2>13 DEF KeepInv, StoresStay
<1> QED
  BY <1>3, <1>4

\* A call that gets its answer: nothing but its record changes in act.
LEMMA AnswerFits ==
  ASSUME TimeInv, KeepInv, NEW a \in Actors, NEW r, act' = [act EXCEPT ![a] = r],
         act[a].pc = "post", r.pc = "answered", r.id = act[a].id, r.use = act[a].use,
         r.got # None, r.got.err = "none", a \in Tasks => r.use # None
  PROVE  /\ \A b \in Actors : act'[b] = IF b = a THEN r ELSE act[b]
         /\ CallInv'
<1>1. \A b \in Actors : act'[b] = IF b = a THEN r ELSE act[b]
  BY DEF TimeInv, CoreType, CallsOK
<1>2. CallFits(a, act[a])
  BY DEF KeepInv, CallInv
<1>3. CallFits(a, r)
  BY <1>2 DEF CallFits, GotFields, CliFields, TaskFields, Sent, HasAnswer
<1>4. \A b \in Actors : CallFits(b, act'[b])
  BY <1>1, <1>3 DEF KeepInv, CallInv
<1> QED
  BY <1>1, <1>4 DEF CallInv, CallFits, CliFields, GotFields, TaskFields, InHand

\* One token replaces another of the same grant.
LEMMA RotationKeeps ==
  ASSUME TimeInv, KeepInv, NEW t \in Tasks, act[t].pc = "post", act[t].use # None,
         act[t].use \in idp[act[t].id].valid, NEW life,
         Answered(t, Answer("none", life, Rotated(act[t].use))),
         idp' = [idp EXCEPT ![act[t].id].valid = (@ \ {act[t].use}) \cup {Rotated(act[t].use)}],
         UNCHANGED <<disk, ring, contended>>
  PROVE  KeepInv'
<1> DEFINE id == act[t].id
<1> DEFINE u == act[t].use
<1>1. t \in Actors /\ t # Cli /\ Cli \in Actors
  BY CliAssumption DEF Actors
<1>2. id \in Ids
  BY DEF TimeInv, TaskInv, SlotInv
<1>3. PICK r : /\ act' = [act EXCEPT ![t] = r]
               /\ r.pc = "answered" /\ r.id = id /\ r.use = u
               /\ r.got # None /\ r.got.err = "none" /\ r.got.new = Rotated(u)
  BY <1>1, AnsweredCall
<1>4. (\A b \in Actors : act'[b] = IF b = t THEN r ELSE act[b]) /\ CallInv'
  BY <1>1, <1>3, AnswerFits
<1>5. LiveTask(act[t]) /\ ~Hand(t)
  BY DEF LiveTask, Hand, InHand, Sent, HasAnswer
<1>6. TokenOK(id, u)
  BY <1>5 DEF KeepInv, TokenInv
<1> DEFINE w == Rotated(u)
<1>7. w \in Nat \X Nat /\ w[1] = u[1] /\ w # u /\ w # None
  BY <1>6 DEF TokenOK, Rotated, None
<1>8. /\ idp' = [i \in Ids |-> idp'[i]]
      /\ \A i \in Ids \ {id} : idp'[i] = idp[i]
      /\ idp'[id].grants = idp[id].grants /\ idp'[id].valid = (idp[id].valid \ {u}) \cup {w}
      /\ idp'[id] = [grants |-> idp'[id].grants, valid |-> idp'[id].valid]
  <2> DEFINE valid == (idp[id].valid \ {u}) \cup {w}
  <2>1. idp' = [idp EXCEPT ![id] = [idp[id] EXCEPT !.valid = valid]]
    OBVIOUS
  <2> HIDE DEF valid, w, u, id
  <2>2. idp[id] = [grants |-> idp[id].grants, valid |-> idp[id].valid] /\ idp = [i \in Ids |-> idp[i]]
    BY <1>2 DEF KeepInv, ProviderInv
  <2>3. [idp[id] EXCEPT !.valid = valid] = [grants |-> idp[id].grants, valid |-> valid]
    BY <2>2
  <2>4. idp' = [i \in Ids |-> IF i = id THEN [grants |-> idp[id].grants, valid |-> valid] ELSE idp[i]]
    BY <1>2, <2>1, <2>2, <2>3
  <2>5. idp' = [i \in Ids |-> idp'[i]] /\ \A i \in Ids \ {id} : idp'[i] = idp[i]
    BY <2>4
  <2>6. idp'[id] = [grants |-> idp[id].grants, valid |-> valid]
    BY <1>2, <2>4
  <2>7. idp'[id].grants = idp[id].grants /\ idp'[id].valid = valid
    BY <2>6
  <2> QED
    BY <2>5, <2>6, <2>7 DEF valid
<1> HIDE DEF w, u, id
<1>9. ProviderInv'
  <2>1. ASSUME NEW i \in Ids
        PROVE  /\ idp'[i] = [grants |-> idp'[i].grants, valid |-> idp'[i].valid]
               /\ idp'[i].grants \in Nat
               /\ idp'[i].valid \subseteq Nat \X Nat
               /\ \A x \in idp'[i].valid : 1 <= x[1] /\ x[1] <= idp'[i].grants
               /\ \A x, y \in idp'[i].valid : x[1] = y[1] => x = y
    <3>1. CASE i # id
      BY <1>8, <3>1, ZenonT(30) DEF KeepInv, ProviderInv
    <3>2. CASE i = id
      <4>1. u \in idp[id].valid
        BY DEF u, id
      <4>2. /\ idp[id].grants \in Nat /\ idp[id].valid \subseteq Nat \X Nat
            /\ \A x \in idp[id].valid : 1 <= x[1] /\ x[1] <= idp[id].grants
            /\ \A x, y \in idp[id].valid : x[1] = y[1] => x = y
        BY <1>2 DEF KeepInv, ProviderInv
      <4>3. \A x \in idp'[id].valid : x = w \/ (x \in idp[id].valid /\ x # u)
        BY <1>8
      <4>4. 1 <= w[1] /\ w[1] <= idp[id].grants
        BY <1>7, <4>1, <4>2
      <4>5. \A x \in idp'[id].valid : 1 <= x[1] /\ x[1] <= idp[id].grants /\ x \in Nat \X Nat
        BY <1>7, <4>2, <4>3, <4>4
      <4>6. \A x, y \in idp'[id].valid : x[1] = y[1] => x = y
        BY <1>7, <4>1, <4>2, <4>3
      <4> QED
        BY <1>8, <3>2, <4>2, <4>5, <4>6
    <3> QED
      BY <3>1, <3>2
  <2> QED
    BY <1>8, <2>1 DEF ProviderInv
<1>10. act'[Cli] = act[Cli]
  BY <1>1, <1>4
<1>11. \A i \in Ids : Spread(i)' = Spread(i) /\ Spread(i) \in Int
  <2>1. ASSUME NEW i \in Ids PROVE idp'[i].grants = idp[i].grants
    BY <1>2, <1>8
  <2>2. ASSUME NEW i \in Ids PROVE Spread(i)' = Spread(i)
    BY <1>10, <2>1 DEF Spread, LiveCli
  <2> QED
    BY <2>2, SpreadType
<1>12. TokenInv'
  <2>1. MapOK(ring.map)' /\ MapOK(disk.blob.map)'
    BY <1>11 DEF KeepInv, TokenInv, MapOK, TokenOK
  <2>2. \A i \in Ids : i = r.id => TokenIn(Spread(i)', r.use) /\ TokenIn(Spread(i)', r.got.new)
    BY <1>3, <1>6, <1>7, <1>11 DEF TokenOK, TokenIn, w
  <2>3. \A i \in Ids : Spread(i) \in Int /\ Spread(i)' \in Int /\ Spread(i) <= Spread(i)'
    BY <1>11
  <2>4. LiveCli(act'[Cli]) => /\ act'[Cli].got.new = <<idp'[act'[Cli].id].grants, 0>>
                              /\ act'[Cli].got.new \in idp'[act'[Cli].id].valid
    <3> SUFFICES ASSUME LiveCli(act[Cli])
                 PROVE  /\ act[Cli].got.new = <<idp'[act[Cli].id].grants, 0>>
                        /\ act[Cli].got.new \in idp'[act[Cli].id].valid
      BY <1>10
    <3>1. /\ act[Cli].got.new = <<idp[act[Cli].id].grants, 0>> /\ act[Cli].got.new \in idp[act[Cli].id].valid
      BY DEF KeepInv, TokenInv
    <3>2. act[Cli].id \in Ids
      BY <1>1 DEF KeepInv, CallInv, CallFits, CliFields, LiveCli, HasAnswer
    <3>3. CASE act[Cli].id # id
      BY <1>8, <3>1, <3>2, <3>3
    <3>4. CASE act[Cli].id = id
      <4>1. u[1] <= idp[id].grants - 1 /\ idp[id].grants \in Nat /\ u \in Nat \X Nat
        BY <1>2, <1>6, <3>4, SpreadType DEF TokenOK, Spread
      <4>2. act[Cli].got.new # u
        BY <3>1, <3>4, <4>1
      <4> QED
        BY <1>8, <3>1, <3>4, <4>2
    <3> QED
      BY <3>3, <3>4
  <2> QED
    BY <1>1, <1>2, <1>3, <2>1, <2>2, <2>3, <2>4, TokensKeep
<1>13. ASSUME NEW i \in Ids \ contended PROVE QuietInv(i)'
  <2>1. Value(i)' = Value(i)
    BY DEF Value
  <2>2. CASE i # id
    BY <1>1, <1>3, <1>8, <2>1, <2>2, OthersQuiet DEF id
  <2>3. CASE i = id
    <3>1. QuietInv(i)
      BY DEF KeepInv
    <3>2. Live(t) /\ act[t].id = i
      BY <1>1, <1>5, <2>3 DEF Live, LiveCall, id
    <3>3. \A b \in Actors : Live(b) /\ act[b].id = i => b = t
      BY <1>1, <3>1, <3>2 DEF QuietInv, Solo
    <3>4. \A b \in Actors : act[b].id = i => ~Hand(b)
      BY <1>5, <3>3, HandIsLive DEF KeepInv
    <3>5. u = Value(i)
      BY <1>5, <3>1, <3>2 DEF QuietInv, UseInv, u
    <3>6. idp[i].grants > 0
      BY <1>2, <1>6, <2>3, SpreadType DEF TokenOK
    <3>7. u[1] = idp[i].grants
      BY <3>1, <3>4, <3>5, <3>6 DEF QuietInv, StoredInv, Newest
    <3>8. w \in idp'[i].valid /\ w[1] = idp'[i].grants
      BY <1>7, <1>8, <2>3, <3>7
    <3>9. \A b \in Actors : (Live(b)' <=> LiveCall(b, act'[b])) /\ (Hand(b)' <=> InHand(act'[b]))
      BY DEF Live, LiveCall, LiveCli, LiveTask, Hand, InHand
    <3>10. InHand(r)
      BY <1>3, <1>7 DEF InHand, HasAnswer, w
    <3>11. \A b \in Actors : b # t /\ act'[b].id = i => ~Live(b)' /\ ~Hand(b)'
      BY <1>4, <3>3, <3>4, <3>9 DEF Live, Hand
    <3>12. Hand(t)' /\ act'[t].id = i /\ act'[t].got.new = w
      BY <1>1, <1>3, <1>4, <2>3, <3>9, <3>10 DEF w
    <3>13. Solo(i)' /\ StoredInv(i)'
      BY <1>1, <3>11, <3>12 DEF Solo, StoredInv
    <3>14. HandInv(i)'
      BY <3>8, <3>11, <3>12 DEF HandInv, Newest
    <3>15. UseInv(i)'
      <4>1. \A s \in Tasks : s \in Actors /\ s # Cli
        BY CliAssumption DEF Actors
      <4>2. ASSUME NEW s \in Tasks, LiveTask(act'[s]), ~Hand(s)', act'[s].id = i PROVE FALSE
        BY <3>9, <3>11, <3>12, <4>1, <4>2 DEF LiveCall
      <4> QED
        BY <4>2 DEF UseInv, LiveTask
    <3>16. FileInv(i)'
      BY <3>1 DEF QuietInv, FileInv
    <3> QED
      BY <3>13, <3>14, <3>15, <3>16 DEF QuietInv
  <2> QED
    BY <2>2, <2>3
<1> QED
  BY <1>4, <1>9, <1>12, <1>13 DEF KeepInv, StoreShape

LEMMA MintsKeeps == ASSUME TimeInv, KeepInv, NEW t \in Actors, ProviderMints(t) PROVE KeepInv'
<1>1. t \in Tasks /\ t # Cli /\ act[t].pc = "post"
  BY CliAssumption DEF ProviderMints
<1>2. ASSUME NEW life, Answered(t, Answer("none", life, act[t].use)), UNCHANGED idp
      PROVE  KeepInv'
  BY <1>1, <1>2, PlainAnswer DEF ProviderMints
<1>3. ASSUME NEW life, act[t].use # None, act[t].use \in idp[act[t].id].valid,
             Answered(t, Answer("none", life, Rotated(act[t].use))),
             idp' = [idp EXCEPT ![act[t].id].valid = (@ \ {act[t].use}) \cup {Rotated(act[t].use)}]
      PROVE  KeepInv'
  BY <1>1, <1>3, RotationKeeps DEF ProviderMints
<1> QED
  BY <1>2, <1>3 DEF ProviderMints

\* A new grant, which only the command line knows of.
LEMMA NewGrant ==
  ASSUME TimeInv, KeepInv, act[Cli].pc = "post", NEW g, g = <<idp[act[Cli].id].grants + 1, 0>>,
         Answered(Cli, Answer("none", 0, g)),
         idp' = [idp EXCEPT ![act[Cli].id] = [grants |-> @.grants + 1, valid |-> @.valid \cup {g}]],
         contended' = IF Busy(Cli, act[Cli].id) THEN contended \cup {act[Cli].id} ELSE contended,
         UNCHANGED <<disk, ring>>
  PROVE  KeepInv'
<1> DEFINE id == act[Cli].id
<1> DEFINE G == idp[id].grants
<1>1. Cli \in Actors /\ Cli \notin Tasks
  BY CliAssumption DEF Actors
<1>2. id \in Ids /\ act[Cli].use = None
  BY <1>1 DEF KeepInv, CallInv, CallFits, CliFields, Sent
<1>3. PICK r : /\ act' = [act EXCEPT ![Cli] = r]
               /\ r.pc = "answered" /\ r.id = id /\ r.use = act[Cli].use
               /\ r.got # None /\ r.got.err = "none" /\ r.got.new = g
  BY <1>1, AnsweredCall
<1>4. (\A b \in Actors : act'[b] = IF b = Cli THEN r ELSE act[b]) /\ CallInv'
  BY <1>1, <1>3, AnswerFits
<1>5. G \in Nat /\ g \in Nat \X Nat /\ g[1] = G + 1 /\ g # None
  BY <1>2 DEF KeepInv, ProviderInv, None
<1>6. /\ idp' = [i \in Ids |-> idp'[i]]
      /\ \A i \in Ids \ {id} : idp'[i] = idp[i]
      /\ idp'[id] = [grants |-> G + 1, valid |-> idp[id].valid \cup {g}]
  BY <1>2 DEF KeepInv, ProviderInv
<1>7. idp'[id].grants = G + 1 /\ idp'[id].valid = idp[id].valid \cup {g}
  <2> DEFINE n == G + 1
             V == idp[id].valid \cup {g}
  <2>1. idp'[id] = [grants |-> n, valid |-> V]
    BY <1>6
  <2> HIDE DEF n, V
  <2>2. idp'[id].grants = n /\ idp'[id].valid = V
    BY <2>1
  <2> QED
    BY <2>2 DEF n, V
<1>8. ProviderInv'
  <2>1. ASSUME NEW i \in Ids
        PROVE  /\ idp'[i] = [grants |-> idp'[i].grants, valid |-> idp'[i].valid]
               /\ idp'[i].grants \in Nat
               /\ idp'[i].valid \subseteq Nat \X Nat
               /\ \A x \in idp'[i].valid : 1 <= x[1] /\ x[1] <= idp'[i].grants
               /\ \A x, y \in idp'[i].valid : x[1] = y[1] => x = y
    <3>1. CASE i # id
      BY <1>6, <3>1 DEF KeepInv, ProviderInv
    <3>2. CASE i = id
      <4>1. /\ idp[id].valid \subseteq Nat \X Nat
            /\ \A x \in idp[id].valid : 1 <= x[1] /\ x[1] <= G
            /\ \A x, y \in idp[id].valid : x[1] = y[1] => x = y
        BY <1>2 DEF KeepInv, ProviderInv
      <4> HIDE DEF G, id
      <4>2. \A x \in idp'[id].valid : x = g \/ (x \in idp[id].valid /\ x[1] \in Nat)
        BY <1>7, <4>1
      <4>3. \A x \in idp'[id].valid : 1 <= x[1] /\ x[1] <= G + 1 /\ x \in Nat \X Nat
        BY <1>5, <4>1, <4>2
      <4>4. \A x, y \in idp'[id].valid : x[1] = y[1] => x = y
        BY <1>5, <4>1, <4>2
      <4>5. idp'[id] = [grants |-> idp'[id].grants, valid |-> idp'[id].valid]
        BY <1>6, <1>7
      <4>6. idp'[id].grants \in Nat /\ idp'[id].valid \subseteq Nat \X Nat
        BY <1>5, <1>7, <4>3
      <4> QED
        BY <1>7, <3>2, <4>3, <4>4, <4>5, <4>6
    <3> QED
      BY <3>1, <3>2
  <2> QED
    BY <1>6, <2>1 DEF ProviderInv
<1>9. act'[Cli] = r /\ LiveCli(r) /\ InHand(r)
  BY <1>1, <1>2, <1>3, <1>4, <1>5 DEF LiveCli, InHand, HasAnswer
<1>10. ~LiveCli(act[Cli])
  BY DEF LiveCli, HasAnswer
<1>11. \A i \in Ids : Spread(i)' = Spread(i) /\ Spread(i) \in Int
  <2>1. ASSUME NEW i \in Ids PROVE Spread(i)' = Spread(i)
    <3>1. Spread(i) = idp[i].grants
      BY <1>10 DEF Spread
    <3>2. LiveCli(act[Cli])' /\ act'[Cli].id = id
      BY <1>3, <1>9 DEF LiveCli
    <3>3. Spread(i)' = IF i = id THEN idp'[i].grants - 1 ELSE idp'[i].grants
      BY <3>2 DEF Spread
    <3>4. i = id => idp'[i].grants = idp[i].grants + 1 /\ idp[i].grants \in Nat
      BY <1>5, <1>7
    <3>5. i # id => idp'[i].grants = idp[i].grants
      BY <1>6
    <3> HIDE DEF G, id
    <3> QED
      BY <3>1, <3>3, <3>4, <3>5
  <2> QED
    BY <2>1, SpreadType
<1> HIDE DEF G, id
<1>12. TokenInv'
  <2>1. MapOK(ring.map)' /\ MapOK(disk.blob.map)'
    BY <1>11 DEF KeepInv, TokenInv, MapOK, TokenOK
  <2>2. \A i \in Ids : Spread(i) \in Int /\ Spread(i)' \in Int /\ Spread(i) <= Spread(i)'
    BY <1>11
  <2>3. /\ act'[Cli].got.new = <<idp'[act'[Cli].id].grants, 0>>
        /\ act'[Cli].got.new \in idp'[act'[Cli].id].valid
    BY <1>3, <1>7, <1>9 DEF G, id
  <2> QED
    BY <1>1, <1>3, <2>1, <2>2, <2>3, TokensKeep
<1>13. ASSUME NEW i \in Ids \ contended' PROVE QuietInv(i)'
  <2>1. Value(i)' = Value(i) /\ i \notin contended
    BY DEF Value
  <2>2. CASE i # id
    BY <1>1, <1>3, <1>6, <2>1, <2>2, OthersQuiet DEF id
  <2>3. CASE i = id
    <3>1. ~Busy(Cli, i)
      BY <1>13, <2>3 DEF id
    <3>2. ASSUME NEW b \in Actors, b # Cli, act[b].id = i PROVE ~Live(b) /\ ~Hand(b)
      BY <3>1, <3>2 DEF Busy, Live, LiveCall, LiveTask, LiveCli, Hand, InHand, Sent, HasAnswer
    <3>3. \A b \in Actors : (Live(b)' <=> LiveCall(b, act'[b])) /\ (Hand(b)' <=> InHand(act'[b]))
      BY DEF Live, LiveCall, LiveCli, LiveTask, Hand, InHand
    <3>4. \A b \in Actors : b # Cli /\ act'[b].id = i => ~Live(b)' /\ ~Hand(b)'
      BY <1>4, <3>2, <3>3 DEF Live, Hand
    <3>5. Hand(Cli)' /\ act'[Cli].id = i /\ act'[Cli].got.new = g
      BY <1>1, <1>3, <1>9, <2>3, <3>3
    <3>6. Solo(i)' /\ StoredInv(i)'
      BY <1>1, <3>4, <3>5 DEF Solo, StoredInv
    <3>7. HandInv(i)'
      <4>1. g \in idp'[i].valid /\ g[1] = idp'[i].grants
        BY <1>5, <1>7, <2>3
      <4> QED
        BY <3>4, <3>5, <4>1 DEF HandInv, Newest
    <3>8. UseInv(i)'
      <4>1. ASSUME NEW s \in Tasks, LiveTask(act'[s]), act'[s].id = i PROVE FALSE
        <5>1. s \in Actors /\ s # Cli
          BY <1>1 DEF Actors
        <5> QED
          BY <3>3, <3>4, <4>1, <5>1 DEF LiveCall
      <4> QED
        BY <4>1 DEF UseInv, LiveTask
    <3>9. FileInv(i)'
      BY <2>1 DEF KeepInv, QuietInv, FileInv
    <3> QED
      BY <3>6, <3>7, <3>8, <3>9 DEF QuietInv
  <2> QED
    BY <2>2, <2>3
<1> QED
  BY <1>4, <1>8, <1>12, <1>13 DEF KeepInv, StoreShape

LEMMA GrantsKeeps == ASSUME TimeInv, KeepInv, ProviderGrants PROVE KeepInv'
<1>1. Cli \in Actors /\ act[Cli].pc = "post" /\ UNCHANGED <<disk, ring>>
  BY DEF Actors, ProviderGrants
<1>2. CASE Answered(Cli, Answer("none", 0, None)) /\ UNCHANGED <<idp, contended>>
  BY <1>1, <1>2, PlainAnswer
<1>3. CASE ~(Answered(Cli, Answer("none", 0, None)) /\ UNCHANGED <<idp, contended>>)
  <2>1. PICK g : /\ g = <<idp[act[Cli].id].grants + 1, 0>>
                 /\ Answered(Cli, Answer("none", 0, g))
                 /\ idp' = [idp EXCEPT ![act[Cli].id] = [grants |-> @.grants + 1, valid |-> @.valid \cup {g}]]
                 /\ contended' = IF Busy(Cli, act[Cli].id) THEN contended \cup {act[Cli].id} ELSE contended
    BY <1>3 DEF ProviderGrants
  <2> QED
    BY <1>1, <2>1, NewGrant
<1> QED
  BY <1>2, <1>3

\* What a keyring and a file have for an id.
StoredIn(k, d, i) == IF k.on THEN Find(k.map, i) ELSE Find(d.blob.map, i)

\* A token is written back and the call ends.  id stops being contended only
\* when the command line wrote it and nobody else works on it.
Written(a, id, new) ==
    /\ id = act[a].id /\ new = act[a].got.new
    /\ act[a].pc \in {"persist", "write"} /\ act' = [act EXCEPT ![a] = Idle]
    /\ idp' = idp /\ ring'.on = ring.on /\ StoreShape'
    /\ \A i \in Ids : Find(ring'.map, i) = Find(ring.map, i) \/ (i = id /\ Find(ring'.map, i) = new)
    /\ \A i \in Ids : Find(disk'.blob.map, i) # None =>
          TokenOK(i, Find(disk'.blob.map, i)) \/ (i = id /\ Find(disk'.blob.map, i) = new)
    /\ \A i \in Ids \ contended' : i # id =>
          /\ i \notin contended
          /\ StoredIn(ring', disk', i) = Value(i)
          /\ Find(disk'.blob.map, i) = Find(disk.blob.map, i)
    /\ \A i \in Ids \ contended' : i = id =>
          /\ i \notin contended \/ (a = Cli /\ ~Busy(a, i))
          /\ StoredIn(ring', disk', i) = new
          /\ ring.on => Find(disk'.blob.map, i) = None

LEMMA TokenStored ==
  ASSUME TimeInv, KeepInv, NEW a \in Actors, NEW id, NEW new, Written(a, id, new)
  PROVE  KeepInv'
<1> USE DEF Written
<1>0. \A i \in Ids : Value(i)' = StoredIn(ring', disk', i)
  BY DEF Value, StoredIn
<1>1. \A b \in Actors : act'[b] = IF b = a THEN Idle ELSE act[b]
  BY DEF TimeInv, CoreType, CallsOK
<1>2. Cli \in Actors /\ \A t \in Tasks : t \in Actors /\ t # Cli
  BY CliAssumption DEF Actors
<1>3. CallInv'
  <2>1. \A b \in Actors : CallFits(b, act'[b])
    BY <1>1, IdleCall DEF KeepInv, CallInv
  <2> QED
    BY <2>1 DEF CallInv, CallFits, CliFields, GotFields, TaskFields, InHand
<1>4. ProviderInv'
  BY DEF KeepInv, ProviderInv
<1>5. Hand(a) /\ Live(a)
  <2>1. Hand(a)
    BY DEF KeepInv, CallInv, CallFits, GotFields, Hand
  <2> QED
    BY <2>1, HandIsLive DEF KeepInv
<1>6. id \in Ids
  <2>1. CASE a = Cli
    BY <2>1 DEF KeepInv, CallInv, CallFits, CliFields
  <2>2. CASE a \in Tasks
    BY <2>2 DEF TimeInv, TaskInv, SlotInv
  <2> QED
    BY <2>1, <2>2 DEF Actors
<1>7. ~LiveCli(Idle) /\ ~LiveTask(Idle) /\ ~InHand(Idle) /\ Idle.pc = "idle"
  BY DEF LiveCli, LiveTask, InHand, Idle, Sent, HasAnswer
<1>8. LiveCli(act[Cli])' <=> LiveCli(act[Cli]) /\ a # Cli
  <2>1. LiveCli(act[Cli])' <=> LiveCli(act'[Cli])
    BY DEF LiveCli
  <2> QED
    BY <1>1, <1>2, <1>5, <1>7, <2>1 DEF Live, LiveCall
<1>9. \A i \in Ids : Spread(i) \in Int /\ Spread(i)' \in Int /\ Spread(i) <= Spread(i)'
  <2>1. a # Cli => act'[Cli] = act[Cli]
    BY <1>1, <1>2
  <2> QED
    BY <1>8, <2>1 DEF KeepInv, ProviderInv, Spread
<1>10. \A i \in Ids : \A x : TokenIn(Spread(i), x) => TokenIn(Spread(i)', x)
  BY <1>9 DEF TokenIn
<1>11. ASSUME NEW i \in Ids, i = id PROVE TokenIn(Spread(i)', new)
  <2>1. CASE a \in Tasks
    <3>1. LiveTask(act[a])
      BY <1>2, <1>5, <2>1 DEF Live, LiveCall
    <3>2. TokenOK(id, new)
      BY <1>5, <2>1, <3>1 DEF KeepInv, TokenInv
    <3> QED
      BY <1>10, <1>11, <3>2 DEF TokenOK, TokenIn
  <2>2. CASE a = Cli
    <3>1. LiveCli(act[Cli])
      BY <1>5, <2>2 DEF Live, LiveCall
    <3>2. new = <<idp[i].grants, 0>> /\ new \in idp[i].valid
      BY <1>11, <2>2, <3>1 DEF KeepInv, TokenInv
    <3>3. Spread(i)' = idp[i].grants
      BY <1>8, <2>2 DEF Spread
    <3>4. idp[i].grants \in Nat /\ 1 <= new[1]
      BY <3>2 DEF KeepInv, ProviderInv
    <3> QED
      BY <3>2, <3>3, <3>4 DEF TokenIn
  <2> QED
    BY <2>1, <2>2 DEF Actors
<1>12. TokenInv'
  <2>1. ASSUME NEW i \in Ids, Find(ring'.map, i) # None PROVE TokenIn(Spread(i)', Find(ring'.map, i))
    <3>1. CASE i = id /\ Find(ring'.map, i) = new
      BY <1>11, <3>1
    <3>2. CASE Find(ring'.map, i) = Find(ring.map, i)
      BY <1>10, <2>1, <3>2 DEF KeepInv, TokenInv, MapOK, TokenOK, TokenIn
    <3> QED
      BY <3>1, <3>2
  <2>2. ASSUME NEW i \in Ids, Find(disk'.blob.map, i) # None PROVE TokenIn(Spread(i)', Find(disk'.blob.map, i))
    BY <1>10, <1>11, <2>2 DEF TokenOK, TokenIn
  <2>3. MapOK(ring.map)' /\ MapOK(disk.blob.map)'
    BY <2>1, <2>2 DEF MapOK, TokenOK, TokenIn
  <2>4. LiveCli(act'[Cli]) => /\ act'[Cli].got.new = <<idp'[act'[Cli].id].grants, 0>>
                              /\ act'[Cli].got.new \in idp'[act'[Cli].id].valid
    BY <1>1, <1>2, <1>7 DEF KeepInv, TokenInv
  <2>5. Idle.pc # "write"
    BY <1>7
  <2> QED
    BY <1>7, <1>9, <2>3, <2>4, <2>5, TokensKeep
<1>13. ASSUME NEW i \in Ids \ contended' PROVE QuietInv(i)'
  <2>1. CASE i # id
    BY <1>0, <1>7, <2>1, OthersQuiet DEF LiveCall
  <2>2. CASE i = id
    <3>1. ASSUME NEW b \in Actors, b # a, act[b].id = i PROVE ~Live(b) /\ ~Hand(b)
      <4>1. CASE i \notin contended
        <5>1. ~Live(b)
          BY <1>5, <2>2, <3>1, <4>1 DEF KeepInv, QuietInv, Solo
        <5> QED
          BY <3>1, <5>1, HandIsLive DEF KeepInv
      <4>2. CASE ~Busy(a, i)
        BY <3>1, <4>2 DEF Busy, Live, LiveCall, LiveTask, LiveCli, Hand, InHand, Sent, HasAnswer
      <4> QED
        BY <2>2, <4>1, <4>2
    <3>2. \A b \in Actors : (Live(b)' <=> LiveCall(b, act'[b])) /\ (Hand(b)' <=> InHand(act'[b]))
      BY DEF Live, LiveCall, LiveCli, LiveTask, Hand, InHand
    <3>3. \A b \in Actors : act'[b].id = i => ~Live(b)' /\ ~Hand(b)'
      BY <1>1, <1>7, <3>1, <3>2 DEF Live, Hand, LiveCall
    <3>4. Newest(i, new)
      <4>1. CASE i \notin contended
        BY <1>5, <2>2, <4>1 DEF KeepInv, QuietInv, HandInv
      <4>2. CASE a = Cli
        <5>1. LiveCli(act[Cli])
          BY <1>5, <4>2 DEF Live, LiveCall
        <5>2. new = <<idp[i].grants, 0>> /\ new \in idp[i].valid
          BY <2>2, <4>2, <5>1 DEF KeepInv, TokenInv
        <5> QED
          BY <5>2 DEF Newest
      <4> QED
        BY <2>2, <4>1, <4>2
    <3>5. Solo(i)' /\ HandInv(i)'
      BY <3>3 DEF Solo, HandInv
    <3>6. StoredInv(i)'
      BY <1>0, <2>2, <3>4 DEF StoredInv, Newest
    <3>7. UseInv(i)'
      <4>1. ASSUME NEW s \in Tasks, LiveTask(act'[s]), act'[s].id = i PROVE FALSE
        BY <1>2, <3>2, <3>3, <4>1 DEF LiveCall
      <4> QED
        BY <4>1 DEF UseInv, LiveTask
    <3>8. FileInv(i)'
      BY <2>2 DEF FileInv
    <3> QED
      BY <3>5, <3>6, <3>7, <3>8 DEF QuietInv
  <2> QED
    BY <2>1, <2>2
<1> QED
  BY <1>3, <1>4, <1>12, <1>13 DEF KeepInv

LEMMA PersistKeeps == ASSUME TimeInv, KeepInv, NEW a \in Actors, Persist(a) PROVE KeepInv'
<1>1. act[a].pc = "persist" /\ act[a].pc \in HasAnswer /\ idp' = idp
  BY DEF Persist, HasAnswer
<1>2. Hand(a)
  BY <1>1 DEF KeepInv, CallInv, CallFits, GotFields, Hand
<1>3. CASE UsesKeyring
  <2> DEFINE id == act[a].id
  <2> DEFINE new == act[a].got.new
  <2>1. /\ ring' = [ring EXCEPT !.map = Put(@, id, new)] /\ act' = [act EXCEPT ![a] = Idle] /\ disk' = disk
        /\ contended' = IF a = Cli /\ ~Busy(a, id) /\ Find(disk.blob.map, id) = None
                        THEN contended \ {id} ELSE contended
    BY <1>3 DEF Persist, Finish
  <2> HIDE DEF id, new
  <2>2. ring' = [on |-> ring.on, up |-> ring.up, map |-> Put(ring.map, id, new)]
    BY <2>1 DEF KeepInv, StoreShape
  <2>3. StoreShape' /\ ring'.on = ring.on /\ ring.on /\ ring'.map = Put(ring.map, id, new)
    BY <1>3, <2>1, <2>2 DEF KeepInv, StoreShape, UsesKeyring
  <2>4. \A i : Find(ring'.map, i) = IF i = id THEN new ELSE Find(ring.map, i)
    BY <2>3, PutFind
  <2>5. \A i \in Ids : Find(disk'.blob.map, i) # None => TokenOK(i, Find(disk'.blob.map, i))
    BY <2>1 DEF KeepInv, TokenInv, MapOK
  <2>6. \A i : StoredIn(ring', disk', i) = IF i = id THEN new ELSE Value(i)
    BY <2>3, <2>4 DEF Value, StoredIn
  <2>7. ASSUME NEW i \in Ids \ contended', i # id PROVE i \notin contended
    BY <2>1, <2>7
  <2>8. ASSUME NEW i \in Ids \ contended', i = id
        PROVE  (i \notin contended \/ (a = Cli /\ ~Busy(a, i))) /\ Find(disk.blob.map, i) = None
    <3>1. CASE i \notin contended
      BY <2>3, <3>1 DEF KeepInv, QuietInv, FileInv
    <3>2. CASE i \in contended
      BY <2>1, <2>8, <3>2
    <3> QED
      BY <3>1, <3>2
  <2>9. id = act[a].id /\ new = act[a].got.new
    BY DEF id, new
  <2>10. \A i \in Ids : Find(ring'.map, i) = Find(ring.map, i) \/ (i = id /\ Find(ring'.map, i) = new)
    BY <2>4
  <2>11. \A i \in Ids : Find(disk'.blob.map, i) # None =>
            TokenOK(i, Find(disk'.blob.map, i)) \/ (i = id /\ Find(disk'.blob.map, i) = new)
    BY <2>5
  <2>12. \A i \in Ids \ contended' : i # id =>
            /\ i \notin contended
            /\ StoredIn(ring', disk', i) = Value(i)
            /\ Find(disk'.blob.map, i) = Find(disk.blob.map, i)
    BY <2>1, <2>6, <2>7
  <2>13. \A i \in Ids \ contended' : i = id =>
            /\ i \notin contended \/ (a = Cli /\ ~Busy(a, i))
            /\ StoredIn(ring', disk', i) = new
            /\ ring.on => Find(disk'.blob.map, i) = None
    BY <2>1, <2>6, <2>8
  <2>14. act[a].pc \in {"persist", "write"} /\ idp' = idp /\ act' = [act EXCEPT ![a] = Idle]
    BY <1>1, <2>1
  <2> QED
    <3>1. Written(a, id, new)
      BY <2>3, <2>9, <2>10, <2>11, <2>12, <2>13, <2>14 DEF Written
    <3> QED
      BY <3>1, TokenStored
<1>4. CASE ~UsesKeyring /\ ReadAll(Process(a)).ok
  <2> DEFINE r == [act[a] EXCEPT !.pc = "write", !.snap = disk.blob.map]
  <2>1. act' = [act EXCEPT ![a] = r] /\ contended' = contended /\ ring' = ring /\ disk' = AfterRead(Process(a))
    BY <1>4 DEF Persist
  <2>2. r.pc = "write" /\ r.id = act[a].id /\ r.use = act[a].use /\ r.got = act[a].got /\ r.snap = disk.blob.map
    BY DEF TimeInv, CoreType, CallsOK, IsCall, CallFields
  <2>3. StoresStay
    BY <1>1, <2>1, ReadStores
  <2> HIDE DEF r
  <2> QED
    BY <1>1, <1>2, <2>1, <2>2, <2>3, AnswerStays
<1>5. CASE ~UsesKeyring /\ ~ReadAll(Process(a)).ok
  <2>1. Fail(a) /\ ring' = ring /\ disk' = AfterRead(Process(a))
    BY <1>5 DEF Persist
  <2>2. StoresStay
    BY <1>1, <2>1, ReadStores
  <2> QED
    BY <2>1, <2>2, FailFades DEF Fail
<1> QED
  BY <1>3, <1>4, <1>5

LEMMA WriteFileKeeps == ASSUME TimeInv, KeepInv, NEW a \in Actors, WriteFile(a) PROVE KeepInv'
<1> DEFINE id == act[a].id
<1> DEFINE new == act[a].got.new
<1> DEFINE snap == act[a].snap
<1>1. /\ act[a].pc = "write" /\ act' = [act EXCEPT ![a] = Idle] /\ idp' = idp /\ ring' = ring
      /\ disk' = WriteAll(Process(a), Put(snap, id, new))
      /\ contended' = (IF a = Cli /\ ~ring.on /\ ~Busy(a, id) THEN contended \ {id} ELSE contended)
                         \cup Overwritten(a) \cup (IF ring.on THEN {id} ELSE {})
  BY DEF WriteFile, Finish
<1>2. MapOK(snap)
  BY <1>1 DEF KeepInv, TokenInv
<1>3. Overwritten(a) = {i \in Ids \ {id} : Find(disk.blob.map, i) # Find(snap, i)}
  BY DEF Overwritten
<1> HIDE DEF id, new, snap
<1>4. disk'.blob.map = Put(snap, id, new) /\ StoreShape'
  BY <1>1 DEF WriteAll, KeepInv, StoreShape
<1>5. \A i : Find(disk'.blob.map, i) = IF i = id THEN new ELSE Find(snap, i)
  BY <1>4, PutFind
<1>6. \A i \in Ids : Find(disk'.blob.map, i) # None =>
         TokenOK(i, Find(disk'.blob.map, i)) \/ (i = id /\ Find(disk'.blob.map, i) = new)
  BY <1>2, <1>5 DEF MapOK
<1>7. ASSUME NEW i \in Ids \ contended', i # id
      PROVE  i \notin contended /\ Find(disk'.blob.map, i) = Find(disk.blob.map, i) /\ StoredIn(ring', disk', i) = Value(i)
  <2>1. i \notin contended /\ Find(disk.blob.map, i) = Find(snap, i)
    BY <1>1, <1>3, <1>7
  <2> QED
    BY <1>1, <1>5, <1>7, <2>1 DEF Value, StoredIn
<1>8. ASSUME NEW i \in Ids \ contended', i = id
      PROVE  /\ i \notin contended \/ (a = Cli /\ ~Busy(a, i))
             /\ StoredIn(ring', disk', i) = new /\ ~ring.on
  <2>1. ~ring.on
    BY <1>1, <1>8
  <2>2. StoredIn(ring', disk', i) = new
    BY <1>1, <1>5, <1>8, <2>1 DEF StoredIn
  <2>3. i \notin contended \/ (a = Cli /\ ~Busy(a, i))
    BY <1>1, <1>8
  <2> QED
    BY <2>1, <2>2, <2>3
<1>9. id = act[a].id /\ new = act[a].got.new
  BY DEF id, new
<1>10. \A i \in Ids : Find(ring'.map, i) = Find(ring.map, i) \/ (i = id /\ Find(ring'.map, i) = new)
  BY <1>1
<1>11. \A i \in Ids \ contended' : i # id =>
          /\ i \notin contended
          /\ StoredIn(ring', disk', i) = Value(i)
          /\ Find(disk'.blob.map, i) = Find(disk.blob.map, i)
  BY <1>7
<1>12. \A i \in Ids \ contended' : i = id =>
          /\ i \notin contended \/ (a = Cli /\ ~Busy(a, i))
          /\ StoredIn(ring', disk', i) = new
          /\ ring.on => Find(disk'.blob.map, i) = None
  BY <1>8
<1>13. act[a].pc \in {"persist", "write"} /\ idp' = idp /\ act' = [act EXCEPT ![a] = Idle] /\ ring'.on = ring.on
  BY <1>1
<1> QED
  <2>1. Written(a, id, new)
    BY <1>4, <1>6, <1>9, <1>10, <1>11, <1>12, <1>13 DEF Written
  <2> QED
    BY <2>1, TokenStored

-----------------------------------------------------------------------------

LEMMA KeepNext == ASSUME TimeInv, KeepInv, [Next]_vars PROVE KeepInv'
<1>1. ASSUME NEW a \in Actors, Step(a) PROVE KeepInv'
  BY <1>1, EnterFades, DiscoverFades, GetRefreshKeeps, SendFades, ReceiveFades, PersistKeeps, WriteFileKeeps DEF Step
<1>2. ASSUME NEW a \in Actors, Provider(a) PROVE KeepInv'
  BY <1>2, RefusesFades, MintsKeeps, RequestFades DEF Provider
<1>3. CASE UNCHANGED vars
  BY <1>3, SameStores, CallsStay DEF vars
<1> QED
  BY <1>1, <1>2, <1>3, ResolveFades, GrantsKeeps, WaitsFades, ConnectFades, AroundFades DEF Next

(* The inductive invariant of the refresh tokens: for an id that is not    *)
(* contended at most one call is live, and the newest token is in its hand *)
(* or in the value store (mint and the *_connect functions).               *)
THEOREM TokensHaveOneHolder == Spec => []KeepInv
<1>1. TimeInv /\ KeepInv /\ [Next]_vars => KeepInv'
  BY KeepNext
<1> QED
  BY <1>1, KeepInit, TokensAgeInTime, PTL DEF Spec

-----------------------------------------------------------------------------
(***************************************************************************)
(* The key of the encrypted file.  resolve_key puts PAWRLY_TOKEN_KEY on    *)
(* disk wherever it is set, so that a process with another one, or with    *)
(* one where the others have none, makes the file unreadable to them.      *)
(***************************************************************************)
KeysAgree == \A s \in Setups : s.env["engine"] \in {"none", s.env["cli"]}

KeyInv ==
    ~ring.on =>
        /\ disk.blob # NoBlob =>
              /\ disk.key # "none" /\ disk.blob.key = disk.key
              /\ setup.env["cli"] # "none" => disk.key = setup.env["cli"]
        /\ \A t \in Tasks : LiveTask(act[t]) => disk.blob # NoBlob

\* Only a token from the store makes a task live.
LEMMA LiveByReading ==
  ASSUME TimeInv, [Next]_vars, NEW t \in Tasks, LiveTask(act'[t]), ~GetRefresh(t)
  PROVE  LiveTask(act[t])
<1>1. t \in Actors /\ t # Cli /\ IsCall(act[t])
  BY CliAssumption DEF Actors, TimeInv, CoreType, CallsOK
<1>2. act'[t].pc \in Sent /\ act'[t].use # None
  BY DEF LiveTask
<1>3. ASSUME NEW a \in Actors, NEW r, act' = [act EXCEPT ![a] = r], a = t => r.pc \notin Sent \/ r.use = None
      PROVE  LiveTask(act[t])
  <2>1. act'[t] = IF a = t THEN r ELSE act[t]
    BY <1>1, <1>3 DEF TimeInv, CoreType, CallsOK
  <2> QED
    BY <1>2, <1>3, <2>1 DEF LiveTask
<1>4. ASSUME NEW a \in Actors, act' = [act EXCEPT ![a] = Idle] PROVE LiveTask(act[t])
  BY <1>3, <1>4 DEF Idle, Sent
<1>5. ASSUME NEW a \in Actors, NEW r, act' = [act EXCEPT ![a] = r], a = t => act[t].pc \in Sent /\ r.use = act[t].use
      PROVE  LiveTask(act[t])
  <2>1. act'[t] = IF a = t THEN r ELSE act[t]
    BY <1>1, <1>5 DEF TimeInv, CoreType, CallsOK
  <2> QED
    BY <1>2, <1>5, <2>1 DEF LiveTask
<1>6. ASSUME NEW a \in Actors, NEW pc, Go(a, pc), pc \notin Sent PROVE LiveTask(act[t])
  <2> DEFINE r == [act[a] EXCEPT !.pc = pc]
  <2>1. act' = [act EXCEPT ![a] = r] /\ r.pc = pc
    BY <1>6 DEF Go, TimeInv, CoreType, CallsOK, IsCall, CallFields
  <2> HIDE DEF r
  <2> QED
    BY <1>3, <1>6, <2>1
<1>7. ASSUME act'[t] = act[t] PROVE LiveTask(act[t])
  BY <1>7
<1>8. ASSUME NEW a \in Actors, NEW err, NEW life, NEW new, act[a].pc = "post", Answered(a, Answer(err, life, new))
      PROVE  LiveTask(act[t])
  <2>1. PICK r : act' = [act EXCEPT ![a] = r] /\ r.use = act[a].use
    BY <1>8, AnsweredCall
  <2> QED
    BY <1>5, <1>8, <2>1 DEF Sent
<1>9. ASSUME NEW a \in Actors, Step(a) PROVE LiveTask(act[t])
  <2>1. CASE Enter(a)
    <3>1. Entry(act[a].id) \notin Sent
      BY DEF Entry, Sent
    <3> QED
      BY <1>4, <1>6, <2>1, <3>1 DEF Enter
  <2>2. CASE Discover(a)
    <3>1. (IF a = Cli THEN "ask" ELSE IF Interactive(act[a].id) THEN "get" ELSE "send") \notin Sent
      BY DEF Sent
    <3> QED
      BY <1>4, <1>6, <2>2, <3>1 DEF Discover, Fail
  <2>3. CASE GetRefresh(a)
    <3>1. a # t
      BY <2>3
    <3>2. \E r : act' = [act EXCEPT ![a] = r]
      BY <2>3 DEF GetRefresh, Fail
    <3> QED
      BY <1>3, <3>1, <3>2
  <2>4. CASE Send(a)
    <3>1. act' = [act EXCEPT ![a] = Posting(a, None)] /\ Posting(a, None).use = None
      BY <2>4, PostCall DEF Send
    <3> QED
      BY <1>3, <3>1
  <2>5. CASE Receive(a)
    <3>1. CASE act' = [act EXCEPT ![a] = Idle]
      BY <1>4, <3>1
    <3>2. CASE Go(a, "persist")
      <4> DEFINE r == [act[a] EXCEPT !.pc = "persist"]
      <4>1. act' = [act EXCEPT ![a] = r] /\ r.use = act[a].use
        BY <3>2 DEF Go, TimeInv, CoreType, CallsOK, IsCall, CallFields
      <4> HIDE DEF r
      <4> QED
        BY <1>5, <2>5, <4>1 DEF Receive, Sent
    <3>3. ASSUME NEW wait,
                 act' = [act EXCEPT ![a] = [@ EXCEPT !.pc = "sleep", !.interval = wait, !.at = now + wait, !.got = None]]
          PROVE  LiveTask(act[t])
      <4> DEFINE r == [act[a] EXCEPT !.pc = "sleep", !.interval = wait, !.at = now + wait, !.got = None]
      <4>1. act' = [act EXCEPT ![a] = r] /\ r.pc = "sleep"
        BY <3>3 DEF TimeInv, CoreType, CallsOK, IsCall, CallFields
      <4> HIDE DEF r
      <4> QED
        BY <1>3, <4>1 DEF Sent
    <3> QED
      BY <2>5, <3>1, <3>2, <3>3 DEF Receive, Finish, Fail
  <2>6. CASE Persist(a)
    <3>1. CASE act' = [act EXCEPT ![a] = Idle]
      BY <1>4, <3>1
    <3>2. ASSUME NEW map, act' = [act EXCEPT ![a] = [@ EXCEPT !.pc = "write", !.snap = map]]
          PROVE  LiveTask(act[t])
      <4> DEFINE r == [act[a] EXCEPT !.pc = "write", !.snap = map]
      <4>1. act' = [act EXCEPT ![a] = r] /\ r.use = act[a].use
        BY <3>2 DEF TimeInv, CoreType, CallsOK, IsCall, CallFields
      <4> HIDE DEF r
      <4> QED
        BY <1>5, <2>6, <4>1 DEF Persist, Sent
    <3> QED
      BY <2>6, <3>1, <3>2 DEF Persist, Finish, Fail
  <2>7. CASE WriteFile(a)
    BY <1>4, <2>7 DEF WriteFile, Finish
  <2> QED
    BY <1>9, <2>1, <2>2, <2>3, <2>4, <2>5, <2>6, <2>7 DEF Step
<1>10. ASSUME NEW a \in Actors, Provider(a) PROVE LiveTask(act[t])
  BY <1>4, <1>8, <1>10 DEF Provider, ProviderRefuses, ProviderMints, RequestFails, Fail
<1>11. CASE ProviderGrants \/ ProviderWaits
  BY <1>8, <1>11 DEF ProviderGrants, ProviderWaits, Actors
<1>12. CASE Connect \/ AskDevice \/ AskLoopback \/ Poll \/ AcceptCallback \/ Interrupt
  <2>1. \E r : act' = [act EXCEPT ![Cli] = r]
    BY <1>12 DEF Connect, AskDevice, AskLoopback, Poll, AcceptCallback, Interrupt, Go, Fail
  <2> QED
    BY <1>1, <1>3, <2>1 DEF Actors
<1>13. CASE Restart
  BY <1>1, <1>2, <1>13 DEF Restart, Idle, Sent
<1>14. CASE Resolve
  <2>0. PICK s \in Tasks : \E k, id : act' = [act EXCEPT ![s] = [Idle EXCEPT !.pc = "lock", !.id = id, !.store = k]]
    BY <1>14 DEF Resolve
  <2>1. PICK k, id : act' = [act EXCEPT ![s] = [Idle EXCEPT !.pc = "lock", !.id = id, !.store = k]]
    BY <2>0
  <2> DEFINE r == [Idle EXCEPT !.pc = "lock", !.id = id, !.store = k]
  <2>2. r.pc = "lock" /\ s \in Actors
    BY DEF Idle, Actors
  <2> HIDE DEF r
  <2> QED
    BY <1>3, <2>1, <2>2 DEF r, Sent
<1>15. CASE Reload \/ KeyringFlips \/ Tick \/ UNCHANGED vars
  BY <1>7, <1>15 DEF Reload, KeyringFlips, Tick, vars
<1> QED
  BY <1>9, <1>10, <1>11, <1>12, <1>13, <1>14, <1>15 DEF Next

\* Whoever resolves the key finds the one the file was written with.
LEMMA KeyFound ==
  ASSUME KeysAgree, TimeInv, KeyInv, ~ring.on, NEW p \in {"engine", "cli"}
  PROVE  /\ ResolveKey(p) # "none"
         /\ disk.blob # NoBlob => ResolveKey(p) = disk.key /\ disk.blob.key = disk.key
         /\ setup.env["cli"] # "none" /\ (p = "cli" \/ disk.blob # NoBlob) => ResolveKey(p) = setup.env["cli"]
<1>1. setup.env["engine"] \in {"none", setup.env["cli"]}
  BY DEF KeysAgree, TimeInv, CoreType
<1> QED
  BY <1>1 DEF ResolveKey, KeyInv

\* Reading the file leaves it as it is, key and all.
LEMMA ReadKeepsKey ==
  ASSUME KeysAgree, TimeInv, KeepInv, KeyInv, ~ring.on, NEW p \in {"engine", "cli"}
  PROVE  AfterRead(p) = disk
<1>1. CASE disk.blob = NoBlob
  BY <1>1 DEF AfterRead
<1>2. CASE disk.blob # NoBlob
  <2>1. ResolveKey(p) = disk.key
    BY <1>2, KeyFound
  <2>2. disk = [key |-> disk.key, blob |-> disk.blob]
    BY DEF KeepInv, StoreShape
  <2> QED
    BY <1>2, <2>1, <2>2 DEF AfterRead
<1> QED
  BY <1>1, <1>2

\* What a step may do to the keyring's switch and to the file.
LEMMA DiskSteps ==
  ASSUME KeepInv, [Next]_vars
  PROVE  /\ setup' = setup
         /\ ring'.on = ring.on
         /\ \/ disk' = disk
            \/ \E a \in Actors : \/ disk' = AfterRead("engine") \/ disk' = AfterRead(Process(a))
                                 \/ WriteFile(a)
<1>1. setup' = setup
  BY DEF Next, Step, Provider, Resolve, Enter, Discover, GetRefresh, Send, Receive, Persist, WriteFile,
         ProviderRefuses, ProviderMints, RequestFails, ProviderGrants, ProviderWaits, Connect, AskDevice,
         AskLoopback, Poll, AcceptCallback, Reload, Restart, Interrupt, KeyringFlips, Tick, vars
<1>2. ring'.on = ring.on
  <2>1. ring' = ring \/ (\E x : ring' = [ring EXCEPT !.map = x]) \/ (\E x : ring' = [ring EXCEPT !.up = x])
    BY DEF Next, Step, Provider, Resolve, Enter, Discover, GetRefresh, Send, Receive, Persist, WriteFile,
           ProviderRefuses, ProviderMints, RequestFails, ProviderGrants, ProviderWaits, Connect, AskDevice,
           AskLoopback, Poll, AcceptCallback, Reload, Restart, Interrupt, KeyringFlips, Tick, vars
  <2> QED
    BY <2>1 DEF KeepInv, StoreShape
<1>3. \/ disk' = disk
      \/ \E a \in Actors : \/ disk' = AfterRead("engine") \/ disk' = AfterRead(Process(a))
                           \/ WriteFile(a)
  BY DEF Next, Step, Provider, Resolve, Enter, Discover, GetRefresh, Send, Receive, Persist,
         ProviderRefuses, ProviderMints, RequestFails, ProviderGrants, ProviderWaits, Connect, AskDevice,
         AskLoopback, Poll, AcceptCallback, Reload, Restart, Interrupt, KeyringFlips, Tick, vars
<1> QED
  BY <1>1, <1>2, <1>3

LEMMA KeyNext ==
  ASSUME KeysAgree, TimeInv, KeepInv, KeyInv, [Next]_vars
  PROVE  KeyInv'
<1> SUFFICES ASSUME ~ring.on
             PROVE  /\ disk'.blob # NoBlob =>
                          /\ disk'.key # "none" /\ disk'.blob.key = disk'.key
                          /\ setup.env["cli"] # "none" => disk'.key = setup.env["cli"]
                    /\ \A t \in Tasks : LiveTask(act'[t]) => disk'.blob # NoBlob
  BY DiskSteps DEF KeyInv, LiveTask, NoBlob
<1>1. \A a : Process(a) \in {"engine", "cli"}
  BY DEF Process
<1>2. CASE disk' = disk
  <2>1. ASSUME NEW t \in Tasks, LiveTask(act'[t]) PROVE disk.blob # NoBlob
    <3>1. CASE GetRefresh(t)
      <4>1. CASE Fail(t)
        <5>1. act'[t] = Idle
          BY <4>1 DEF Fail, TimeInv, CoreType, CallsOK, Actors
        <5> QED
          BY <2>1, <5>1 DEF LiveTask, Idle, Sent
      <4>2. CASE ~Fail(t)
        <5>1. StoreGet("engine", act[t].id).v # None
          BY <3>1, <4>2 DEF GetRefresh
        <5>2. StoreGet("engine", act[t].id).v = Find(disk.blob.map, act[t].id)
          BY DEF StoreGet, UsesKeyring, ReadAll, NoBlob
        <5>3. Find(NoBlob.map, act[t].id) = None
          BY NoneFound DEF NoBlob
        <5> QED
          BY <5>1, <5>2, <5>3
      <4> QED
        BY <4>1, <4>2
    <3>2. CASE ~GetRefresh(t)
      BY <2>1, <3>2, LiveByReading DEF KeyInv
    <3> QED
      BY <3>1, <3>2
  <2> QED
    BY <1>2, <2>1 DEF KeyInv
<1>3. ASSUME NEW a \in Actors, WriteFile(a) PROVE
                    /\ disk'.blob # NoBlob =>
                          /\ disk'.key # "none" /\ disk'.blob.key = disk'.key
                          /\ setup.env["cli"] # "none" => disk'.key = setup.env["cli"]
                    /\ disk'.blob # NoBlob
  <2> DEFINE k == ResolveKey(Process(a))
  <2>1. k # "none" /\ disk'.key = k /\ disk'.blob.key = k
    BY <1>1, <1>3, KeyFound DEF WriteFile, WriteAll
  <2>2. NoBlob.key = "none"
    BY DEF NoBlob
  <2>3. Process(a) = "cli" \/ disk.blob # NoBlob
    <3>1. CASE a = Cli
      BY <3>1 DEF Process
    <3>2. CASE a \in Tasks
      <4>1. Hand(a) /\ Live(a)
        BY <1>3, HandIsLive DEF KeepInv, CallInv, CallFits, GotFields, Hand, WriteFile
      <4>2. LiveTask(act[a])
        BY <3>2, <4>1, CliAssumption DEF Live, LiveCall
      <4> QED
        BY <3>2, <4>2 DEF KeyInv
    <3> QED
      BY <3>1, <3>2 DEF Actors
  <2>4. setup.env["cli"] # "none" => k = setup.env["cli"]
    BY <1>1, <2>3, KeyFound
  <2> HIDE DEF k
  <2> QED
    BY <2>1, <2>2, <2>4
<1>4. disk' = disk \/ \E a \in Actors : WriteFile(a)
  BY <1>1, DiskSteps, ReadKeepsKey
<1> QED
  BY <1>2, <1>3, <1>4

LEMMA KeyInit == Init => KeyInv
BY DEF Init, KeyInv, LiveTask, Idle, Sent, Actors

LEMMA KeptFollows ==
  ASSUME KeysAgree, TimeInv, KeepInv, KeyInv
  PROVE  RefreshKept
<1> SUFFICES ASSUME ring.on => ring.up, NEW i \in Ids \ contended, idp[i].grants > 0, ~InFlight(i)
             PROVE  StoreGet("engine", i) = [ok |-> TRUE, v |-> Current(i)]
  BY DEF RefreshKept
<1>1. \A a \in Actors : act[a].id = i => ~Hand(a)
  BY DEF InFlight, Hand, InHand, HasAnswer
<1>2. Newest(i, Value(i))
  BY <1>1 DEF KeepInv, QuietInv, StoredInv
<1>3. Current(i) = Value(i)
  <2>1. \A x, y \in idp[i].valid : x[1] = y[1] => x = y
    BY DEF KeepInv, ProviderInv
  <2>2. Current(i) \in idp[i].valid /\ Current(i)[1] = idp[i].grants
    BY <1>2 DEF Newest, Current
  <2> QED
    BY <1>2, <2>1, <2>2 DEF Newest
<1>4. CASE ring.on
  BY <1>3, <1>4 DEF StoreGet, UsesKeyring, Value
<1>5. CASE ~ring.on
  <2>1. ReadAll("engine").ok = TRUE
    BY <1>5, KeyFound DEF ReadAll
  <2>2. Find(ReadAll("engine").map, i) = Find(disk.blob.map, i)
    BY DEF ReadAll, NoBlob
  <2> QED
    BY <1>3, <1>5, <2>1, <2>2 DEF StoreGet, UsesKeyring, Value
<1> QED
  BY <1>4, <1>5

(* Unless a race, a crash or a lost answer came in between, the engine     *)
(* finds the refresh token its provider accepts, however often it was      *)
(* rotated, connected again, reloaded or restarted: for any variables,     *)
(* tasks, setups and faults, as long as PAWRLY_TOKEN_KEY is not set for    *)
(* the engine to anything but what the command line has.                   *)
THEOREM RefreshTokensAreKept == ASSUME KeysAgree PROVE Spec => []RefreshKept
<1>1. TimeInv /\ KeepInv /\ KeyInv /\ [Next]_vars => KeyInv'
  BY KeyNext
<1>2. TimeInv /\ KeepInv /\ KeyInv => RefreshKept
  BY KeptFollows
<1>3. Init => KeyInv
  BY KeyInit
<1> QED
  BY <1>1, <1>2, <1>3, TokensAgeInTime, TokensHaveOneHolder, PTL DEF Spec

=============================================================================
