---------------------------- MODULE QueryProofs ----------------------------
(***************************************************************************)
(* Proofs about QueryLifecycle and about McpQueries, which composes it     *)
(* with MCP tool calls, for every set of queries and ids, every length of  *)
(* result and every capacity of the activity channel.                      *)
(*                                                                         *)
(* The lifecycle: the guard of a query goes away once (Ended), on a path   *)
(* that marks it ok only where nothing failed (StageInv); a cancel that    *)
(* takes effect leaves the query on the paths that do not (DoomInv); and   *)
(* each guard leaves one record in the channel, in the log or among the    *)
(* dropped ones (ChannelInv, OnceInv, CountInv).                           *)
(*                                                                         *)
(* The calls: whatever run_cancellable does to a query is a step of the    *)
(* engine's query lifecycle or leaves it alone (StepRefines), so what was  *)
(* proved of the lifecycle holds of the composition.  A call that is over  *)
(* has dropped its future, and with it the engine's guard; and as long as  *)
(* clients give different ids to calls under way, the registry leads from  *)
(* the id of a running call to its own token (TokenInv).                   *)
(***************************************************************************)
EXTENDS McpQueries, FiniteSetTheorems, SequenceTheorems, TLAPS

Ended == {q \in Queries : stage[q] \in {"closing", "done"}}

InChannel(q) == \E i \in DOMAIN channel : channel[i].query = q

Recorded == {q \in Queries : InChannel(q) \/ log[q] = 1}

(* Until its stream has failed a query has no error, and it is ok only     *)
(* once its guard is dropped.                                              *)
StageInv ==
    \A q \in Queries :
        /\ stage[q] \in {"new", "planning", "ready", "inner"} => code[q] = "none" /\ ~emitted[q]
        /\ stage[q] # "closing" => status[q] = "error"
        /\ stage[q] = "done" => ~emitted[q]

(* A query whose cancel was seen between two polls is on its way out. *)
DoomInv ==
    \A q \in doomed : stage[q] \in {"ready", "failed", "closing"} /\ flag[q] /\ status[q] = "error"

(* The registry holds the queries from their submission to the very end. *)
RegistryInv == registry = {q \in Queries : stage[q] \notin {"new", "done"}}

(* The active count is that of the queries whose guard is alive. *)
ActiveInv == IsFiniteSet(Live) /\ active = Cardinality(Live)

(* A record in the channel is of a query that has ended, and tells the     *)
(* truth about it.                                                         *)
RecordInv(r) ==
    /\ stage[r.query] \in {"closing", "done"}
    /\ r.status = "ok" => r.code = "none" /\ ~emitted[r.query]
    /\ r.status = "ok" /\ stage[r.query] = "closing" => r.rows = seen[r.query]
    /\ completion[r.query] = r.rows

ChannelInv == \A i \in DOMAIN channel : RecordInv(channel[i])

(* A query has one record in the channel or one in the log, not both. *)
OnceInv ==
    /\ \A i, j \in DOMAIN channel : channel[i].query = channel[j].query => i = j
    /\ \A q \in Queries : log[q] # 0 => log[q] = 1 /\ stage[q] \in {"closing", "done"} /\ ~InChannel(q)

(* The records and the drops account for the ended queries. *)
CountInv ==
    /\ IsFiniteSet(Ended)
    /\ Cardinality(Recorded) + dropped = Cardinality(Ended)

IInv ==
    /\ TypeOK
    /\ StageInv
    /\ DoomInv
    /\ RegistryInv
    /\ ActiveInv
    /\ ChannelInv
    /\ OnceInv
    /\ CountInv

-----------------------------------------------------------------------------
(* Drop for QueryGuard, on whichever path: with status s and code c.       *)
Statuses == {"ok", "error"}

Ends(q, s, c) ==
    /\ q \in Live
    /\ s = "ok" => stage[q] = "inner" /\ c = "none"
    /\ DropGuard(q, s, c)
    /\ UNCHANGED <<registry, flag, doomed, seen, emitted, log>>

(* A guard is dropped by a failed or abandoned planning, at the end of the *)
(* stream, or with the stream; only the end of the stream is ok.           *)
LEMMA EndsCases ==
    ASSUME TypeOK, StageInv, NEW q \in Queries,
           PlanFails(q) \/ Abandon(q) \/ InnerEnd(q) \/ DropStream(q)
    PROVE  \E s \in Statuses, c \in Codes : Ends(q, s, c)
<1> USE DEF Ends, Live, Statuses, Codes
<1>1. CASE PlanFails(q)
  <2>1. Ends(q, "error", "failed")
    BY <1>1 DEF PlanFails
  <2>2. QED
    BY <2>1
<1>2. CASE Abandon(q)
  <2>1. Ends(q, "error", "none")
    BY <1>2 DEF Abandon
  <2>2. QED
    BY <2>1
<1>3. CASE InnerEnd(q)
  <2>1. code[q] = "none"
    BY <1>3 DEF InnerEnd, StageInv
  <2>2. Ends(q, "ok", code[q])
    BY <1>3, <2>1 DEF InnerEnd
  <2>3. QED
    BY <2>1, <2>2
<1>4. CASE DropStream(q)
  <2>1. status[q] = "error" /\ code[q] \in Codes
    BY <1>4 DEF DropStream, StageInv, TypeOK
  <2>2. Ends(q, status[q], code[q])
    BY <1>4, <2>1 DEF DropStream
  <2>3. QED
    BY <2>1, <2>2
<1>5. QED
  BY <1>1, <1>2, <1>3, <1>4

(* The record of a dropped guard. *)
RecordOf(q, s, c) ==
    [query |-> q, status |-> s, code |-> c, rows |-> IF s = "ok" THEN seen[q] ELSE 0]

(* emit appends the record to the channel, or counts it as dropped. *)
LEMMA EmitIs ==
    ASSUME TypeOK, NEW q \in Queries, NEW s \in Statuses, NEW c \in Codes, Ends(q, s, c)
    PROVE  /\ RecordOf(q, s, c) \in Record
           /\ channel' \in Seq(Record)
           /\ dropped' \in Nat
           /\ \/ /\ DOMAIN channel' = DOMAIN channel \cup {Len(channel) + 1}
                 /\ \A i \in DOMAIN channel : channel'[i] = channel[i]
                 /\ channel'[Len(channel) + 1] = RecordOf(q, s, c)
                 /\ Len(channel) + 1 \notin DOMAIN channel
                 /\ dropped' = dropped
              \/ channel' = channel /\ dropped' = dropped + 1
<1> DEFINE r == RecordOf(q, s, c)
<1>1. r \in Record
  BY DEF TypeOK, Record, RecordOf, Statuses
<1>2. Emit(r)
  BY DEF Ends, DropGuard, RecordOf
<1> HIDE DEF r
<1>3. CASE Len(channel) < Capacity
  <2>1. channel' = Append(channel, r) /\ dropped' = dropped /\ channel \in Seq(Record)
    BY <1>2, <1>3 DEF Emit, TypeOK
  <2>2. channel' \in Seq(Record) /\ Len(channel') = Len(channel) + 1
    BY <1>1, <2>1, AppendProperties
  <2>3. DOMAIN channel = 1..Len(channel) /\ DOMAIN channel' = 1..Len(channel') /\ Len(channel) \in Nat
    BY <2>1, <2>2, LenProperties
  <2>4. channel'[Len(channel) + 1] = r /\ \A i \in DOMAIN channel : channel'[i] = channel[i]
    BY <1>1, <2>1, <2>3, AppendProperties
  <2>5. DOMAIN channel' = DOMAIN channel \cup {Len(channel) + 1} /\ Len(channel) + 1 \notin DOMAIN channel
    BY <2>2, <2>3
  <2>6. QED
    BY <1>1, <2>1, <2>2, <2>4, <2>5 DEF r, TypeOK
<1>4. CASE ~(Len(channel) < Capacity)
  BY <1>1, <1>2, <1>4 DEF Emit, TypeOK, r
<1>5. QED
  BY <1>3, <1>4

(* The drain takes the oldest record. *)
LEMMA DrainIs ==
    ASSUME TypeOK, Drain
    PROVE  /\ channel' \in Seq(Record)
           /\ 1 \in DOMAIN channel
           /\ channel[1] \in Record
           /\ log' = [log EXCEPT ![channel[1].query] = @ + 1]
           /\ log' \in [Queries -> Nat]
           /\ \A i \in DOMAIN channel' : i + 1 \in DOMAIN channel /\ channel'[i] = channel[i + 1]
           /\ \A i \in DOMAIN channel : i # 1 => i - 1 \in DOMAIN channel' /\ channel'[i - 1] = channel[i]
<1>1. channel \in Seq(Record) /\ channel # <<>> /\ channel' = Tail(channel)
  BY DEF TypeOK, Drain
<1>2. Len(channel) \in Nat \ {0} /\ DOMAIN channel = 1..Len(channel)
  BY <1>1, EmptySeq, LenProperties
<1>3. channel' \in Seq(Record) /\ Len(channel') = Len(channel) - 1
  BY <1>1, HeadTailProperties
<1>4. DOMAIN channel' = 1..(Len(channel) - 1)
  BY <1>3, LenProperties
<1>5. \A i \in DOMAIN channel' : channel'[i] = channel[i + 1]
  BY <1>1, <1>3, <1>4, HeadTailProperties
<1>6. 1 \in DOMAIN channel /\ channel[1] = Head(channel) /\ channel[1] \in Record
  BY <1>1, <1>2, ElementOfSeq
<1>7. \A i \in DOMAIN channel : i # 1 => i - 1 \in DOMAIN channel' /\ i - 1 + 1 = i
  BY <1>2, <1>4
<1>8. log' = [log EXCEPT ![channel[1].query] = @ + 1]
  BY <1>6 DEF Drain
<1>9. log' \in [Queries -> Nat]
  BY <1>6, <1>8 DEF Record, TypeOK
<1>10. QED
  BY <1>2, <1>3, <1>4, <1>5, <1>6, <1>7, <1>8, <1>9

(* What the records of the channel say of their queries. *)
LEMMA RecordTyped ==
    ASSUME TypeOK
    PROVE  \A i \in DOMAIN channel : channel[i] \in Record /\ channel[i].query \in Queries
<1>1. channel \in Seq(Record)
  BY DEF TypeOK
<1>2. \A i \in DOMAIN channel : channel[i] \in Record
  BY <1>1, LenProperties, ElementOfSeq
<1>3. QED
  BY <1>2 DEF Record

-----------------------------------------------------------------------------
(* Preservation, one lemma per part of the invariant. *)

(* Every step keeps the variables in their ranges. *)
LEMMA TypeNext ==
    ASSUME TypeOK, StageInv, [Next]_vars
    PROVE  TypeOK'
<1> USE DEF TypeOK, Stages, Codes, Statuses
<1>1. ASSUME NEW q \in Queries, Submit(q) PROVE TypeOK'
  BY <1>1 DEF Submit, Move
<1>2. ASSUME NEW q \in Queries, Plan(q) PROVE TypeOK'
  BY <1>2 DEF Plan, Move
<1>3. ASSUME NEW q \in Queries, Cancel(q) PROVE TypeOK'
  BY <1>3 DEF Cancel
<1>4. ASSUME NEW q \in Queries, PollInner(q) PROVE TypeOK'
  BY <1>4 DEF PollInner, Move
<1>5. ASSUME NEW q \in Queries, PollCancelled(q) PROVE TypeOK'
  BY <1>5 DEF PollCancelled, Move
<1>6. ASSUME NEW q \in Queries, InnerPending(q) PROVE TypeOK'
  BY <1>6 DEF InnerPending, Return, Move
<1>7. ASSUME NEW q \in Queries, InnerBatch(q) PROVE TypeOK'
  BY <1>7 DEF InnerBatch, Return, Move
<1>8. ASSUME NEW q \in Queries, InnerError(q) PROVE TypeOK'
  BY <1>8 DEF InnerError, Move
<1>9. ASSUME NEW q \in Queries, Deregister(q) PROVE TypeOK'
  BY <1>9 DEF Deregister, Move
<1>10. ASSUME NEW q \in Queries, NEW s \in Statuses, NEW c \in Codes, Ends(q, s, c) PROVE TypeOK'
  <2> HIDE DEF TypeOK, Codes, Statuses
  <2>1. channel' \in Seq(Record) /\ dropped' \in Nat
    BY <1>10, EmitIs
  <2>2. QED
    BY <1>10, <2>1 DEF TypeOK, Codes, Statuses, Ends, DropGuard, Move
<1>11. ASSUME Drain PROVE TypeOK'
  <2> HIDE DEF TypeOK
  <2>1. channel' \in Seq(Record) /\ log' \in [Queries -> Nat]
    BY <1>11, DrainIs
  <2>2. QED
    BY <1>11, <2>1 DEF TypeOK, Drain
<1>12. ASSUME UNCHANGED vars PROVE TypeOK'
  BY <1>12 DEF vars
<1>13. QED
  BY <1>1, <1>2, <1>3, <1>4, <1>5, <1>6, <1>7, <1>8, <1>9, <1>10, <1>11,
     <1>12, EndsCases
  DEF Next, Progress, Consume, Done

(* A query has no error before its stream fails, and is ok only at its end. *)
LEMMA StageNext ==
    ASSUME TypeOK, StageInv, [Next]_vars
    PROVE  StageInv'
<1> USE DEF TypeOK, StageInv, Live
<1>1. ASSUME NEW q \in Queries, Submit(q) PROVE StageInv'
  BY <1>1 DEF Submit, Move
<1>2. ASSUME NEW q \in Queries, Plan(q) PROVE StageInv'
  BY <1>2 DEF Plan, Move
<1>3. ASSUME NEW q \in Queries, Cancel(q) PROVE StageInv'
  BY <1>3 DEF Cancel
<1>4. ASSUME NEW q \in Queries, PollInner(q) PROVE StageInv'
  BY <1>4 DEF PollInner, Move
<1>5. ASSUME NEW q \in Queries, PollCancelled(q) PROVE StageInv'
  BY <1>5 DEF PollCancelled, Move
<1>6. ASSUME NEW q \in Queries, InnerPending(q) PROVE StageInv'
  BY <1>6 DEF InnerPending, Return, Move
<1>7. ASSUME NEW q \in Queries, InnerBatch(q) PROVE StageInv'
  BY <1>7 DEF InnerBatch, Return, Move
<1>8. ASSUME NEW q \in Queries, InnerError(q) PROVE StageInv'
  BY <1>8 DEF InnerError, Move
<1>9. ASSUME NEW q \in Queries, Deregister(q) PROVE StageInv'
  BY <1>9 DEF Deregister, Move
<1>10. ASSUME NEW q \in Queries, NEW s \in Statuses, NEW c \in Codes, Ends(q, s, c) PROVE StageInv'
  BY <1>10 DEF Ends, DropGuard, Move
<1>11. ASSUME Drain PROVE StageInv'
  BY <1>11 DEF Drain
<1>12. ASSUME UNCHANGED vars PROVE StageInv'
  BY <1>12 DEF vars
<1>13. QED
  BY <1>1, <1>2, <1>3, <1>4, <1>5, <1>6, <1>7, <1>8, <1>9, <1>10, <1>11,
     <1>12, EndsCases
  DEF Next, Progress, Consume, Done

(* No step takes a doomed query off the way out. *)
LEMMA DoomNext ==
    ASSUME TypeOK, StageInv, DoomInv, [Next]_vars
    PROVE  DoomInv'
<1> USE DEF TypeOK, StageInv, DoomInv, Live, Statuses
<1>1. ASSUME NEW q \in Queries, Submit(q) PROVE DoomInv'
  BY <1>1 DEF Submit, Move
<1>2. ASSUME NEW q \in Queries, Plan(q) PROVE DoomInv'
  BY <1>2 DEF Plan, Move
<1>3. ASSUME NEW q \in Queries, Cancel(q) PROVE DoomInv'
  BY <1>3 DEF Cancel
<1>4. ASSUME NEW q \in Queries, PollInner(q) PROVE DoomInv'
  BY <1>4 DEF PollInner, Move
<1>5. ASSUME NEW q \in Queries, PollCancelled(q) PROVE DoomInv'
  BY <1>5 DEF PollCancelled, Move
<1>6. ASSUME NEW q \in Queries, InnerPending(q) PROVE DoomInv'
  BY <1>6 DEF InnerPending, Return, Move
<1>7. ASSUME NEW q \in Queries, InnerBatch(q) PROVE DoomInv'
  BY <1>7 DEF InnerBatch, Return, Move
<1>8. ASSUME NEW q \in Queries, InnerError(q) PROVE DoomInv'
  BY <1>8 DEF InnerError, Move
<1>9. ASSUME NEW q \in Queries, Deregister(q) PROVE DoomInv'
  BY <1>9 DEF Deregister, Move
<1>10. ASSUME NEW q \in Queries, NEW s \in Statuses, NEW c \in Codes, Ends(q, s, c) PROVE DoomInv'
  BY <1>10 DEF Ends, DropGuard, Move
<1>11. ASSUME Drain PROVE DoomInv'
  BY <1>11 DEF Drain
<1>12. ASSUME UNCHANGED vars PROVE DoomInv'
  BY <1>12 DEF vars
<1>13. QED
  BY <1>1, <1>2, <1>3, <1>4, <1>5, <1>6, <1>7, <1>8, <1>9, <1>10, <1>11,
     <1>12, EndsCases
  DEF Next, Progress, Consume, Done

(* Submit registers a query, and its last step removes it. *)
LEMMA RegistryNext ==
    ASSUME TypeOK, StageInv, RegistryInv, [Next]_vars
    PROVE  RegistryInv'
<1> USE DEF TypeOK, RegistryInv, Live
<1>1. ASSUME NEW q \in Queries, Submit(q) PROVE RegistryInv'
  BY <1>1 DEF Submit, Move
<1>2. ASSUME NEW q \in Queries, Plan(q) PROVE RegistryInv'
  BY <1>2 DEF Plan, Move
<1>3. ASSUME NEW q \in Queries, Cancel(q) PROVE RegistryInv'
  BY <1>3 DEF Cancel
<1>4. ASSUME NEW q \in Queries, PollInner(q) PROVE RegistryInv'
  BY <1>4 DEF PollInner, Move
<1>5. ASSUME NEW q \in Queries, PollCancelled(q) PROVE RegistryInv'
  BY <1>5 DEF PollCancelled, Move
<1>6. ASSUME NEW q \in Queries, InnerPending(q) PROVE RegistryInv'
  BY <1>6 DEF InnerPending, Return, Move
<1>7. ASSUME NEW q \in Queries, InnerBatch(q) PROVE RegistryInv'
  BY <1>7 DEF InnerBatch, Return, Move
<1>8. ASSUME NEW q \in Queries, InnerError(q) PROVE RegistryInv'
  BY <1>8 DEF InnerError, Move
<1>9. ASSUME NEW q \in Queries, Deregister(q) PROVE RegistryInv'
  BY <1>9 DEF Deregister, Move
<1>10. ASSUME NEW q \in Queries, NEW s \in Statuses, NEW c \in Codes, Ends(q, s, c) PROVE RegistryInv'
  BY <1>10 DEF Ends, DropGuard, Move
<1>11. ASSUME Drain PROVE RegistryInv'
  BY <1>11 DEF Drain
<1>12. ASSUME UNCHANGED vars PROVE RegistryInv'
  BY <1>12 DEF vars
<1>13. QED
  BY <1>1, <1>2, <1>3, <1>4, <1>5, <1>6, <1>7, <1>8, <1>9, <1>10, <1>11,
     <1>12, EndsCases
  DEF Next, Progress, Consume, Done

(* The active count follows the guards. *)
LEMMA ActiveNext ==
    ASSUME TypeOK, StageInv, ActiveInv, [Next]_vars
    PROVE  ActiveInv'
<1> USE DEF TypeOK, ActiveInv
<1>1. ASSUME NEW q \in Queries, Submit(q) PROVE ActiveInv'
  <2>1. Live' = Live \cup {q} /\ q \notin Live /\ active' = active + 1
    BY <1>1 DEF Submit, Move, Live
  <2>2. QED
    BY <2>1, FS_AddElement
<1>2. ASSUME NEW q \in Queries, Plan(q) PROVE ActiveInv'
  <2>1. Live' = Live /\ active' = active
    BY <1>2 DEF Plan, Move, Live
  <2>2. QED
    BY <2>1
<1>3. ASSUME NEW q \in Queries, Cancel(q) PROVE ActiveInv'
  <2>1. Live' = Live /\ active' = active
    BY <1>3 DEF Cancel, Live
  <2>2. QED
    BY <2>1
<1>4. ASSUME NEW q \in Queries, PollInner(q) PROVE ActiveInv'
  <2>1. Live' = Live /\ active' = active
    BY <1>4 DEF PollInner, Move, Live
  <2>2. QED
    BY <2>1
<1>5. ASSUME NEW q \in Queries, PollCancelled(q) PROVE ActiveInv'
  <2>1. Live' = Live /\ active' = active
    BY <1>5 DEF PollCancelled, Move, Live
  <2>2. QED
    BY <2>1
<1>6. ASSUME NEW q \in Queries, InnerPending(q) PROVE ActiveInv'
  <2>1. Live' = Live /\ active' = active
    BY <1>6 DEF InnerPending, Return, Move, Live
  <2>2. QED
    BY <2>1
<1>7. ASSUME NEW q \in Queries, InnerBatch(q) PROVE ActiveInv'
  <2>1. Live' = Live /\ active' = active
    BY <1>7 DEF InnerBatch, Return, Move, Live
  <2>2. QED
    BY <2>1
<1>8. ASSUME NEW q \in Queries, InnerError(q) PROVE ActiveInv'
  <2>1. Live' = Live /\ active' = active
    BY <1>8 DEF InnerError, Move, Live
  <2>2. QED
    BY <2>1
<1>9. ASSUME NEW q \in Queries, Deregister(q) PROVE ActiveInv'
  <2>1. Live' = Live /\ active' = active
    BY <1>9 DEF Deregister, Move, Live
  <2>2. QED
    BY <2>1
<1>10. ASSUME NEW q \in Queries, NEW s \in Statuses, NEW c \in Codes, Ends(q, s, c) PROVE ActiveInv'
  <2>1. Live' = Live \ {q} /\ q \in Live /\ active' = active - 1
    BY <1>10 DEF Ends, DropGuard, Move, Live
  <2>2. QED
    BY <2>1, FS_RemoveElement
<1>11. ASSUME Drain PROVE ActiveInv'
  <2>1. Live' = Live /\ active' = active
    BY <1>11 DEF Drain, Live
  <2>2. QED
    BY <2>1
<1>12. ASSUME UNCHANGED vars PROVE ActiveInv'
  <2>1. Live' = Live /\ active' = active
    BY <1>12 DEF vars, Live
  <2>2. QED
    BY <2>1
<1>13. QED
  BY <1>1, <1>2, <1>3, <1>4, <1>5, <1>6, <1>7, <1>8, <1>9, <1>10, <1>11,
     <1>12, EndsCases
  DEF Next, Progress, Consume, Done

(* A query that has ended keeps what its record says of it. *)
LEMMA RecordNext ==
    ASSUME TypeOK, StageInv, NEW r \in Record, RecordInv(r), [Next]_vars
    PROVE  RecordInv(r)'
<1> USE DEF TypeOK, RecordInv, Record, Live
<1>1. ASSUME NEW q \in Queries, Submit(q) PROVE RecordInv(r)'
  BY <1>1 DEF Submit, Move
<1>2. ASSUME NEW q \in Queries, Plan(q) PROVE RecordInv(r)'
  BY <1>2 DEF Plan, Move
<1>3. ASSUME NEW q \in Queries, Cancel(q) PROVE RecordInv(r)'
  BY <1>3 DEF Cancel
<1>4. ASSUME NEW q \in Queries, PollInner(q) PROVE RecordInv(r)'
  BY <1>4 DEF PollInner, Move
<1>5. ASSUME NEW q \in Queries, PollCancelled(q) PROVE RecordInv(r)'
  BY <1>5 DEF PollCancelled, Move
<1>6. ASSUME NEW q \in Queries, InnerPending(q) PROVE RecordInv(r)'
  BY <1>6 DEF InnerPending, Return, Move
<1>7. ASSUME NEW q \in Queries, InnerBatch(q) PROVE RecordInv(r)'
  BY <1>7 DEF InnerBatch, Return, Move
<1>8. ASSUME NEW q \in Queries, InnerError(q) PROVE RecordInv(r)'
  BY <1>8 DEF InnerError, Move
<1>9. ASSUME NEW q \in Queries, Deregister(q) PROVE RecordInv(r)'
  BY <1>9 DEF Deregister, Move
<1>10. ASSUME NEW q \in Queries, NEW s \in Statuses, NEW c \in Codes, Ends(q, s, c) PROVE RecordInv(r)'
  BY <1>10 DEF Ends, DropGuard, Move
<1>11. ASSUME Drain PROVE RecordInv(r)'
  BY <1>11 DEF Drain
<1>12. ASSUME UNCHANGED vars PROVE RecordInv(r)'
  BY <1>12 DEF vars
<1>13. QED
  BY <1>1, <1>2, <1>3, <1>4, <1>5, <1>6, <1>7, <1>8, <1>9, <1>10, <1>11,
     <1>12, EndsCases
  DEF Next, Progress, Consume, Done

(* The records in the channel stay true. *)
LEMMA ChannelNext ==
    ASSUME TypeOK, StageInv, ChannelInv, [Next]_vars
    PROVE  ChannelInv'
<1>1. ASSUME NEW q \in Queries, Submit(q) PROVE ChannelInv'
  <2>1. channel' = channel
    BY <1>1 DEF Submit, Move
  <2>2. QED
    BY <2>1, RecordNext, RecordTyped DEF ChannelInv
<1>2. ASSUME NEW q \in Queries, Plan(q) PROVE ChannelInv'
  <2>1. channel' = channel
    BY <1>2 DEF Plan, Move
  <2>2. QED
    BY <2>1, RecordNext, RecordTyped DEF ChannelInv
<1>3. ASSUME NEW q \in Queries, Cancel(q) PROVE ChannelInv'
  <2>1. channel' = channel
    BY <1>3 DEF Cancel
  <2>2. QED
    BY <2>1, RecordNext, RecordTyped DEF ChannelInv
<1>4. ASSUME NEW q \in Queries, PollInner(q) PROVE ChannelInv'
  <2>1. channel' = channel
    BY <1>4 DEF PollInner, Move
  <2>2. QED
    BY <2>1, RecordNext, RecordTyped DEF ChannelInv
<1>5. ASSUME NEW q \in Queries, PollCancelled(q) PROVE ChannelInv'
  <2>1. channel' = channel
    BY <1>5 DEF PollCancelled, Move
  <2>2. QED
    BY <2>1, RecordNext, RecordTyped DEF ChannelInv
<1>6. ASSUME NEW q \in Queries, InnerPending(q) PROVE ChannelInv'
  <2>1. channel' = channel
    BY <1>6 DEF InnerPending, Return, Move
  <2>2. QED
    BY <2>1, RecordNext, RecordTyped DEF ChannelInv
<1>7. ASSUME NEW q \in Queries, InnerBatch(q) PROVE ChannelInv'
  <2>1. channel' = channel
    BY <1>7 DEF InnerBatch, Return, Move
  <2>2. QED
    BY <2>1, RecordNext, RecordTyped DEF ChannelInv
<1>8. ASSUME NEW q \in Queries, InnerError(q) PROVE ChannelInv'
  <2>1. channel' = channel
    BY <1>8 DEF InnerError, Move
  <2>2. QED
    BY <2>1, RecordNext, RecordTyped DEF ChannelInv
<1>9. ASSUME NEW q \in Queries, Deregister(q) PROVE ChannelInv'
  <2>1. channel' = channel
    BY <1>9 DEF Deregister, Move
  <2>2. QED
    BY <2>1, RecordNext, RecordTyped DEF ChannelInv
<1>10. ASSUME NEW q \in Queries, NEW s \in Statuses, NEW c \in Codes, Ends(q, s, c) PROVE ChannelInv'
  <2>1. ASSUME NEW i \in DOMAIN channel, NEW r \in Record, r = channel[i] PROVE RecordInv(r)'
    BY <2>1, RecordNext DEF ChannelInv
  <2>2. ASSUME NEW r \in Record, r = RecordOf(q, s, c) PROVE RecordInv(r)'
    BY <1>10, <2>2 DEF Ends, DropGuard, Move, RecordOf, RecordInv, StageInv, TypeOK, Live, Statuses
  <2>3. \A i \in DOMAIN channel' : channel'[i] = RecordOf(q, s, c) \/ (i \in DOMAIN channel /\ channel'[i] = channel[i])
    BY <1>10, EmitIs
  <2>4. \A i \in DOMAIN channel' : \E r \in Record : r = channel'[i] /\ RecordInv(r)'
    BY <1>10, <2>1, <2>2, <2>3, EmitIs, RecordTyped
  <2>5. QED
    BY <2>4 DEF ChannelInv, RecordInv
<1>11. ASSUME Drain PROVE ChannelInv'
  <2>1. ASSUME NEW i \in DOMAIN channel, NEW r \in Record, r = channel[i] PROVE RecordInv(r)'
    BY <2>1, RecordNext DEF ChannelInv
  <2>2. \A i \in DOMAIN channel' : i + 1 \in DOMAIN channel /\ channel'[i] = channel[i + 1]
    BY <1>11, DrainIs
  <2>3. \A i \in DOMAIN channel' : \E r \in Record : r = channel'[i] /\ RecordInv(r)'
    BY <2>1, <2>2, RecordTyped
  <2>4. QED
    BY <2>3 DEF ChannelInv, RecordInv
<1>12. ASSUME UNCHANGED vars PROVE ChannelInv'
  <2>1. channel' = channel
    BY <1>12 DEF vars
  <2>2. QED
    BY <2>1, RecordNext, RecordTyped DEF ChannelInv
<1>13. QED
  BY <1>1, <1>2, <1>3, <1>4, <1>5, <1>6, <1>7, <1>8, <1>9, <1>10, <1>11,
     <1>12, EndsCases
  DEF Next, Progress, Consume, Done

(* No query is recorded twice. *)
LEMMA OnceNext ==
    ASSUME TypeOK, StageInv, ChannelInv, OnceInv, [Next]_vars
    PROVE  OnceInv'
<1>1. ASSUME NEW q \in Queries, Submit(q) PROVE OnceInv'
  <2>1. channel' = channel /\ log' = log
    BY <1>1 DEF Submit, Move
  <2>2. \A p \in Queries : stage[p] \in {"closing", "done"} => stage'[p] \in {"closing", "done"}
    BY <1>1 DEF Submit, Move, TypeOK
  <2>3. QED
    BY <2>1, <2>2 DEF OnceInv, InChannel
<1>2. ASSUME NEW q \in Queries, Plan(q) PROVE OnceInv'
  <2>1. channel' = channel /\ log' = log
    BY <1>2 DEF Plan, Move
  <2>2. \A p \in Queries : stage[p] \in {"closing", "done"} => stage'[p] \in {"closing", "done"}
    BY <1>2 DEF Plan, Move, TypeOK
  <2>3. QED
    BY <2>1, <2>2 DEF OnceInv, InChannel
<1>3. ASSUME NEW q \in Queries, Cancel(q) PROVE OnceInv'
  <2>1. channel' = channel /\ log' = log
    BY <1>3 DEF Cancel
  <2>2. \A p \in Queries : stage[p] \in {"closing", "done"} => stage'[p] \in {"closing", "done"}
    BY <1>3 DEF Cancel, TypeOK
  <2>3. QED
    BY <2>1, <2>2 DEF OnceInv, InChannel
<1>4. ASSUME NEW q \in Queries, PollInner(q) PROVE OnceInv'
  <2>1. channel' = channel /\ log' = log
    BY <1>4 DEF PollInner, Move
  <2>2. \A p \in Queries : stage[p] \in {"closing", "done"} => stage'[p] \in {"closing", "done"}
    BY <1>4 DEF PollInner, Move, TypeOK
  <2>3. QED
    BY <2>1, <2>2 DEF OnceInv, InChannel
<1>5. ASSUME NEW q \in Queries, PollCancelled(q) PROVE OnceInv'
  <2>1. channel' = channel /\ log' = log
    BY <1>5 DEF PollCancelled, Move
  <2>2. \A p \in Queries : stage[p] \in {"closing", "done"} => stage'[p] \in {"closing", "done"}
    BY <1>5 DEF PollCancelled, Move, TypeOK
  <2>3. QED
    BY <2>1, <2>2 DEF OnceInv, InChannel
<1>6. ASSUME NEW q \in Queries, InnerPending(q) PROVE OnceInv'
  <2>1. channel' = channel /\ log' = log
    BY <1>6 DEF InnerPending, Return, Move
  <2>2. \A p \in Queries : stage[p] \in {"closing", "done"} => stage'[p] \in {"closing", "done"}
    BY <1>6 DEF InnerPending, Return, Move, TypeOK
  <2>3. QED
    BY <2>1, <2>2 DEF OnceInv, InChannel
<1>7. ASSUME NEW q \in Queries, InnerBatch(q) PROVE OnceInv'
  <2>1. channel' = channel /\ log' = log
    BY <1>7 DEF InnerBatch, Return, Move
  <2>2. \A p \in Queries : stage[p] \in {"closing", "done"} => stage'[p] \in {"closing", "done"}
    BY <1>7 DEF InnerBatch, Return, Move, TypeOK
  <2>3. QED
    BY <2>1, <2>2 DEF OnceInv, InChannel
<1>8. ASSUME NEW q \in Queries, InnerError(q) PROVE OnceInv'
  <2>1. channel' = channel /\ log' = log
    BY <1>8 DEF InnerError, Move
  <2>2. \A p \in Queries : stage[p] \in {"closing", "done"} => stage'[p] \in {"closing", "done"}
    BY <1>8 DEF InnerError, Move, TypeOK
  <2>3. QED
    BY <2>1, <2>2 DEF OnceInv, InChannel
<1>9. ASSUME NEW q \in Queries, Deregister(q) PROVE OnceInv'
  <2>1. channel' = channel /\ log' = log
    BY <1>9 DEF Deregister, Move
  <2>2. \A p \in Queries : stage[p] \in {"closing", "done"} => stage'[p] \in {"closing", "done"}
    BY <1>9 DEF Deregister, Move, TypeOK
  <2>3. QED
    BY <2>1, <2>2 DEF OnceInv, InChannel
<1>10. ASSUME NEW q \in Queries, NEW s \in Statuses, NEW c \in Codes, Ends(q, s, c) PROVE OnceInv'
  <2>1. ~InChannel(q) /\ log[q] = 0
    BY <1>10 DEF Ends, Live, InChannel, ChannelInv, RecordInv, OnceInv
  <2>2. log' = log /\ stage' = [stage EXCEPT ![q] = "closing"]
    BY <1>10 DEF Ends, DropGuard, Move
  <2>3. CASE channel' = channel
    BY <2>2, <2>3 DEF OnceInv, InChannel, TypeOK
  <2>4. CASE channel' # channel
    <3> DEFINE n == Len(channel) + 1
    <3>1. /\ DOMAIN channel' = DOMAIN channel \cup {n} /\ n \notin DOMAIN channel
          /\ \A i \in DOMAIN channel : channel'[i] = channel[i]
          /\ channel'[n] = RecordOf(q, s, c)
      BY <1>10, <2>4, EmitIs
    <3>2. channel'[n].query = q
      BY <3>1 DEF RecordOf
    <3> HIDE DEF n
    <3>3. \A i, j \in DOMAIN channel' : channel'[i].query = channel'[j].query => i = j
      BY <2>1, <3>1, <3>2 DEF OnceInv, InChannel
    <3>4. ASSUME NEW p \in Queries, log[p] # 0 PROVE ~InChannel(p)'
      BY <2>1, <3>1, <3>2, <3>4 DEF OnceInv, InChannel
    <3>5. QED
      BY <2>2, <3>3, <3>4 DEF OnceInv, TypeOK
  <2>5. QED
    BY <2>3, <2>4
<1>11. ASSUME Drain PROVE OnceInv'
  <2>1. stage' = stage
    BY <1>11 DEF Drain
  <2> PICK p \in Queries : p = channel[1].query
    BY <1>11, DrainIs, RecordTyped
  <2>2. /\ 1 \in DOMAIN channel /\ log' = [log EXCEPT ![p] = @ + 1]
        /\ \A i \in DOMAIN channel' : i + 1 \in DOMAIN channel /\ channel'[i] = channel[i + 1]
    BY <1>11, DrainIs
  <2>3. p \in Queries /\ InChannel(p) /\ stage[p] \in {"closing", "done"}
    BY <2>2, RecordTyped DEF InChannel, ChannelInv, RecordInv
  <2>4. log[p] = 0
    BY <2>3 DEF OnceInv
  <2>5. \A i \in DOMAIN channel' : i \in Nat \ {0}
    BY <1>11, DrainIs, LenProperties
  <2>6. ~InChannel(p)'
    <3>1. ASSUME NEW i \in DOMAIN channel', channel'[i].query = p PROVE FALSE
      BY <2>2, <2>5, <3>1 DEF OnceInv
    <3>2. QED
      BY <3>1, <2>1 DEF InChannel
  <2>7. \A i, j \in DOMAIN channel' : channel'[i].query = channel'[j].query => i = j
    BY <2>2, <2>5 DEF OnceInv
  <2>8. ASSUME NEW o \in Queries, o # p, log'[o] # 0 PROVE log'[o] = log[o] /\ ~InChannel(o)'
    BY <2>2, <2>8 DEF OnceInv, InChannel, TypeOK
  <2>9. log'[p] = 1
    BY <2>2, <2>3, <2>4 DEF TypeOK
  <2>10. QED
    BY <2>1, <2>3, <2>6, <2>7, <2>8, <2>9 DEF OnceInv
<1>12. ASSUME UNCHANGED vars PROVE OnceInv'
  <2>1. UNCHANGED <<stage, channel, log>>
    BY <1>12 DEF vars
  <2>2. QED
    BY <2>1 DEF OnceInv, InChannel
<1>13. QED
  BY <1>1, <1>2, <1>3, <1>4, <1>5, <1>6, <1>7, <1>8, <1>9, <1>10, <1>11,
     <1>12, EndsCases
  DEF Next, Progress, Consume, Done

(* Records and drops keep up with the queries that end. *)
LEMMA CountNext ==
    ASSUME TypeOK, StageInv, ChannelInv, OnceInv, CountInv, [Next]_vars
    PROVE  CountInv'
<1>1. ASSUME NEW q \in Queries, Submit(q) PROVE CountInv'
  <2>1. Ended' = Ended /\ Recorded' = Recorded /\ dropped' = dropped
    BY <1>1 DEF Submit, Move, TypeOK, Ended, Recorded, InChannel
  <2>2. QED
    BY <2>1 DEF CountInv
<1>2. ASSUME NEW q \in Queries, Plan(q) PROVE CountInv'
  <2>1. Ended' = Ended /\ Recorded' = Recorded /\ dropped' = dropped
    BY <1>2 DEF Plan, Move, TypeOK, Ended, Recorded, InChannel
  <2>2. QED
    BY <2>1 DEF CountInv
<1>3. ASSUME NEW q \in Queries, Cancel(q) PROVE CountInv'
  <2>1. Ended' = Ended /\ Recorded' = Recorded /\ dropped' = dropped
    BY <1>3 DEF Cancel, TypeOK, Ended, Recorded, InChannel
  <2>2. QED
    BY <2>1 DEF CountInv
<1>4. ASSUME NEW q \in Queries, PollInner(q) PROVE CountInv'
  <2>1. Ended' = Ended /\ Recorded' = Recorded /\ dropped' = dropped
    BY <1>4 DEF PollInner, Move, TypeOK, Ended, Recorded, InChannel
  <2>2. QED
    BY <2>1 DEF CountInv
<1>5. ASSUME NEW q \in Queries, PollCancelled(q) PROVE CountInv'
  <2>1. Ended' = Ended /\ Recorded' = Recorded /\ dropped' = dropped
    BY <1>5 DEF PollCancelled, Move, TypeOK, Ended, Recorded, InChannel
  <2>2. QED
    BY <2>1 DEF CountInv
<1>6. ASSUME NEW q \in Queries, InnerPending(q) PROVE CountInv'
  <2>1. Ended' = Ended /\ Recorded' = Recorded /\ dropped' = dropped
    BY <1>6 DEF InnerPending, Return, Move, TypeOK, Ended, Recorded, InChannel
  <2>2. QED
    BY <2>1 DEF CountInv
<1>7. ASSUME NEW q \in Queries, InnerBatch(q) PROVE CountInv'
  <2>1. Ended' = Ended /\ Recorded' = Recorded /\ dropped' = dropped
    BY <1>7 DEF InnerBatch, Return, Move, TypeOK, Ended, Recorded, InChannel
  <2>2. QED
    BY <2>1 DEF CountInv
<1>8. ASSUME NEW q \in Queries, InnerError(q) PROVE CountInv'
  <2>1. Ended' = Ended /\ Recorded' = Recorded /\ dropped' = dropped
    BY <1>8 DEF InnerError, Move, TypeOK, Ended, Recorded, InChannel
  <2>2. QED
    BY <2>1 DEF CountInv
<1>9. ASSUME NEW q \in Queries, Deregister(q) PROVE CountInv'
  <2>1. Ended' = Ended /\ Recorded' = Recorded /\ dropped' = dropped
    BY <1>9 DEF Deregister, Move, TypeOK, Ended, Recorded, InChannel
  <2>2. QED
    BY <2>1 DEF CountInv
<1>10. ASSUME NEW q \in Queries, NEW s \in Statuses, NEW c \in Codes, Ends(q, s, c) PROVE CountInv'
  <2>1. Ended' = Ended \cup {q} /\ q \notin Ended
    BY <1>10 DEF Ends, DropGuard, Move, Ended, Live, TypeOK
  <2>2. IsFiniteSet(Ended') /\ Cardinality(Ended') = Cardinality(Ended) + 1
    BY <2>1, FS_AddElement DEF CountInv
  <2>3. Recorded \subseteq Ended
    BY DEF Recorded, Ended, InChannel, ChannelInv, RecordInv, OnceInv, TypeOK
  <2>4. IsFiniteSet(Recorded) /\ q \notin Recorded
    BY <2>1, <2>3, FS_Subset DEF CountInv
  <2>5. Cardinality(Recorded) \in Nat /\ Cardinality(Ended) \in Nat
    BY <2>4, FS_CardinalityType DEF CountInv
  <2>6. \/ Recorded' = Recorded \cup {q} /\ dropped' = dropped
        \/ Recorded' = Recorded /\ dropped' = dropped + 1
    <3>1. log' = log
      BY <1>10 DEF Ends
    <3>2. RecordOf(q, s, c).query = q
      BY DEF RecordOf
    <3>3. CASE channel' = channel /\ dropped' = dropped + 1
      BY <3>1, <3>3 DEF Recorded, InChannel
    <3>4. ASSUME NEW n, n \notin DOMAIN channel, DOMAIN channel' = DOMAIN channel \cup {n},
                 \A i \in DOMAIN channel : channel'[i] = channel[i],
                 channel'[n] = RecordOf(q, s, c), dropped' = dropped
          PROVE  Recorded' = Recorded \cup {q}
      <4>1. \A p \in Queries : InChannel(p)' <=> InChannel(p) \/ p = q
        BY <3>2, <3>4 DEF InChannel
      <4>2. QED
        BY <3>1, <4>1 DEF Recorded
    <3>5. QED
      BY <1>10, <3>3, <3>4, EmitIs
  <2>7. CASE Recorded' = Recorded \cup {q} /\ dropped' = dropped
    <3>1. Cardinality(Recorded') = Cardinality(Recorded) + 1
      BY <2>4, <2>7, FS_AddElement
    <3>2. QED
      BY <2>2, <2>5, <2>7, <3>1 DEF CountInv, TypeOK
  <2>8. CASE Recorded' = Recorded /\ dropped' = dropped + 1
    BY <2>2, <2>5, <2>8 DEF CountInv, TypeOK
  <2>9. QED
    BY <2>6, <2>7, <2>8
<1>11. ASSUME Drain PROVE CountInv'
  <2>1. Ended' = Ended /\ dropped' = dropped
    BY <1>11 DEF Drain, Ended
  <2> DEFINE p == channel[1].query
  <2>2. /\ 1 \in DOMAIN channel /\ log' = [log EXCEPT ![p] = @ + 1]
        /\ \A i \in DOMAIN channel' : i + 1 \in DOMAIN channel /\ channel'[i] = channel[i + 1]
        /\ \A i \in DOMAIN channel : i # 1 => i - 1 \in DOMAIN channel' /\ channel'[i - 1] = channel[i]
    BY <1>11, DrainIs
  <2>3. p \in Queries /\ InChannel(p) /\ log[p] = 0
    BY <2>2, RecordTyped DEF InChannel, OnceInv
  <2>4. ASSUME NEW o \in Queries, o # p PROVE InChannel(o)' <=> InChannel(o)
    BY <2>2, <2>4 DEF InChannel
  <2> HIDE DEF p
  <2>5. log'[p] = 1 /\ \A o \in Queries : o # p => log'[o] = log[o]
    BY <2>2, <2>3 DEF TypeOK
  <2>6. Recorded' = Recorded
    BY <2>3, <2>4, <2>5 DEF Recorded
  <2>7. QED
    BY <2>1, <2>6 DEF CountInv
<1>12. ASSUME UNCHANGED vars PROVE CountInv'
  <2>1. Ended' = Ended /\ Recorded' = Recorded /\ dropped' = dropped
    BY <1>12 DEF vars, Ended, Recorded, InChannel
  <2>2. QED
    BY <2>1 DEF CountInv
<1>13. QED
  BY <1>1, <1>2, <1>3, <1>4, <1>5, <1>6, <1>7, <1>8, <1>9, <1>10, <1>11,
     <1>12, EndsCases
  DEF Next, Progress, Consume, Done

-----------------------------------------------------------------------------
(* The inductive invariant, and what follows from it.                      *)

LEMMA IInvInit == Init => IInv
<1> SUFFICES ASSUME Init PROVE IInv
  OBVIOUS
<1> USE DEF Init
<1>1. channel \in Seq(Record) /\ DOMAIN channel = {}
  OBVIOUS
<1>2. TypeOK
  BY <1>1 DEF TypeOK, Stages, Codes
<1>3. Live = {} /\ Ended = {} /\ Recorded = {}
  BY <1>1 DEF Live, Ended, Recorded, InChannel
<1>4. StageInv /\ DoomInv /\ RegistryInv
  BY DEF StageInv, DoomInv, RegistryInv
<1>5. ActiveInv /\ CountInv
  BY <1>3, FS_EmptySet DEF ActiveInv, CountInv
<1>6. ChannelInv /\ OnceInv
  BY <1>1 DEF ChannelInv, OnceInv
<1>7. QED
  BY <1>2, <1>4, <1>5, <1>6 DEF IInv

LEMMA IInvNext == IInv /\ [Next]_vars => IInv'
BY TypeNext, StageNext, DoomNext, RegistryNext, ActiveNext, ChannelNext, OnceNext, CountNext DEF IInv

(* The inductive invariant is an invariant.  It says in particular that    *)
(* the cancel registry holds exactly the queries between their submission  *)
(* and the last step of their guard, and that the active count is exactly  *)
(* the number of guards alive: no path through query leaks either.         *)
THEOREM QueryInvariance == Spec => []IInv
BY IInvInit, IInvNext, PTL DEF Spec

(* A set with at most one element counts as one or as none. *)
LEMMA AtMostOne ==
    ASSUME NEW S, \A x, y \in S : x = y
    PROVE  Cardinality(S) = IF S = {} THEN 0 ELSE 1
<1>1. CASE S = {}
  BY <1>1, FS_EmptySet
<1>2. ASSUME NEW x \in S PROVE Cardinality(S) = 1
  <2>1. S = {x}
    OBVIOUS
  <2>2. QED
    BY <2>1, FS_Singleton
<1>3. QED
  BY <1>1, <1>2

LEMMA OneRecordFollows == IInv => OneRecordPerQuery
<1> SUFFICES ASSUME IInv PROVE OneRecordPerQuery
  OBVIOUS
<1>1. ASSUME NEW q \in Queries
      PROVE  /\ RecordsOf(q) <= 1
             /\ RecordsOf(q) = 1 <=> InChannel(q) \/ log[q] = 1
  <2> DEFINE S == {i \in DOMAIN channel : channel[i].query = q}
  <2>1. Cardinality(S) = IF S = {} THEN 0 ELSE 1
    <3>1. \A x, y \in S : x = y
      BY DEF IInv, OnceInv
    <3>2. QED
      BY <3>1, AtMostOne
  <2>2. S # {} <=> InChannel(q)
    BY DEF InChannel
  <2>3. log[q] = 0 \/ (log[q] = 1 /\ ~InChannel(q))
    BY DEF IInv, OnceInv
  <2>4. RecordsOf(q) = Cardinality(S) + log[q]
    BY DEF RecordsOf
  <2> HIDE DEF S
  <2>5. QED
    BY <2>1, <2>2, <2>3, <2>4
<1>2. {q \in Queries : RecordsOf(q) = 1} = Recorded
  BY <1>1 DEF Recorded
<1>3. Recorded \subseteq Ended
  BY DEF IInv, Recorded, Ended, InChannel, ChannelInv, RecordInv, OnceInv, TypeOK
<1>4. Cardinality(Recorded) + dropped = Cardinality(Ended)
  BY DEF IInv, CountInv
<1>5. QED
  BY <1>1, <1>2, <1>3, <1>4 DEF OneRecordPerQuery, Ended

(* Every query that ends leaves one activity record, or is counted as      *)
(* dropped, and no query leaves one earlier or a second one.               *)
THEOREM OneRecord == Spec => []OneRecordPerQuery
BY OneRecordFollows, QueryInvariance, PTL

LEMMA OkIsCleanFollows == IInv => OkIsClean
<1> SUFFICES ASSUME IInv, NEW i \in 1..Len(channel)
             PROVE  LET r == channel[i]
                    IN  /\ r.status = "ok" => r.code = "none" /\ ~emitted[r.query]
                        /\ r.status = "ok" /\ stage[r.query] = "closing" => r.rows = seen[r.query]
                        /\ completion[r.query] = r.rows
  BY DEF OkIsClean
<1>1. i \in DOMAIN channel
  BY LenProperties DEF IInv, TypeOK
<1>2. QED
  BY <1>1 DEF IInv, ChannelInv, RecordInv

(* A record that says ok is of a query that was read to the end without an *)
(* error or a cancel, and agrees with the completion slot.                 *)
THEOREM OkRecordsAreClean == Spec => []OkIsClean
BY OkIsCleanFollows, QueryInvariance, PTL

(* A cancel that lands between two polls, or in a poll that returns to the *)
(* consumer, keeps the query from ever being marked ok.                    *)
THEOREM CancelsAreHonored == Spec => []CancelHonored
<1>1. IInv => CancelHonored
  BY DEF IInv, DoomInv, CancelHonored
<1>2. QED
  BY <1>1, QueryInvariance, PTL


-----------------------------------------------------------------------------
(* MCP calls that run queries. *)

CallStates == {"none", "running", "finishing", "answered", "gone"}

McpTypeOK ==
    /\ call \in [Queries -> CallStates]
    /\ idOf \in [Queries -> Ids \cup {NoId}]
    /\ tokens \in [Ids -> Queries \cup {Nobody}]
    /\ cancelled \subseteq Queries
    /\ \A q \in Queries : call[q] # "none" => idOf[q] \in Ids

UnderWay(q) == call[q] \in {"running", "finishing"}

(* Calls under way have different ids, a token is registered under the id  *)
(* of its call, and a running call's token is registered or cancelled.     *)
TokenInv ==
    /\ \A q, r \in Queries : UnderWay(q) /\ UnderWay(r) /\ idOf[q] = idOf[r] => q = r
    /\ \A i \in Ids : tokens[i] # Nobody =>
          idOf[tokens[i]] = i /\ call[tokens[i]] \in {"running", "finishing", "gone"}
    /\ \A q \in Queries : call[q] = "running" /\ q \notin cancelled => tokens[idOf[q]] = q

(* A call that is over has no query alive in the engine. *)
RunawayInv ==
    \A q \in Queries : call[q] \in {"finishing", "answered", "gone"} => q \notin Live

-----------------------------------------------------------------------------
(* The composition runs the engine's steps and no others.                  *)

LEMMA DropFutureRefines ==
    ASSUME NEW q \in Queries, DropFuture(q)
    PROVE  [Next]_vars
BY DEF DropFuture, Next, Consume

LEMMA StepRefines ==
    ASSUME [McpNext]_allVars
    PROVE  [Next]_vars
<1>1. ASSUME NEW q \in Queries, EngineStep(q) PROVE [Next]_vars
  BY <1>1 DEF EngineStep, Next, Progress, Consume
<1>2. ASSUME NEW q \in Queries, Abort(q) \/ Disconnect(q) PROVE [Next]_vars
  BY <1>2, DropFutureRefines DEF Abort, Disconnect
<1>3. ASSUME NEW q \in Queries, (\E i \in Ids : Register(q, i)) \/ Answer(q) \/ FinishCall(q)
      PROVE  [Next]_vars
  BY <1>3 DEF Register, Answer, FinishCall
<1>4. ASSUME NEW i \in Ids, CancelQuery(i) PROVE [Next]_vars
  BY <1>4 DEF CancelQuery
<1>5. ASSUME Drain PROVE [Next]_vars
  BY <1>5 DEF Next
<1>6. ASSUME UNCHANGED allVars PROVE [Next]_vars
  BY <1>6 DEF allVars
<1>7. QED
  BY <1>1, <1>2, <1>3, <1>4, <1>5, <1>6 DEF McpNext, McpDone

(* MCP calls implement the engine's query lifecycle: a call that is        *)
(* registered, cancelled, disconnected or answered at any moment does to   *)
(* its query only what the engine allows every caller to do.               *)
THEOREM McpImplementsLifecycle == McpSpec => Spec
<1>1. McpInit => Init
  BY DEF McpInit
<1>2. [McpNext]_allVars => [Next]_vars
  BY StepRefines
<1>3. QED
  BY <1>1, <1>2, PTL DEF McpSpec, Spec

(* So the lifecycle's invariant holds of queries run through MCP too.      *)
THEOREM McpKeepsLifecycle == McpSpec => []IInv
BY McpImplementsLifecycle, QueryInvariance, PTL

-----------------------------------------------------------------------------
(* Preservation, one lemma per part of the invariant.                      *)

(* Every step keeps the calls, ids and tokens in their ranges. *)
LEMMA McpTypeNext ==
    ASSUME McpTypeOK, [McpNext]_allVars
    PROVE  McpTypeOK'
<1> USE IdsAssumption DEF McpTypeOK, CallStates
<1>1. ASSUME NEW q \in Queries, EngineStep(q) PROVE McpTypeOK'
  BY <1>1 DEF EngineStep, mcpVars
<1>2. ASSUME NEW q \in Queries, NEW i \in Ids, Register(q, i) PROVE McpTypeOK'
  BY <1>2 DEF Register
<1>3. ASSUME NEW q \in Queries, Abort(q) PROVE McpTypeOK'
  BY <1>3 DEF Abort, Running
<1>4. ASSUME NEW q \in Queries, Answer(q) PROVE McpTypeOK'
  BY <1>4 DEF Answer, Running
<1>5. ASSUME NEW q \in Queries, FinishCall(q) PROVE McpTypeOK'
  BY <1>5 DEF FinishCall
<1>6. ASSUME NEW q \in Queries, Disconnect(q) PROVE McpTypeOK'
  BY <1>6 DEF Disconnect, Running
<1>7. ASSUME NEW i \in Ids, CancelQuery(i) PROVE McpTypeOK'
  BY <1>7 DEF CancelQuery
<1>8. ASSUME Drain /\ UNCHANGED mcpVars PROVE McpTypeOK'
  BY <1>8 DEF mcpVars
<1>9. ASSUME UNCHANGED allVars PROVE McpTypeOK'
  BY <1>9 DEF allVars, mcpVars
<1>10. QED
  BY <1>1, <1>2, <1>3, <1>4, <1>5, <1>6, <1>7, <1>8, <1>9
  DEF McpNext, McpDone

(* The tokens of running calls stay reachable, if clients do not reuse ids. *)
LEMMA TokenNext ==
    ASSUME UniqueIds, McpTypeOK, TokenInv, [McpNext]_allVars
    PROVE  TokenInv'
<1> USE IdsAssumption DEF McpTypeOK, TokenInv, UnderWay
<1>1. ASSUME NEW q \in Queries, EngineStep(q) PROVE TokenInv'
  BY <1>1 DEF EngineStep, mcpVars
<1>2. ASSUME NEW q \in Queries, NEW i \in Ids, Register(q, i) PROVE TokenInv'
  BY <1>2 DEF Register, Calls
<1>3. ASSUME NEW q \in Queries, Abort(q) PROVE TokenInv'
  BY <1>3 DEF Abort, Running
<1>4. ASSUME NEW q \in Queries, Answer(q) PROVE TokenInv'
  BY <1>4 DEF Answer, Running
<1>5. ASSUME NEW q \in Queries, FinishCall(q) PROVE TokenInv'
  BY <1>5 DEF FinishCall
<1>6. ASSUME NEW q \in Queries, Disconnect(q) PROVE TokenInv'
  BY <1>6 DEF Disconnect, Running
<1>7. ASSUME NEW i \in Ids, CancelQuery(i) PROVE TokenInv'
  BY <1>7 DEF CancelQuery
<1>8. ASSUME Drain /\ UNCHANGED mcpVars PROVE TokenInv'
  BY <1>8 DEF mcpVars
<1>9. ASSUME UNCHANGED allVars PROVE TokenInv'
  BY <1>9 DEF allVars, mcpVars
<1>10. QED
  BY <1>1, <1>2, <1>3, <1>4, <1>5, <1>6, <1>7, <1>8, <1>9
  DEF McpNext, McpDone

(* No query outlives its call. *)
LEMMA RunawayNext ==
    ASSUME TypeOK, McpTypeOK, RunawayInv, [McpNext]_allVars
    PROVE  RunawayInv'
<1> USE DEF TypeOK, McpTypeOK, RunawayInv, Live
<1>1. ASSUME NEW q \in Queries, EngineStep(q) PROVE RunawayInv'
  <2>1. call' = call
    BY <1>1 DEF EngineStep, mcpVars
  <2>2. ASSUME NEW p \in Queries, p # q PROVE stage'[p] = stage[p]
    BY <1>1, <2>2 DEF EngineStep, Submit, Plan, PlanFails, PollInner, PollCancelled, InnerPending, InnerBatch,
       InnerError, InnerEnd, DropStream, Abandon, Cancel, Deregister, DropGuard, Return, Move
  <2>3. ASSUME call[q] \in {"finishing", "answered", "gone"} PROVE stage'[q] \in {"closing", "done"}
    BY <1>1, <2>3 DEF EngineStep, Driven, Calls, DropStream, Deregister, DropGuard, Move
  <2>4. QED
    BY <2>1, <2>2, <2>3
<1>2. ASSUME NEW q \in Queries, NEW i \in Ids, Register(q, i) PROVE RunawayInv'
  BY <1>2 DEF Register, vars
<1>3. ASSUME NEW q \in Queries, Abort(q) PROVE RunawayInv'
  <2>1. call' = [call EXCEPT ![q] = "finishing"] /\ DropFuture(q)
    BY <1>3 DEF Abort
  <2>2. stage'[q] \in {"new", "closing", "done"} /\ \A p \in Queries : p # q => stage'[p] = stage[p]
    BY <2>1 DEF DropFuture, Abandon, DropStream, DropGuard, Move, vars
  <2>3. QED
    BY <2>1, <2>2
<1>4. ASSUME NEW q \in Queries, Answer(q) PROVE RunawayInv'
  BY <1>4 DEF Answer, vars
<1>5. ASSUME NEW q \in Queries, FinishCall(q) PROVE RunawayInv'
  BY <1>5 DEF FinishCall, vars
<1>6. ASSUME NEW q \in Queries, Disconnect(q) PROVE RunawayInv'
  <2>1. call' = [call EXCEPT ![q] = "gone"] /\ DropFuture(q)
    BY <1>6 DEF Disconnect
  <2>2. stage'[q] \in {"new", "closing", "done"} /\ \A p \in Queries : p # q => stage'[p] = stage[p]
    BY <2>1 DEF DropFuture, Abandon, DropStream, DropGuard, Move, vars
  <2>3. QED
    BY <2>1, <2>2
<1>7. ASSUME NEW i \in Ids, CancelQuery(i) PROVE RunawayInv'
  BY <1>7 DEF CancelQuery, vars
<1>8. ASSUME Drain /\ UNCHANGED mcpVars PROVE RunawayInv'
  BY <1>8 DEF Drain, mcpVars
<1>9. ASSUME UNCHANGED allVars PROVE RunawayInv'
  BY <1>9 DEF allVars, mcpVars, vars
<1>10. QED
  BY <1>1, <1>2, <1>3, <1>4, <1>5, <1>6, <1>7, <1>8, <1>9
  DEF McpNext, McpDone

-----------------------------------------------------------------------------
(* What follows.                                                           *)

(* Every query, MCP call or not, leaves one activity record or is counted  *)
(* as dropped, however its call ends.                                      *)
THEOREM McpOneRecord == McpSpec => []OneRecordPerQuery
BY McpImplementsLifecycle, OneRecord, PTL

(* Type correctness of the calls and the cancel registry.                  *)
THEOREM McpTypeCorrect == McpSpec => []McpTypeOK
<1>1. McpInit => McpTypeOK
  BY DEF McpInit, McpTypeOK, CallStates
<1>2. McpTypeOK /\ [McpNext]_allVars => McpTypeOK'
  BY McpTypeNext
<1>3. QED
  BY <1>1, <1>2, PTL DEF McpSpec

(* A call that was cancelled, answered or disconnected leaves no query     *)
(* running in the engine behind it.                                        *)
THEOREM NoQueryOutlivesItsCall == McpSpec => []NoRunawayQuery
<1>1. McpInit => RunawayInv
  BY DEF McpInit, RunawayInv
<1>2. TypeOK /\ McpTypeOK /\ RunawayInv /\ [McpNext]_allVars => RunawayInv'
  BY RunawayNext
<1>3. RunawayInv => NoRunawayQuery
  BY DEF RunawayInv, NoRunawayQuery, Calls
<1>4. IInv => TypeOK
  BY DEF IInv
<1>5. QED
  BY <1>1, <1>2, <1>3, <1>4, McpTypeCorrect, McpKeepsLifecycle, PTL DEF McpSpec

(* When clients do not give one id to two calls under way, cancel_query    *)
(* finds the token of every running call that has not been cancelled yet,  *)
(* whatever calls used the id before and however they ended.               *)
THEOREM CancelFindsTheCall == ASSUME UniqueIds PROVE McpSpec => []CancelReaches
<1>1. McpInit => TokenInv
  BY DEF McpInit, TokenInv, UnderWay
<1>2. McpTypeOK /\ TokenInv /\ [McpNext]_allVars => TokenInv'
  BY TokenNext
<1>3. TokenInv => CancelReaches
  BY DEF TokenInv, CancelReaches, Calls, Running
<1>4. QED
  BY <1>1, <1>2, <1>3, McpTypeCorrect, PTL DEF McpSpec

=============================================================================
