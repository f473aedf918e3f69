--------------------------- MODULE QueryLifecycle ---------------------------
(***************************************************************************)
(* The life of a SQL query in the engine: LocalEngine::query and cancel    *)
(* (crates/pawrly-engine/src/local.rs), the guard and the instrumented     *)
(* result stream (stream.rs), and the activity sink (activity.rs), with    *)
(* the gRPC and REST handlers as the stream's consumers                    *)
(* (crates/pawrly-server/src/services/query.rs, rest.rs).                  *)
(*                                                                         *)
(* A query is registered, planned, and then polled by its consumer until   *)
(* the stream ends, fails, is cancelled or is dropped.  Whatever happens,  *)
(* its guard goes away once, and on the way lowers the active count, emits *)
(* an activity record, fills the completion slot and removes the query     *)
(* from the cancel registry.  cancel runs at any time, on another thread.  *)
(*                                                                         *)
(* Abstraction.  A batch counts for one row; the error codes are "none",   *)
(* "failed" and "cancelled".                                               *)
(***************************************************************************)
EXTENDS Integers, Sequences, FiniteSets

CONSTANTS
    Queries,    \* query ids
    MaxBatches, \* bound on the batches a plan yields
    Capacity    \* of the activity channel

ASSUME BoundsAssumption ==
    /\ MaxBatches \in Nat
    /\ Capacity \in Nat \ {0}

VARIABLES
    stage,      \* where each query is
    registry,   \* LocalEngineInner.cancellations: the ids that cancel finds
    active,     \* LocalEngineInner.active_queries
    flag,       \* the cancel flag of each query
    seen,       \* rows the stream has handed to the consumer
    code,       \* QueryGuard.error_code
    status,     \* QueryGuard.status
    emitted,    \* InstrumentedStream.cancel_emitted
    completion, \* the write-once completion slot
    channel,    \* the activity channel: records not yet drained
    log,        \* how many records of each query the recorders have received
    dropped,    \* pawrly.activity.dropped
    doomed      \* ghost: cancelled queries that have since been outside a poll

vars == <<stage, registry, active, flag, seen, code, status, emitted,
          completion, channel, log, dropped, doomed>>

(* "ready": the stream is not being polled; "inner": a poll has passed the *)
(* cancel check and is in the DataFusion stream; "failed": an error item   *)
(* has been handed out; "closing": the guard is being dropped.             *)
Stages == {"new", "planning", "ready", "inner", "failed", "closing", "done"}
Codes == {"none", "failed", "cancelled"}
Unset == -1

Record == [query : Queries, status : {"ok", "error"}, code : Codes, rows : Nat]

Init ==
    /\ stage = [q \in Queries |-> "new"]
    /\ registry = {}
    /\ active = 0
    /\ flag = [q \in Queries |-> FALSE]
    /\ seen = [q \in Queries |-> 0]
    /\ code = [q \in Queries |-> "none"]
    /\ status = [q \in Queries |-> "error"]
    /\ emitted = [q \in Queries |-> FALSE]
    /\ completion = [q \in Queries |-> Unset]
    /\ channel = <<>>
    /\ log = [q \in Queries |-> 0]
    /\ dropped = 0
    /\ doomed = {}

Move(q, s) == stage' = [stage EXCEPT ![q] = s]

(* Mutant: a record that finds the channel full is not counted. *)
Emit_Uncounted(r) ==
    IF Len(channel) < Capacity
    THEN channel' = Append(channel, r) /\ UNCHANGED dropped
    ELSE UNCHANGED <<channel, dropped>>

(* Mutant: send waits for room in the channel. *)
Emit_Waits(r) ==
    /\ Len(channel) < Capacity
    /\ channel' = Append(channel, r)
    /\ UNCHANGED dropped

(* ActivitySink::emit: try_send, and count the record when the channel is  *)
(* full.                                                                   *)
Emit(r) ==
    IF Len(channel) < Capacity
    THEN channel' = Append(channel, r) /\ UNCHANGED dropped
    ELSE dropped' = dropped + 1 /\ UNCHANGED channel

(* Drop for QueryGuard up to the registry, with the guard's final status s *)
(* and code c.  `rows` is set by mark_ok only.                             *)
DropGuard(q, s, c) ==
    LET n == IF s = "ok" THEN seen[q] ELSE 0
    IN  /\ active' = active - 1
        /\ status' = [status EXCEPT ![q] = s]
        /\ code' = [code EXCEPT ![q] = c]
        /\ Emit([query |-> q, status |-> s, code |-> c, rows |-> n])
        /\ completion' = [completion EXCEPT ![q] = n]
        /\ Move(q, "closing")

(* The last statement of Drop: the registry entry goes, and the stream,    *)
(* the guard and the flag are forgotten.                                   *)
Deregister(q) ==
    /\ stage[q] = "closing"
    /\ registry' = registry \ {q}
    /\ Move(q, "done")
    /\ flag' = [flag EXCEPT ![q] = FALSE]
    /\ doomed' = doomed \ {q}
    /\ seen' = [seen EXCEPT ![q] = 0]
    /\ code' = [code EXCEPT ![q] = "none"]
    /\ status' = [status EXCEPT ![q] = "error"]
    /\ emitted' = [emitted EXCEPT ![q] = FALSE]
    /\ UNCHANGED <<active, completion, channel, log, dropped>>

-----------------------------------------------------------------------------
(* LocalEngine::query.                                                     *)

Submit(q) ==
    /\ stage[q] = "new"
    /\ registry' = registry \cup {q}
    /\ active' = active + 1
    /\ Move(q, "planning")
    /\ UNCHANGED <<flag, doomed, seen, code, status, emitted, completion, channel, log, dropped>>

(* Rewriting, planning and execute_stream succeed: the guard moves into    *)
(* the stream.                                                             *)
Plan(q) ==
    /\ stage[q] = "planning"
    /\ Move(q, "ready")
    /\ UNCHANGED <<registry, active, flag, doomed, seen, code, status, emitted, completion, channel, log, dropped>>

(* One of them fails: mark_error, and `?` drops the guard. *)
PlanFails(q) ==
    /\ stage[q] = "planning"
    /\ DropGuard(q, "error", "failed")
    /\ UNCHANGED <<registry, flag, doomed, seen, emitted, log>>

(* The caller goes away while the query is planned. *)
Abandon(q) ==
    /\ stage[q] = "planning"
    /\ DropGuard(q, "error", "none")
    /\ UNCHANGED <<registry, flag, doomed, seen, emitted, log>>

(* LocalEngine::cancel: set the flag of a registered query.  The caller    *)
(* has its id from the QueryHandle, so the query has been planned.         *)
Cancel(q) ==
    /\ q \in registry
    /\ stage[q] # "planning"
    /\ ~flag[q]
    /\ flag' = [flag EXCEPT ![q] = TRUE]
    /\ doomed' = IF stage[q] = "ready" THEN doomed \cup {q} ELSE doomed
    /\ UNCHANGED <<stage, registry, active, seen, code, status, emitted, completion, channel, log, dropped>>

-----------------------------------------------------------------------------
(* InstrumentedStream::poll_next.                                          *)

(* Mutant: the flag is not looked at. *)
PollInner_Unchecked(q) ==
    /\ stage[q] = "ready"
    /\ Move(q, "inner")
    /\ UNCHANGED <<registry, active, flag, doomed, seen, code, status, emitted, completion, channel, log, dropped>>

(* No cancel pending: the poll goes on to the DataFusion stream. *)
PollInner(q) ==
    /\ stage[q] = "ready"
    /\ ~flag[q]
    /\ Move(q, "inner")
    /\ UNCHANGED <<registry, active, flag, doomed, seen, code, status, emitted, completion, channel, log, dropped>>

(* The flag is set: one Cancelled item. *)
PollCancelled(q) ==
    /\ stage[q] = "ready"
    /\ flag[q]
    /\ emitted' = [emitted EXCEPT ![q] = TRUE]
    /\ code' = [code EXCEPT ![q] = "cancelled"]
    /\ Move(q, "failed")
    /\ UNCHANGED <<registry, active, flag, doomed, seen, status, completion, channel, log, dropped>>

(* The poll returns to the consumer, which will poll again. *)
Return(q) ==
    /\ Move(q, "ready")
    /\ doomed' = IF flag[q] THEN doomed \cup {q} ELSE doomed

InnerPending(q) ==
    /\ stage[q] = "inner"
    /\ Return(q)
    /\ UNCHANGED <<registry, active, flag, seen, code, status, emitted, completion, channel, log, dropped>>

InnerBatch(q) ==
    /\ stage[q] = "inner"
    /\ seen[q] < MaxBatches
    /\ seen' = [seen EXCEPT ![q] = @ + 1]
    /\ Return(q)
    /\ UNCHANGED <<registry, active, flag, code, status, emitted, completion, channel, log, dropped>>

InnerError(q) ==
    /\ stage[q] = "inner"
    /\ code' = [code EXCEPT ![q] = "failed"]
    /\ Move(q, "failed")
    /\ UNCHANGED <<registry, active, flag, doomed, seen, status, emitted, completion, channel, log, dropped>>

(* The stream is exhausted: mark_ok, and the guard is taken and dropped. *)
InnerEnd(q) ==
    /\ stage[q] = "inner"
    /\ DropGuard(q, "ok", code[q])
    /\ UNCHANGED <<registry, flag, doomed, seen, emitted, log>>

(* Mutant: a dropped stream counts as a finished one. *)
DropStream_MarksOk(q) ==
    /\ stage[q] \in {"ready", "failed"}
    /\ DropGuard(q, "ok", code[q])
    /\ UNCHANGED <<registry, flag, doomed, seen, emitted, log>>

(* Every consumer of the repository returns at the first error item, which *)
(* drops the stream (polling on after a Cancelled item would take the      *)
(* guard to the same effect), and may stop reading earlier: a client that  *)
(* disconnects, or the row cap of the ndjson response.                     *)
DropStream(q) ==
    /\ stage[q] \in {"ready", "failed"}
    /\ DropGuard(q, status[q], code[q])
    /\ UNCHANGED <<registry, flag, doomed, seen, emitted, log>>

-----------------------------------------------------------------------------
(* The drain task of ActivitySink::spawn: one record at a time, to every   *)
(* recorder.                                                               *)

Drain ==
    /\ channel # <<>>
    /\ log' = [log EXCEPT ![Head(channel).query] = @ + 1]
    /\ channel' = Tail(channel)
    /\ UNCHANGED <<stage, registry, active, flag, doomed, seen, code, status, emitted, completion, dropped>>

-----------------------------------------------------------------------------

(* What the engine and the DataFusion stream do for a query. *)
Progress(q) ==
    \/ Plan(q)
    \/ PlanFails(q)
    \/ InnerBatch(q)
    \/ InnerError(q)
    \/ InnerEnd(q)
    \/ Deregister(q)

(* What its consumer does. *)
Consume(q) == PollInner(q) \/ PollCancelled(q) \/ DropStream(q)

(* Nothing left to do. *)
Done == (\A q \in Queries : stage[q] = "done") /\ channel = <<>> /\ UNCHANGED vars

Next ==
    \/ \E q \in Queries :
        \/ Submit(q)
        \/ Progress(q)
        \/ Consume(q)
        \/ InnerPending(q)
        \/ Abandon(q)
        \/ Cancel(q)
    \/ Drain
    \/ Done

Spec == Init /\ [][Next]_vars

(***************************************************************************)
(* The engine makes progress on a query it is given, the DataFusion stream *)
(* does not stay pending forever (source requests time out), and a         *)
(* consumer keeps polling or drops the stream.  Nothing is assumed of the  *)
(* drain task, nor that anyone cancels or disconnects.                     *)
(***************************************************************************)
Fairness == \A q \in Queries : SF_vars(Progress(q)) /\ WF_vars(Consume(q))

FairSpec == Spec /\ Fairness

-----------------------------------------------------------------------------
(* Properties.                                                             *)

TypeOK ==
    /\ stage \in [Queries -> Stages]
    /\ registry \subseteq Queries
    /\ active \in Int
    /\ flag \in [Queries -> BOOLEAN]
    /\ seen \in [Queries -> Nat]
    /\ code \in [Queries -> Codes]
    /\ status \in [Queries -> {"ok", "error"}]
    /\ emitted \in [Queries -> BOOLEAN]
    /\ completion \in [Queries -> Nat \cup {Unset}]
    /\ channel \in Seq(Record)
    /\ log \in [Queries -> Nat]
    /\ dropped \in Nat
    /\ doomed \subseteq Queries

Live == {q \in Queries : stage[q] \in {"planning", "ready", "inner", "failed"}}

RecordsOf(q) == Cardinality({i \in DOMAIN channel : channel[i].query = q}) + log[q]

(* Each query leaves at most one activity record, never one before its     *)
(* guard is gone, and a record that is missing was counted as dropped.     *)
OneRecordPerQuery ==
    LET ended == {q \in Queries : stage[q] \in {"closing", "done"}}
        recorded == {q \in Queries : RecordsOf(q) = 1}
    IN  /\ \A q \in Queries : RecordsOf(q) <= 1
        /\ recorded \subseteq ended
        /\ Cardinality(recorded) + dropped = Cardinality(ended)

(* A query is recorded as ok only if its consumer was handed every batch   *)
(* up to the end of the stream and nothing failed or was cancelled; its    *)
(* completion slot and its record then agree with what was handed over.    *)
OkIsClean ==
    \A i \in 1..Len(channel) :
        LET r == channel[i]
        IN  /\ r.status = "ok" => r.code = "none" /\ ~emitted[r.query]
            /\ r.status = "ok" /\ stage[r.query] = "closing" => r.rows = seen[r.query]
            /\ completion[r.query] = r.rows

(* A submitted query ends, however slow the activity recorders are.        *)
QueriesEnd == \A q \in Queries : stage[q] = "planning" ~> stage[q] = "done"

(* A cancel that finds a query between two polls of its stream, or during  *)
(* a poll that returns to the consumer, is not lost: the query is never    *)
(* recorded as ok, however many batches were still to come.                *)
CancelHonored == \A q \in doomed : status[q] # "ok"

=============================================================================
