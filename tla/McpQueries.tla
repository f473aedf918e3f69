----------------------------- MODULE McpQueries -----------------------------
(***************************************************************************)
(* MCP tool calls that run queries, composed with the engine's query       *)
(* lifecycle: the tools/call branch of handle_message, run_cancellable     *)
(* (crates/pawrly-mcp/src/dispatch.rs) and the CancelRegistry keyed by     *)
(* client-supplied ids (cancel.rs), over the HTTP transport, where a       *)
(* handler whose client disconnects is dropped at its await (http.rs).     *)
(*                                                                         *)
(* A call registers a cancellation token under its id, then its future     *)
(* races the token.  A query that no call has registered comes from gRPC   *)
(* or REST, or from an MCP call without a query_id.                        *)
(***************************************************************************)
EXTENDS QueryLifecycle

CONSTANTS
    Ids,        \* client-supplied query ids
    NoId,       \* no query_id given
    Nobody,     \* no token registered under an id
    UniqueIds   \* clients do not give one id to two queries at a time

ASSUME IdsAssumption ==
    /\ NoId \notin Ids
    /\ Nobody \notin Queries
    /\ UniqueIds \in BOOLEAN

VARIABLES
    call,       \* where each MCP call is in run_cancellable
    idOf,       \* the id it was given
    tokens,     \* CancelRegistry: the call whose token each id leads to
    cancelled   \* the calls under way whose token has been cancelled

mcpVars == <<call, idOf, tokens, cancelled>>
allVars == <<vars, mcpVars>>

Calls == {q \in Queries : call[q] # "none"}

McpInit ==
    /\ Init
    /\ call = [q \in Queries |-> "none"]
    /\ idOf = [q \in Queries |-> NoId]
    /\ tokens = [i \in Ids |-> Nobody]
    /\ cancelled = {}

Running(q) == call[q] = "running"

(* Mutant: a token already registered under the id is kept. *)
Register_KeepsFirst(q, i) ==
    /\ stage[q] = "new"
    /\ call[q] = "none"
    /\ UniqueIds => \A r \in Calls : idOf[r] = i => call[r] \notin {"running", "finishing"}
    /\ tokens' = IF tokens[i] = Nobody THEN [tokens EXCEPT ![i] = q] ELSE tokens
    /\ idOf' = [idOf EXCEPT ![q] = i]
    /\ call' = [call EXCEPT ![q] = "running"]
    /\ UNCHANGED <<vars, cancelled>>

(* CancelRegistry::register: the last caller's token replaces any other. *)
Register(q, i) ==
    /\ stage[q] = "new"
    /\ call[q] = "none"
    /\ UniqueIds => \A r \in Calls : idOf[r] = i => call[r] \notin {"running", "finishing"}
    /\ tokens' = [tokens EXCEPT ![i] = q]
    /\ idOf' = [idOf EXCEPT ![q] = i]
    /\ call' = [call EXCEPT ![q] = "running"]
    /\ UNCHANGED <<vars, cancelled>>

(* The engine works on a call only while its future is alive. *)
Driven(q) == call[q] \in {"none", "running"}

(* Dropping the future drops the engine's guard with it, wherever it is;   *)
(* not in the middle of a poll, which is this same task.                   *)
DropFuture(q) ==
    \/ stage[q] \in {"new", "closing", "done"} /\ UNCHANGED vars
    \/ Abandon(q)
    \/ DropStream(q)

(* Mutant: the cancelled future is left to run on its own. *)
Abort_Detaches(q) ==
    /\ Running(q)
    /\ q \in cancelled
    /\ call' = [call EXCEPT ![q] = "finishing"]
    /\ UNCHANGED <<vars, idOf, tokens, cancelled>>

(* Mutant: the token is looked at only once the query is done. *)
Abort_Late(q) ==
    /\ Running(q)
    /\ q \in cancelled
    /\ stage[q] = "done"
    /\ call' = [call EXCEPT ![q] = "finishing"]
    /\ UNCHANGED <<vars, idOf, tokens, cancelled>>

(* The token wins the select. *)
Abort(q) ==
    /\ Running(q)
    /\ q \in cancelled
    /\ DropFuture(q)
    /\ call' = [call EXCEPT ![q] = "finishing"]
    /\ UNCHANGED <<idOf, tokens, cancelled>>

(* The future wins: the engine is done with the query. *)
Answer(q) ==
    /\ Running(q)
    /\ stage[q] = "done"
    /\ call' = [call EXCEPT ![q] = "finishing"]
    /\ UNCHANGED <<vars, idOf, tokens, cancelled>>

(* CancelRegistry::finish removes whatever is registered under the id. *)
FinishCall(q) ==
    /\ call[q] = "finishing"
    /\ tokens' = [tokens EXCEPT ![idOf[q]] = Nobody]
    /\ call' = [call EXCEPT ![q] = "answered"]
    /\ cancelled' = cancelled \ {q}
    /\ UNCHANGED <<vars, idOf>>

(* The client disconnects: the handler is dropped at its await, and        *)
(* nothing after it runs.                                                  *)
Disconnect(q) ==
    /\ Running(q)
    /\ DropFuture(q)
    /\ call' = [call EXCEPT ![q] = "gone"]
    /\ cancelled' = cancelled \ {q}
    /\ UNCHANGED <<idOf, tokens>>

(* cancel_query: CancelRegistry::cancel, true iff a token was registered. *)
CancelQuery(i) ==
    /\ tokens[i] # Nobody
    /\ cancelled' = cancelled \cup {q \in {tokens[i]} : call[q] # "gone"}
    /\ tokens' = [tokens EXCEPT ![i] = Nobody]
    /\ UNCHANGED <<vars, call, idOf>>

-----------------------------------------------------------------------------

(* The engine's steps for a query.  Its consumer is the call, if there is  *)
(* one: only others drop the stream at will, and are told the engine's own *)
(* query id to cancel it by.                                               *)
EngineStep(q) ==
    /\ \/ Driven(q) /\ (Submit(q) \/ Plan(q) \/ PlanFails(q) \/ PollInner(q) \/ PollCancelled(q)
                        \/ InnerPending(q) \/ InnerBatch(q) \/ InnerError(q) \/ InnerEnd(q))
       \/ stage[q] = "failed" /\ DropStream(q)
       \/ q \notin Calls /\ (Abandon(q) \/ DropStream(q) \/ Cancel(q))
       \/ Deregister(q)
    /\ UNCHANGED mcpVars

McpDone ==
    /\ \A q \in Queries : stage[q] \in {"new", "done"} /\ call[q] \in {"none", "answered", "gone"}
    /\ channel = <<>>
    /\ UNCHANGED allVars

McpNext ==
    \/ \E q \in Queries :
        \/ EngineStep(q)
        \/ \E i \in Ids : Register(q, i)
        \/ Abort(q)
        \/ Answer(q)
        \/ FinishCall(q)
        \/ Disconnect(q)
    \/ \E i \in Ids : CancelQuery(i)
    \/ Drain /\ UNCHANGED mcpVars
    \/ McpDone

McpSpec == McpInit /\ [][McpNext]_allVars

(* What the task that runs a query does by itself. *)
Task(q) ==
    \/ /\ \/ Driven(q) /\ (PollInner(q) \/ PollCancelled(q) \/ InnerPending(q))
          \/ (q \notin Calls \/ stage[q] = "failed") /\ DropStream(q)
          \/ Deregister(q)
       /\ UNCHANGED mcpVars
    \/ Answer(q)
    \/ FinishCall(q)

(* What planning and the DataFusion stream do for it. *)
Execution(q) ==
    /\ Driven(q)
    /\ Plan(q) \/ PlanFails(q) \/ InnerBatch(q) \/ InnerError(q) \/ InnerEnd(q)
    /\ UNCHANGED mcpVars

(***************************************************************************)
(* As in QueryLifecycle: a task keeps running, and the DataFusion stream   *)
(* does not stay pending forever, which is not assumed of a query whose    *)
(* call has been cancelled.  A select whose token is cancelled is woken up *)
(* and takes that branch.                                                  *)
(***************************************************************************)
McpFairness ==
    \A q \in Queries :
        /\ WF_allVars(Task(q))
        /\ SF_allVars(q \notin cancelled /\ Execution(q))
        /\ SF_allVars(Abort(q))

McpFairSpec == McpSpec /\ McpFairness

-----------------------------------------------------------------------------
(* Properties.                                                             *)

(* cancel_query reaches every running call that has not been cancelled     *)
(* yet: its id leads to its own token, whatever calls used the id before   *)
(* and however they ended.                                                 *)
CancelReaches == \A q \in Calls : Running(q) /\ q \notin cancelled => tokens[idOf[q]] = q

(* A call that was cancelled, answered or disconnected leaves no query     *)
(* running in the engine behind it.                                        *)
NoRunawayQuery == \A q \in Calls : call[q] \in {"finishing", "answered", "gone"} => q \notin Live

(* A cancelled call comes back to its client, even if its query hangs.     *)
CancelReturns == \A q \in Queries : q \in cancelled ~> call[q] # "running"

=============================================================================
