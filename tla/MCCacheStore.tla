---------------------------- MODULE MCCacheStore ----------------------------
(***************************************************************************)
(* CacheStore for TLC: one cached table with a TTL and one materialized    *)
(* table, and two processes with a thread each.                            *)
(***************************************************************************)
EXTENDS CacheStore, TLC

CONSTANTS a1, a2, p1, p2, cached, pinned

TwoProcesses == a1 :> p1 @@ a2 :> p2

(* The two processes are interchangeable, each with its actor.  Used in    *)
(* runs without liveness properties only.                                  *)
Swap == {a1 :> a2 @@ a2 :> a1 @@ p1 :> p2 @@ p2 :> p1}

=============================================================================
