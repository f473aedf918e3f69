---------------------------- MODULE CacheManifest ----------------------------
(***************************************************************************)
(* What the cache manifest promises its writers, whatever the number of    *)
(* processes and threads that share one cache directory: every write       *)
(* replaces one entry, removes one entry, or reclaims exactly the expired  *)
(* cache copies of some moment up to now.  No write disturbs another       *)
(* writer's entry, and none but a removal by name takes a materialized     *)
(* entry away.  CacheStore is shown to implement this specification.       *)
(***************************************************************************)
EXTENDS CacheEntries

VARIABLES
    manifest,   \* the committed manifest
    clock       \* the wall clock

Init ==
    /\ manifest = EmptyManifest
    /\ clock = 0

Tick ==
    /\ clock' = clock + 1
    /\ UNCHANGED manifest

Upsert(t) ==
    /\ \E r \in Versions, now \in 0..clock :
           manifest' = With(manifest, t, NewEntry(t, r, now))
    /\ UNCHANGED clock

Remove(t) ==
    /\ manifest' = Without(manifest, {t})
    /\ UNCHANGED clock

Reclaim ==
    /\ \E now \in 0..clock :
           manifest' = Without(manifest, Expired(manifest, now))
    /\ UNCHANGED clock

Next ==
    \/ Tick
    \/ \E t \in Tables : Upsert(t) \/ Remove(t)
    \/ Reclaim

Spec == Init /\ [][Next]_<<manifest, clock>>

=============================================================================
