------------------------------ MODULE KvStore ------------------------------
(***************************************************************************)
(* What DB (src/storage/db.h) promises its callers: a map from keys to     *)
(* values that survives a crash.  An acknowledged write takes effect and   *)
(* stays.  A write that returned an error either took effect all the same, *)
(* because the error came after it, or is in doubt: it has no effect now,  *)
(* and the next restart may or may not bring it back, unless a later write *)
(* to the same key took effect in the meantime.  The map changes by calls, *)
(* which are counted, and by restarts, which are not calls.                *)
(***************************************************************************)
EXTENDS Naturals

CONSTANTS
    Key,
    Value          \* includes the "value" of a key that is not found

VARIABLES
    store,         \* the value of every key
    doubt,         \* the writes that failed without effect since the last restart
    acked,         \* how many calls have returned OK
    failed         \* how many calls have returned an error

vars == <<store, doubt, acked, failed>>

Init ==
    /\ store \in [Key -> Value]
    /\ doubt = {}
    /\ acked = 0 /\ failed = 0

TakeEffect(k, v) ==
    /\ store' = [store EXCEPT ![k] = v]
    /\ doubt' = {d \in doubt : d.key # k}

(* DB::Put and DB::Delete that return OK. *)
Write(k, v) ==
    /\ TakeEffect(k, v)
    /\ acked' = acked + 1
    /\ UNCHANGED failed

(* DB::Put and DB::Delete that return an error before the write is applied. *)
Fail(k, v) ==
    /\ doubt' = doubt \cup {[key |-> k, value |-> v]}
    /\ failed' = failed + 1
    /\ UNCHANGED <<store, acked>>

(* DB::Put and DB::Delete that return an error after the write is applied. *)
FailLate(k, v) ==
    /\ TakeEffect(k, v)
    /\ failed' = failed + 1
    /\ UNCHANGED acked

(* The process stops and DB::Open recovers.  Nobody called. *)
Restart ==
    /\ store' \in [Key -> Value]
    /\ \A k \in Key : store'[k] # store[k] => [key |-> k, value |-> store'[k]] \in doubt
    /\ doubt' = {}
    /\ UNCHANGED <<acked, failed>>

Next ==
    \/ \E k \in Key, v \in Value : Write(k, v) \/ Fail(k, v) \/ FailLate(k, v)
    \/ Restart

Spec == Init /\ [][Next]_vars

=============================================================================
