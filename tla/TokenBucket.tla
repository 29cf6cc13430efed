---------------------------- MODULE TokenBucket ----------------------------
(***************************************************************************)
(* The arithmetic of internal/mcpserver/ratelimit.go: a table of token     *)
(* buckets, one per key, with at most MaxKeys of them.                     *)
(*                                                                         *)
(* The code counts in floating point, Limit tokens per Window seconds.     *)
(* Here a token is Window units and a second restores Limit units, which   *)
(* is the same arithmetic in integers.                                     *)
(***************************************************************************)
EXTENDS Naturals, FiniteSets

CONSTANTS
    Keys,
    Limit,    \* requests per window, the bucket's capacity
    Window,   \* seconds
    MaxKeys,  \* maxEntries
    Absent    \* a key without a bucket

Full == Limit * Window

Bucket == [tokens : 0..Full, seen : Nat]
Tables == [Keys -> Bucket \cup {Absent}]
Empty == [k \in Keys |-> Absent]

Present(table) == {k \in Keys : table[k] # Absent}
Keep(table, S) == [k \in Keys |-> IF k \in S THEN table[k] ELSE Absent]

(* Mutated form: tokens pile up while the key is not used. *)
RecoveredUncapped(e, at) == e.tokens + (at - e.seen) * Limit
Recovered(e, at) ==
    LET sum == e.tokens + (at - e.seen) * Limit IN IF sum < Full THEN sum ELSE Full

(* Mutated form: a bucket that misses one request counts as recovered. *)
DepletedMuch(table, at) == {k \in Present(table) : Recovered(table[k], at) + Window < Full}
(* The buckets whose loss would change a decision. *)
Depleted(table, at) == {k \in Present(table) : Recovered(table[k], at) < Full}
Oldest(table, S) == {k \in S : \A j \in S : table[k].seen <= table[j].seen}

(* evictLocked: what the table may be once there is room for another key.  A *)
(* full table first loses the recovered buckets, then the one unused for     *)
(* longest; the map's iteration order decides between equals.                *)
Evicted(table, at) ==
    LET needed == Depleted(table, at) IN
    IF Cardinality(Present(table)) < MaxKeys THEN {table}
    ELSE IF Cardinality(needed) < MaxKeys THEN {Keep(table, needed)}
    ELSE {Keep(table, needed \ {k}) : k \in Oldest(table, needed)}

(* entryLocked: the key's bucket brought up to date, or a new full one. *)
Touched(table, k, at) ==
    IF table[k] # Absent
    THEN {[table EXCEPT ![k] = [tokens |-> Recovered(table[k], at), seen |-> at]]}
    ELSE {[t EXCEPT ![k] = [tokens |-> Full, seen |-> at]] : t \in Evicted(table, at)}

HasToken(table, k) == table[k].tokens >= Window
Spent(table, k) == [table EXCEPT ![k].tokens = @ - Window]

(* allow and penalize both take a token when there is one. *)
Charged(table, k) == IF HasToken(table, k) THEN Spent(table, k) ELSE table

(* What a key could spend at a time, bucket or none. *)
Level(table, k, at) == IF table[k] = Absent THEN Full ELSE Recovered(table[k], at)
=============================================================================
