---------------------------- MODULE RateLimiter ----------------------------
(***************************************************************************)
(* One limiter of internal/mcpserver/ratelimit.go under any sequence of    *)
(* its operations.  Every operation runs under the mutex and reads the     *)
(* clock there, so each is one action.                                     *)
(***************************************************************************)
EXTENDS TokenBucket

CONSTANT MaxClock   \* bound of the model: the clock stops here

ASSUME LimiterAssumption ==
    /\ Limit \in Nat \ {0} /\ Window \in Nat \ {0} /\ MaxKeys \in Nat \ {0}
    /\ MaxClock \in Nat /\ IsFiniteSet(Keys) /\ Absent \notin Bucket

VARIABLES
    clock,     \* seconds, monotonic
    entries,   \* rateLimiter.entries
    ideal,     \* history: the table of a limiter without an upper bound on keys
    forced,    \* history: keys that lost a depleted bucket because all were depleted
    grants     \* history: grants[k][t], the calls of allow for k granted at time t or later

vars == <<clock, entries, ideal, forced, grants>>

TypeOK ==
    /\ clock \in Nat
    /\ entries \in Tables /\ ideal \in Tables
    /\ forced \subseteq Keys
    /\ grants \in [Keys -> [0..MaxClock -> Nat]]

Nothing == [t \in 0..MaxClock |-> 0]

Init ==
    /\ clock = 0 /\ entries = Empty /\ ideal = Empty /\ forced = {}
    /\ grants = [k \in Keys |-> Nothing]

(* A loss under pressure: every bucket was depleted and this was the one *)
(* unused for longest.                                                   *)
Pressed == IF Depleted(entries, clock) = Present(entries)
           THEN {k \in Oldest(entries, Present(entries)) : entries'[k] = Absent} ELSE {}

(* The histories, which stop for a key that lost its bucket under pressure. *)
Remember(spent, granted) ==
    /\ forced' = forced \cup Pressed
    /\ ideal' = [k \in Keys |-> IF k \in forced' THEN Absent ELSE spent[k]]
    /\ grants' = [k \in Keys |-> IF k \in forced' THEN Nothing ELSE granted[k]]

(* One more call granted to k now, in every stretch of time that has begun. *)
Granted(k) ==
    [grants EXCEPT ![k] = [t \in 0..MaxClock |-> grants[k][t] + IF t <= clock THEN 1 ELSE 0]]

(* The table without a bound, brought up to date. *)
IdealTouched(k) ==
    [ideal EXCEPT ![k] = [tokens |-> Level(ideal, k, clock), seen |-> clock]]

Allow(k) ==
    /\ \E table \in Touched(entries, k, clock) :
         /\ entries' = Charged(table, k)
         /\ Remember(Charged(IdealTouched(k), k),
                     IF HasToken(table, k) THEN Granted(k) ELSE grants)
    /\ UNCHANGED clock

Penalize(k) ==
    /\ \E table \in Touched(entries, k, clock) : entries' = Charged(table, k)
    /\ Remember(Charged(IdealTouched(k), k), grants)
    /\ UNCHANGED clock

Permitted(k) ==
    /\ entries' \in Touched(entries, k, clock)
    /\ Remember(IdealTouched(k), grants)
    /\ UNCHANGED clock

Tick == clock < MaxClock /\ clock' = clock + 1 /\ UNCHANGED <<entries, ideal, forced, grants>>

Next == (\E k \in Keys : Allow(k) \/ Penalize(k) \/ Permitted(k)) \/ Tick

Spec == Init /\ [][Next]_vars

-----------------------------------------------------------------------------
(* Properties *)

(* A key whose bucket was never taken from it under pressure is granted, in  *)
(* any stretch of time up to now, at most a full bucket and what that        *)
(* stretch restores.                                                         *)
NeverOverspends ==
    \A k \in Keys \ forced : \A t \in 0..clock :
        Window * grants[k][t] <= Full + (clock - t) * Limit

(* However many different keys callers present, the limiter keeps at most    *)
(* maxEntries buckets, and dropping recovered ones goes unnoticed: but for    *)
(* keys that lost theirs under pressure, every key can spend exactly what it *)
(* could if the limiter never forgot a key.  (With it, the type invariant.)  *)
EvictionUnnoticed ==
    /\ TypeOK
    /\ Cardinality(Present(entries)) <= MaxKeys
    /\ \A k \in Keys \ forced : Level(entries, k, clock) = Level(ideal, k, clock)
=============================================================================
