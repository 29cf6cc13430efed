-------------------------- MODULE RateLimiter_proofs --------------------------
(* Proofs about RateLimiter, for every number of keys, every limit and window *)
(* and every bound on the keys.                                               *)
EXTENDS RateLimiter, TLAPS, FiniteSetTheorems

-----------------------------------------------------------------------------
(* The inductive invariant. *)

(* No bucket was last used in the future, so that recovery never takes tokens away. *)
TableOK(table, at) == table \in Tables /\ \A k \in Keys : table[k] # Absent => table[k].seen <= at

TablesOK == TableOK(entries, clock) /\ TableOK(ideal, clock)

BoundedInv == clock \in 0..MaxClock /\ Cardinality(Present(entries)) <= MaxKeys

(* A bucket is the one the unbounded limiter has, or was dropped when that one *)
(* was full.                                                                   *)
SameInv ==
    \A k \in Keys \ forced :
        \/ entries[k] = ideal[k]
        \/ entries[k] = Absent /\ Level(ideal, k, clock) = Full

(* What was granted and what is left together are no more than a full bucket *)
(* and what was restored; nothing is granted ahead of time.                  *)
SpentInv ==
    \A k \in Keys \ forced : \A t \in 0..MaxClock :
        IF t <= clock THEN Window * grants[k][t] + Level(ideal, k, clock) <= Full + (clock - t) * Limit
                      ELSE grants[k][t] = 0

IInv == TypeOK /\ TablesOK /\ BoundedInv /\ SameInv /\ SpentInv

-----------------------------------------------------------------------------
(* The arithmetic of a bucket. *)

LEMMA FullTyped == Full \in Nat /\ Limit \in Nat /\ Window \in Nat \ {0} /\ Absent \notin Bucket
  BY LimiterAssumption DEF Full

LEMMA Recovers ==
    ASSUME NEW at \in Nat, NEW e \in Bucket, e.seen <= at
    PROVE  /\ Recovered(e, at) \in 0..Full
           /\ e.seen = at => Recovered(e, at) = e.tokens
           /\ Recovered(e, at + 1) = IF Recovered(e, at) + Limit < Full THEN Recovered(e, at) + Limit ELSE Full
  <1> DEFINE gain == (at - e.seen) * Limit
  <1>1. e.tokens \in Nat /\ e.tokens <= Full /\ e.seen \in Nat BY FullTyped DEF Bucket
  <1>2. gain \in Nat BY <1>1, FullTyped
  <1>3. ((at + 1) - e.seen) * Limit = gain + Limit
    <2>1. ASSUME NEW d \in Nat, NEW m \in Nat PROVE (d + 1) * m = d * m + m OBVIOUS
    <2>2. (at - e.seen) \in Nat /\ (at + 1) - e.seen = (at - e.seen) + 1 BY <1>1
    <2> QED BY <2>1, <2>2, FullTyped
  <1>4. e.seen = at => gain = 0 BY FullTyped
  <1>5. Recovered(e, at) = IF e.tokens + gain < Full THEN e.tokens + gain ELSE Full BY DEF Recovered
  <1>6. Recovered(e, at + 1) = IF e.tokens + (gain + Limit) < Full THEN e.tokens + (gain + Limit) ELSE Full
    BY <1>3 DEF Recovered
  <1> HIDE DEF gain
  <1> QED BY <1>1, <1>2, <1>4, <1>5, <1>6, FullTyped

(* What a key can spend, now and a second later. *)
LEMMA LevelTyped ==
    ASSUME NEW at \in Nat, NEW table, TableOK(table, at), NEW k \in Keys
    PROVE  /\ Level(table, k, at) \in 0..Full
           /\ Level(table, k, at + 1) =
                IF Level(table, k, at) + Limit < Full THEN Level(table, k, at) + Limit ELSE Full
  <1>1. CASE table[k] = Absent BY <1>1, FullTyped DEF Level
  <1>2. CASE table[k] # Absent
    <2>1. table[k] \in Bucket /\ table[k].seen <= at BY <1>2 DEF TableOK, Tables
    <2> QED BY <1>2, <2>1, Recovers DEF Level
  <1> QED BY <1>1, <1>2

-----------------------------------------------------------------------------
(* Eviction. *)

LEMMA PresentFinite ==
    ASSUME NEW S, S \subseteq Keys
    PROVE  IsFiniteSet(S) /\ Cardinality(S) \in Nat
  BY LimiterAssumption, FS_Subset, FS_CardinalityType

LEMMA KeepKeeps ==
    ASSUME NEW table \in Tables, NEW S, S \subseteq Present(table)
    PROVE  /\ Keep(table, S) \in Tables
           /\ Present(Keep(table, S)) = S
           /\ \A j \in Keys : Keep(table, S)[j] = IF j \in S THEN table[j] ELSE Absent
  <1>1. \A j \in Keys : Keep(table, S)[j] = IF j \in S THEN table[j] ELSE Absent BY DEF Keep
  <1>2. Keep(table, S) \in Tables BY DEF Keep, Tables
  <1>3. Present(Keep(table, S)) = S BY <1>1 DEF Present
  <1> QED BY <1>1, <1>2, <1>3

(* Who lost a bucket that was not full: all were depleted, and nobody's was *)
(* unused for longer.                                                       *)
PressedOut(table, j, at) == Depleted(table, at) = Present(table) /\ j \in Oldest(table, Present(table))

(* A table that needs room has it afterwards, and a bucket is dropped only *)
(* when it is full or under pressure.                                      *)
LEMMA EvictedKeeps ==
    ASSUME NEW at \in Nat, NEW table, TableOK(table, at), Cardinality(Present(table)) <= MaxKeys,
           NEW s \in Evicted(table, at)
    PROVE  /\ s \in Tables /\ Present(s) \subseteq Present(table) /\ Cardinality(Present(s)) < MaxKeys
           /\ \A j \in Keys : \/ s[j] = table[j]
                              \/ s[j] = Absent /\ (Level(table, j, at) = Full \/ PressedOut(table, j, at))
  <1> DEFINE needed == Depleted(table, at)
  <1>0. table \in Tables /\ needed \subseteq Present(table) /\ Present(table) \subseteq Keys /\ MaxKeys \in Nat \ {0}
    BY LimiterAssumption DEF TableOK, Depleted, Present
  <1>1. /\ IsFiniteSet(Present(table)) /\ Cardinality(Present(table)) \in Nat
        /\ IsFiniteSet(needed) /\ Cardinality(needed) \in Nat
    BY <1>0, PresentFinite
  <1>2. \A j \in Keys : j \notin needed => table[j] = Absent \/ Level(table, j, at) = Full
    <2> SUFFICES ASSUME NEW j \in Keys, table[j] # Absent, ~(Recovered(table[j], at) < Full)
                 PROVE  Level(table, j, at) = Full
      BY DEF Depleted, Present
    <2> QED BY LevelTyped, FullTyped DEF Level
  <1>3. CASE Cardinality(Present(table)) < MaxKeys
    <2>1. s = table BY <1>3 DEF Evicted
    <2> QED BY <1>0, <1>3, <2>1
  <1>4. CASE ~(Cardinality(Present(table)) < MaxKeys) /\ Cardinality(needed) < MaxKeys
    <2>1. s = Keep(table, needed) BY <1>4 DEF Evicted
    <2>2. s \in Tables /\ Present(s) = needed /\ \A j \in Keys : s[j] = IF j \in needed THEN table[j] ELSE Absent
      BY <1>0, <2>1, KeepKeeps
    <2> HIDE DEF needed
    <2> QED BY <1>0, <1>2, <1>4, <2>2
  <1>5. CASE ~(Cardinality(Present(table)) < MaxKeys) /\ ~(Cardinality(needed) < MaxKeys)
    <2>1. needed = Present(table)
      <3>1. Cardinality(needed) = Cardinality(Present(table))
        BY <1>0, <1>1, <1>5, FS_Subset
      <3> QED BY <1>0, <1>1, <3>1, FS_Subset
    <2>2. PICK k \in Oldest(table, needed) : s = Keep(table, needed \ {k}) BY <1>5 DEF Evicted
    <2>3. k \in needed BY <2>2 DEF Oldest
    <2>4. /\ s \in Tables /\ Present(s) = needed \ {k}
          /\ \A j \in Keys : s[j] = IF j \in needed \ {k} THEN table[j] ELSE Absent
      BY <1>0, <2>2, KeepKeeps
    <2>5. Cardinality(needed \ {k}) = Cardinality(needed) - 1 BY <1>1, <2>3, FS_RemoveElement
    <2>6. Cardinality(needed \ {k}) < MaxKeys BY <1>0, <1>1, <2>1, <2>5
    <2>7. PressedOut(table, k, at) BY <2>1, <2>2 DEF PressedOut
    <2>8. Present(s) \subseteq Present(table) BY <1>0, <2>4
    <2> HIDE DEF needed
    <2>9. ASSUME NEW j \in Keys
          PROVE  \/ s[j] = table[j]
                 \/ s[j] = Absent /\ (Level(table, j, at) = Full \/ PressedOut(table, j, at))
      BY <1>2, <2>4, <2>7
    <2> QED BY <2>4, <2>6, <2>8, <2>9
  <1> QED BY <1>3, <1>4, <1>5

-----------------------------------------------------------------------------
(* One operation: the key's bucket is brought up to date and may be charged. *)

LEMMA TouchedKeeps ==
    ASSUME NEW at \in Nat, NEW table, TableOK(table, at), Cardinality(Present(table)) <= MaxKeys,
           NEW k \in Keys, NEW u \in Touched(table, k, at)
    PROVE  /\ u \in Tables /\ Cardinality(Present(u)) <= MaxKeys
           /\ u[k] = [tokens |-> Level(table, k, at), seen |-> at]
           /\ \A j \in Keys \ {k} : \/ u[j] = table[j]
                                    \/ u[j] = Absent /\ (Level(table, j, at) = Full \/ PressedOut(table, j, at))
  <1> DEFINE b == [tokens |-> Level(table, k, at), seen |-> at]
  <1>1. table \in Tables /\ Level(table, k, at) \in 0..Full BY LevelTyped DEF TableOK
  <1>2. b \in Bucket /\ b # Absent BY <1>1, FullTyped DEF Bucket
  <1>3. MaxKeys \in Nat \ {0} BY LimiterAssumption
  <1>4. CASE table[k] # Absent
    <2>1. u = [table EXCEPT ![k] = b] BY <1>4 DEF Touched, Level
    <2> HIDE DEF b
    <2>2. u \in [Keys -> Bucket \cup {Absent}] BY <1>1, <1>2, <2>1 DEF Tables
    <2>3. u[k] = b /\ \A j \in Keys \ {k} : u[j] = table[j] BY <1>1, <2>1 DEF Tables
    <2>4. Present(u) = Present(table) BY <1>2, <1>4, <2>3 DEF Present
    <2> QED BY <2>2, <2>3, <2>4 DEF Tables, b
  <1>5. CASE table[k] = Absent
    <2>1. b = [tokens |-> Full, seen |-> at] BY <1>5 DEF Level
    <2>2. PICK s \in Evicted(table, at) : u = [s EXCEPT ![k] = b] BY <1>5, <2>1 DEF Touched
    <2>3. /\ s \in Tables /\ Present(s) \subseteq Present(table) /\ Cardinality(Present(s)) < MaxKeys
          /\ \A j \in Keys : \/ s[j] = table[j]
                             \/ s[j] = Absent /\ (Level(table, j, at) = Full \/ PressedOut(table, j, at))
      BY EvictedKeeps
    <2> HIDE DEF b
    <2>4. u \in [Keys -> Bucket \cup {Absent}] BY <1>2, <2>2, <2>3 DEF Tables
    <2>5. u[k] = b /\ \A j \in Keys \ {k} : u[j] = s[j] BY <2>2, <2>3 DEF Tables
    <2>6. Present(u) = Present(s) \cup {k} BY <1>2, <2>5 DEF Present
    <2>7. Present(s) \subseteq Keys /\ k \notin Present(s) BY <1>5, <2>3 DEF Present
    <2>8. Cardinality(Present(u)) = Cardinality(Present(s)) + 1 BY <2>6, <2>7, PresentFinite, FS_AddElement
    <2>9. Cardinality(Present(u)) <= MaxKeys BY <1>3, <2>3, <2>7, <2>8, PresentFinite
    <2> QED BY <2>3, <2>4, <2>5, <2>9 DEF Tables, b
  <1> QED BY <1>4, <1>5

(* Charging takes one token when there is one. *)
LEMMA ChargedKeeps ==
    ASSUME NEW at \in Nat, NEW u \in Tables, NEW k \in Keys, NEW n \in 0..Full,
           u[k] = [tokens |-> n, seen |-> at]
    PROVE  /\ Charged(u, k) \in Tables /\ Present(Charged(u, k)) = Present(u)
           /\ (IF n >= Window THEN n - Window ELSE n) \in 0..Full
           /\ Charged(u, k)[k] = [tokens |-> IF n >= Window THEN n - Window ELSE n, seen |-> at]
           /\ \A j \in Keys \ {k} : Charged(u, k)[j] = u[j]
           /\ HasToken(u, k) <=> n >= Window
  <1>1. HasToken(u, k) <=> n >= Window BY DEF HasToken
  <1>2. CASE n >= Window
    <2> DEFINE c == [tokens |-> n - Window, seen |-> at]
    <2>1. Charged(u, k) = [u EXCEPT ![k] = c]
      <3>1. [u[k] EXCEPT !.tokens = @ - Window] = c OBVIOUS
      <3>2. Charged(u, k) = [u EXCEPT ![k] = [u[k] EXCEPT !.tokens = @ - Window]]
        BY <1>1, <1>2 DEF Charged, Spent
      <3> QED BY <3>1, <3>2
    <2>2. n - Window \in 0..Full BY <1>2, FullTyped
    <2>3. c \in Bucket /\ c # Absent /\ u[k] # Absent BY <2>2, FullTyped DEF Bucket
    <2> HIDE DEF c
    <2>4. Charged(u, k) \in Tables BY <2>1, <2>3 DEF Tables
    <2>5. Charged(u, k)[k] = c /\ \A j \in Keys \ {k} : Charged(u, k)[j] = u[j] BY <2>1 DEF Tables
    <2>6. Present(Charged(u, k)) = Present(u) BY <2>3, <2>5 DEF Present
    <2> QED BY <1>1, <1>2, <2>2, <2>4, <2>5, <2>6 DEF c
  <1>3. CASE ~(n >= Window)
    <2>1. Charged(u, k) = u BY <1>1, <1>3 DEF Charged
    <2> QED BY <1>1, <1>3, <2>1
  <1> QED BY <1>2, <1>3

-----------------------------------------------------------------------------
(* The steps. *)

(* But for keys that lost theirs under pressure, every key can spend what it *)
(* could with the unbounded limiter.                                         *)
LEMMA SameLevel ==
    ASSUME SameInv, NEW k \in Keys \ forced
    PROVE  Level(entries, k, clock) = Level(ideal, k, clock)
  BY DEF SameInv, Level

GrantTable == [Keys -> [0..MaxClock -> Nat]]

(* What the three operations have in common: k is left with so many tokens, of *)
(* those it had, and possibly one of them for a call that is granted; the      *)
(* histories follow for every key that was not pressed out.                    *)
Operates(k, left, granted) ==
    /\ clock' = clock /\ forced' = forced \cup Pressed
    /\ left \in 0..Level(entries, k, clock)
    /\ granted => left = Level(entries, k, clock) - Window
    /\ entries' \in Tables /\ Cardinality(Present(entries')) <= MaxKeys
    /\ entries'[k] = [tokens |-> left, seen |-> clock]
    /\ \A j \in Keys \ {k} :
         \/ entries'[j] = entries[j]
         \/ entries'[j] = Absent /\ (Level(entries, j, clock) = Full \/ PressedOut(entries, j, clock))
    /\ ideal' \in Tables /\ grants' \in GrantTable
    /\ \A j \in Keys \ {k} : j \notin forced' => ideal'[j] = ideal[j] /\ grants'[j] = grants[j]
    /\ \A j \in Keys : j \in forced' => ideal'[j] = Absent
    /\ k \notin forced' =>
         /\ ideal'[k] = [tokens |-> left, seen |-> clock]
         /\ \A t \in 0..MaxClock : grants'[k][t] = grants[k][t] + IF granted /\ t <= clock THEN 1 ELSE 0

LEMMA OperationStep ==
    ASSUME IInv, NEW k \in Keys, NEW left \in Nat, NEW granted \in BOOLEAN, Operates(k, left, granted)
    PROVE  IInv'
  <1> DEFINE b == [tokens |-> left, seen |-> clock]
  <1>0. /\ clock \in Nat /\ clock' = clock /\ forced' = forced \cup Pressed /\ forced \subseteq Keys
        /\ entries \in Tables /\ ideal \in Tables /\ entries' \in Tables /\ ideal' \in Tables
        /\ TableOK(entries, clock) /\ TableOK(ideal, clock)
        /\ grants \in GrantTable /\ grants' \in GrantTable
    BY DEF IInv, TypeOK, TablesOK, Operates, GrantTable
  <1>1. Pressed \subseteq Keys BY DEF Pressed, Oldest, Present
  <1>2. TypeOK' BY <1>0, <1>1 DEF TypeOK, GrantTable
  <1>3. left <= Full BY <1>0, LevelTyped, FullTyped DEF Operates
  <1>4. b \in Bucket /\ b # Absent /\ b.seen = clock /\ b.tokens = left BY <1>0, <1>3, FullTyped DEF Bucket
  <1> HIDE DEF b
  <1>5. entries'[k] = b /\ (k \notin forced' => ideal'[k] = b) BY DEF Operates, b
  <1>6. TableOK(entries', clock)
    <2>1. \A j \in Keys \ {k} : entries'[j] = entries[j] \/ entries'[j] = Absent BY DEF Operates
    <2> QED BY <1>0, <1>4, <1>5, <2>1 DEF TableOK
  <1>7. TableOK(ideal', clock)
    <2>1. /\ \A j \in Keys \ {k} : j \notin forced' => ideal'[j] = ideal[j]
          /\ \A j \in Keys : j \in forced' => ideal'[j] = Absent
      BY DEF Operates
    <2> QED BY <1>0, <1>4, <1>5, <2>1 DEF TableOK
  <1>8. TablesOK' BY <1>0, <1>6, <1>7 DEF TablesOK, TableOK
  <1>9. BoundedInv' BY DEF IInv, BoundedInv, Operates, Present
  <1>10. ASSUME NEW j \in Keys \ forced', j # k
         PROVE  j \notin forced /\ ideal'[j] = ideal[j] /\ grants'[j] = grants[j]
                /\ Level(ideal, j, clock)' = Level(ideal, j, clock)
    <2>1. j \notin forced /\ ideal'[j] = ideal[j] /\ grants'[j] = grants[j] BY <1>0, <1>10 DEF Operates
    <2> QED BY <1>0, <2>1 DEF Level, Recovered
  <1>11. ASSUME k \notin forced' PROVE k \notin forced /\ Level(ideal, k, clock)' = left
    <2>1. k \notin forced /\ ideal'[k] = b BY <1>0, <1>5, <1>11
    <2>2. Recovered(b, clock) = left BY <1>0, <1>4, Recovers
    <2> QED BY <1>0, <1>4, <2>1, <2>2 DEF Level, Recovered
  <1>12. SameInv'
    <2> SUFFICES ASSUME NEW j \in Keys \ forced'
                 PROVE  \/ entries'[j] = ideal'[j]
                        \/ entries'[j] = Absent /\ Level(ideal, j, clock)' = Full
      BY DEF SameInv
    <2>1. CASE j = k BY <1>5, <2>1
    <2>2. CASE j # k
      <3>1. /\ j \notin forced /\ ideal'[j] = ideal[j]
            /\ Level(ideal, j, clock)' = Level(ideal, j, clock)
        BY <1>10, <2>2
      <3>2. \/ entries[j] = ideal[j]
            \/ entries[j] = Absent /\ Level(ideal, j, clock) = Full
        BY <3>1 DEF IInv, SameInv
      <3>3. Level(entries, j, clock) = Level(ideal, j, clock) BY <3>1, SameLevel DEF IInv
      <3>4. CASE entries'[j] = entries[j] BY <3>1, <3>2, <3>4
      <3>5. CASE entries'[j] = Absent /\ Level(entries, j, clock) = Full BY <3>1, <3>3, <3>5
      <3>6. CASE entries'[j] = Absent /\ PressedOut(entries, j, clock)
        <4>1. j \in Pressed BY <3>6 DEF Pressed, PressedOut
        <4> QED BY <1>0, <4>1
      <3> QED BY <2>2, <3>4, <3>5, <3>6 DEF Operates
    <2> QED BY <2>1, <2>2
  <1>13. SpentInv'
    <2> SUFFICES ASSUME NEW j \in Keys \ forced', NEW t \in 0..MaxClock
                 PROVE  IF t <= clock
                        THEN Window * grants'[j][t] + Level(ideal, j, clock)' <= Full + (clock - t) * Limit
                        ELSE grants'[j][t] = 0
      BY <1>0 DEF SpentInv
    <2>1. CASE j = k
      <3>1. k \notin forced /\ Level(ideal, k, clock)' = left BY <1>11, <2>1
      <3>2. /\ Level(ideal, k, clock) = Level(entries, k, clock)
            /\ Level(entries, k, clock) \in Nat /\ left <= Level(entries, k, clock)
            /\ granted => left = Level(entries, k, clock) - Window
        BY <1>0, <3>1, SameLevel, LevelTyped, FullTyped DEF IInv, Operates
      <3>3. /\ grants[k][t] \in Nat
            /\ grants'[k][t] = grants[k][t] + IF granted /\ t <= clock THEN 1 ELSE 0
        <4>1. grants[k][t] \in Nat BY <1>0 DEF GrantTable
        <4>2. k \notin forced' BY <2>1
        <4>3. \A i \in 0..MaxClock : grants'[k][i] = grants[k][i] + IF granted /\ i <= clock THEN 1 ELSE 0
          BY <4>2, Zenon DEF Operates
        <4> QED BY <4>1, <4>3
      <3>4. IF t <= clock THEN Window * grants[k][t] + Level(entries, k, clock) <= Full + (clock - t) * Limit
                          ELSE grants[k][t] = 0
        BY <3>1, <3>2 DEF IInv, SpentInv
      <3> DEFINE room == Full + (clock - t) * Limit
      <3>5. t <= clock => room \in Nat BY <1>0, FullTyped
      <3> HIDE DEF room
      <3>6. CASE t <= clock
        <4>1. Window * grants[k][t] + Level(entries, k, clock) <= room BY <3>4, <3>6 DEF room
        <4>2. Window * (grants[k][t] + 1) = Window * grants[k][t] + Window BY <3>3, FullTyped
        <4>3. Window * grants[k][t] \in Nat BY <3>3, FullTyped
        <4>4. Window * grants'[k][t] + left <= room
          BY <3>2, <3>3, <3>5, <3>6, <4>1, <4>2, <4>3, FullTyped
        <4> QED BY <2>1, <3>1, <3>6, <4>4 DEF room
      <3>7. CASE ~(t <= clock) BY <2>1, <3>3, <3>4, <3>7
      <3> QED BY <3>6, <3>7
    <2>2. CASE j # k
      <3>1. /\ j \notin forced /\ grants'[j] = grants[j]
            /\ Level(ideal, j, clock)' = Level(ideal, j, clock)
        BY <1>10, <2>2
      <3> QED BY <3>1 DEF IInv, SpentInv
    <2> QED BY <2>1, <2>2
  <1> QED BY <1>2, <1>8, <1>9, <1>12, <1>13 DEF IInv

(* What IdealTouched and the charge of it leave to k when it was never pressed out. *)
LEMMA IdealKeeps ==
    ASSUME IInv, NEW k \in Keys
    PROVE  LET n == Level(ideal, k, clock) IN
           /\ IdealTouched(k) \in Tables /\ n \in 0..Full
           /\ IdealTouched(k)[k] = [tokens |-> n, seen |-> clock]
           /\ \A j \in Keys \ {k} : IdealTouched(k)[j] = ideal[j]
           /\ Charged(IdealTouched(k), k) \in Tables
           /\ Charged(IdealTouched(k), k)[k] = [tokens |-> IF n >= Window THEN n - Window ELSE n, seen |-> clock]
           /\ \A j \in Keys \ {k} : Charged(IdealTouched(k), k)[j] = ideal[j]
  <1> DEFINE n == Level(ideal, k, clock)
             b == [tokens |-> n, seen |-> clock]
  <1>1. ideal \in Tables /\ clock \in Nat /\ n \in 0..Full BY LevelTyped DEF IInv, TypeOK, TablesOK
  <1>2. b \in Bucket BY <1>1 DEF Bucket
  <1>3. IdealTouched(k) = [ideal EXCEPT ![k] = b] BY DEF IdealTouched
  <1>4. IdealTouched(k) \in Tables /\ IdealTouched(k)[k] = b /\ \A j \in Keys \ {k} : IdealTouched(k)[j] = ideal[j]
    <2> HIDE DEF b
    <2> QED BY <1>1, <1>2, <1>3 DEF Tables
  <1> HIDE DEF n
  <1>5. /\ Charged(IdealTouched(k), k) \in Tables
        /\ Charged(IdealTouched(k), k)[k] = [tokens |-> IF n >= Window THEN n - Window ELSE n, seen |-> clock]
        /\ \A j \in Keys \ {k} : Charged(IdealTouched(k), k)[j] = IdealTouched(k)[j]
    BY <1>1, <1>4, ChargedKeeps
  <1> QED BY <1>1, <1>4, <1>5 DEF n

(* The histories after an operation on k, for what it spends in the unbounded *)
(* table and what is granted.                                                 *)
LEMMA Remembers ==
    ASSUME IInv, NEW k \in Keys, NEW spent \in Tables, NEW granted \in GrantTable, Remember(spent, granted)
    PROVE  /\ forced' = forced \cup Pressed
           /\ ideal' \in Tables /\ grants' \in GrantTable
           /\ \A j \in Keys : j \notin forced' => ideal'[j] = spent[j] /\ grants'[j] = granted[j]
           /\ \A j \in Keys : j \in forced' => ideal'[j] = Absent
  <1>1. /\ forced' = forced \cup Pressed
        /\ ideal' = [j \in Keys |-> IF j \in forced' THEN Absent ELSE spent[j]]
        /\ grants' = [j \in Keys |-> IF j \in forced' THEN Nothing ELSE granted[j]]
    BY DEF Remember
  <1>2. Nothing \in [0..MaxClock -> Nat] BY DEF Nothing
  <1>3. ideal' \in Tables BY <1>1 DEF Tables
  <1>4. grants' \in GrantTable BY <1>1, <1>2 DEF GrantTable
  <1> QED BY <1>1, <1>3, <1>4

LEMMA OneGranted ==
    ASSUME IInv, NEW k \in Keys
    PROVE  /\ grants \in GrantTable /\ Granted(k) \in GrantTable
           /\ \A j \in Keys \ {k} : Granted(k)[j] = grants[j]
           /\ \A t \in 0..MaxClock : Granted(k)[k][t] = grants[k][t] + IF t <= clock THEN 1 ELSE 0
  <1> DEFINE g == [t \in 0..MaxClock |-> grants[k][t] + IF t <= clock THEN 1 ELSE 0]
  <1>1. grants \in GrantTable BY DEF IInv, TypeOK, GrantTable
  <1>2. \A t \in 0..MaxClock : grants[k][t] \in Nat BY <1>1 DEF GrantTable
  <1>3. g \in [0..MaxClock -> Nat] BY <1>2
  <1>4. \A t \in 0..MaxClock : g[t] = grants[k][t] + IF t <= clock THEN 1 ELSE 0 OBVIOUS
  <1>5. Granted(k) = [grants EXCEPT ![k] = g] BY DEF Granted
  <1> HIDE DEF g
  <1> QED BY <1>1, <1>3, <1>4, <1>5 DEF GrantTable

LEMMA AllowStep == ASSUME IInv, NEW k \in Keys, Allow(k) PROVE IInv'
  <1> DEFINE n == Level(entries, k, clock)
             left == IF n >= Window THEN n - Window ELSE n
             granted == n >= Window
             history == IF granted THEN Granted(k) ELSE grants
             spent == Charged(IdealTouched(k), k)
  <1>0. /\ clock \in Nat /\ TableOK(entries, clock) /\ Cardinality(Present(entries)) <= MaxKeys
        /\ n \in 0..Full /\ Window \in Nat \ {0} /\ clock' = clock
    BY LevelTyped, FullTyped DEF IInv, TypeOK, TablesOK, BoundedInv, Allow
  <1>1. PICK u \in Touched(entries, k, clock) :
          /\ entries' = Charged(u, k)
          /\ Remember(spent, IF HasToken(u, k) THEN Granted(k) ELSE grants)
    BY DEF Allow
  <1>2. /\ u \in Tables /\ Cardinality(Present(u)) <= MaxKeys /\ u[k] = [tokens |-> n, seen |-> clock]
        /\ \A j \in Keys \ {k} : \/ u[j] = entries[j]
                                 \/ u[j] = Absent /\ (Level(entries, j, clock) = Full \/ PressedOut(entries, j, clock))
    BY <1>0, TouchedKeeps
  <1>3. /\ entries' \in Tables /\ Present(entries') = Present(u) /\ left \in 0..Full
        /\ entries'[k] = [tokens |-> left, seen |-> clock]
        /\ \A j \in Keys \ {k} : entries'[j] = u[j]
        /\ HasToken(u, k) <=> granted
    BY <1>0, <1>1, <1>2, ChargedKeeps
  <1>4. /\ spent \in Tables
        /\ Level(ideal, k, clock) = n => spent[k] = [tokens |-> left, seen |-> clock]
        /\ \A j \in Keys \ {k} : spent[j] = ideal[j]
    BY IdealKeeps
  <1>5. Remember(spent, history) BY <1>1, <1>3
  <1>6. left \in 0..n /\ (granted => left = n - Window) BY <1>0
  <1>7. granted \in BOOLEAN OBVIOUS
  <1>8. /\ history \in GrantTable
        /\ \A j \in Keys \ {k} : history[j] = grants[j]
        /\ \A t \in 0..MaxClock : history[k][t] = grants[k][t] + IF granted /\ t <= clock THEN 1 ELSE 0
    <2>1. \A t \in 0..MaxClock : grants[k][t] \in Nat BY OneGranted DEF GrantTable
    <2>2. CASE granted BY <2>2, OneGranted
    <2>3. CASE ~granted BY <2>1, <2>3, OneGranted
    <2> QED BY <2>2, <2>3
  <1> HIDE DEF left, granted, history, spent
  <1>9. /\ forced' = forced \cup Pressed
        /\ ideal' \in Tables /\ grants' \in GrantTable
        /\ \A j \in Keys : j \notin forced' => ideal'[j] = spent[j] /\ grants'[j] = history[j]
        /\ \A j \in Keys : j \in forced' => ideal'[j] = Absent
    BY <1>4, <1>5, <1>8, Remembers
  <1>10. k \notin forced' => Level(ideal, k, clock) = n BY <1>9, SameLevel DEF IInv
  <1>11. Operates(k, left, granted) BY <1>0, <1>2, <1>3, <1>4, <1>6, <1>8, <1>9, <1>10 DEF Operates
  <1> QED BY <1>3, <1>7, <1>11, OperationStep

LEMMA PenalizeStep == ASSUME IInv, NEW k \in Keys, Penalize(k) PROVE IInv'
  <1> DEFINE n == Level(entries, k, clock)
             left == IF n >= Window THEN n - Window ELSE n
             spent == Charged(IdealTouched(k), k)
  <1>0. /\ clock \in Nat /\ TableOK(entries, clock) /\ Cardinality(Present(entries)) <= MaxKeys
        /\ n \in 0..Full /\ Window \in Nat \ {0} /\ clock' = clock
    BY LevelTyped, FullTyped DEF IInv, TypeOK, TablesOK, BoundedInv, Penalize
  <1>1. PICK u \in Touched(entries, k, clock) : entries' = Charged(u, k) BY DEF Penalize
  <1>2. /\ u \in Tables /\ Cardinality(Present(u)) <= MaxKeys /\ u[k] = [tokens |-> n, seen |-> clock]
        /\ \A j \in Keys \ {k} : \/ u[j] = entries[j]
                                 \/ u[j] = Absent /\ (Level(entries, j, clock) = Full \/ PressedOut(entries, j, clock))
    BY <1>0, TouchedKeeps
  <1>3. /\ entries' \in Tables /\ Present(entries') = Present(u) /\ left \in 0..Full
        /\ entries'[k] = [tokens |-> left, seen |-> clock]
        /\ \A j \in Keys \ {k} : entries'[j] = u[j]
    BY <1>0, <1>1, <1>2, ChargedKeeps
  <1>4. /\ spent \in Tables
        /\ Level(ideal, k, clock) = n => spent[k] = [tokens |-> left, seen |-> clock]
        /\ \A j \in Keys \ {k} : spent[j] = ideal[j]
    BY IdealKeeps
  <1>5. Remember(spent, grants) /\ grants \in GrantTable BY OneGranted DEF Penalize
  <1>6. left \in 0..n /\ left \in Nat BY <1>0, FullTyped
  <1> HIDE DEF left, spent
  <1>7. /\ forced' = forced \cup Pressed
        /\ ideal' \in Tables /\ grants' \in GrantTable
        /\ \A j \in Keys : j \notin forced' => ideal'[j] = spent[j] /\ grants'[j] = grants[j]
        /\ \A j \in Keys : j \in forced' => ideal'[j] = Absent
    BY <1>4, <1>5, Remembers
  <1>8. k \notin forced' => Level(ideal, k, clock) = n BY <1>7, SameLevel DEF IInv
  <1>9. \A t \in 0..MaxClock : grants[k][t] = grants[k][t] + 0
    <2>1. \A t \in 0..MaxClock : grants[k][t] \in Nat BY <1>5 DEF GrantTable
    <2> QED BY <2>1
  <1>10. Operates(k, left, FALSE) BY <1>0, <1>2, <1>3, <1>4, <1>6, <1>7, <1>8, <1>9 DEF Operates
  <1> QED BY <1>6, <1>10, OperationStep

(* permitted brings the bucket up to date and takes nothing. *)
LEMMA PermittedStep == ASSUME IInv, NEW k \in Keys, Permitted(k) PROVE IInv'
  <1> DEFINE n == Level(entries, k, clock)
             spent == IdealTouched(k)
  <1>0. /\ clock \in Nat /\ TableOK(entries, clock) /\ Cardinality(Present(entries)) <= MaxKeys
        /\ n \in 0..Full /\ Window \in Nat \ {0} /\ clock' = clock
    BY LevelTyped, FullTyped DEF IInv, TypeOK, TablesOK, BoundedInv, Permitted
  <1>1. entries' \in Touched(entries, k, clock) BY DEF Permitted
  <1>2. /\ entries' \in Tables /\ Cardinality(Present(entries')) <= MaxKeys
        /\ entries'[k] = [tokens |-> n, seen |-> clock]
        /\ \A j \in Keys \ {k} :
             \/ entries'[j] = entries[j]
             \/ entries'[j] = Absent /\ (Level(entries, j, clock) = Full \/ PressedOut(entries, j, clock))
    BY <1>0, <1>1, TouchedKeeps
  <1>3. /\ spent \in Tables
        /\ Level(ideal, k, clock) = n => spent[k] = [tokens |-> n, seen |-> clock]
        /\ \A j \in Keys \ {k} : spent[j] = ideal[j]
    BY IdealKeeps
  <1>4. Remember(spent, grants) /\ grants \in GrantTable BY OneGranted DEF Permitted
  <1>5. n \in 0..n /\ n \in Nat BY <1>0, FullTyped
  <1> HIDE DEF spent
  <1>6. /\ forced' = forced \cup Pressed
        /\ ideal' \in Tables /\ grants' \in GrantTable
        /\ \A j \in Keys : j \notin forced' => ideal'[j] = spent[j] /\ grants'[j] = grants[j]
        /\ \A j \in Keys : j \in forced' => ideal'[j] = Absent
    BY <1>3, <1>4, Remembers
  <1>7. k \notin forced' => Level(ideal, k, clock) = n BY <1>6, SameLevel DEF IInv
  <1>8. \A t \in 0..MaxClock : grants[k][t] = grants[k][t] + 0
    <2>1. \A t \in 0..MaxClock : grants[k][t] \in Nat BY <1>4 DEF GrantTable
    <2> QED BY <2>1
  <1>9. Operates(k, n, FALSE) BY <1>0, <1>2, <1>3, <1>5, <1>6, <1>7, <1>8 DEF Operates
  <1> QED BY <1>5, <1>9, OperationStep

(* A second restores at most Limit tokens to every key, and no bucket is cut *)
(* down: what was full, or within its allowance, is so a second later.       *)
LEMMA TickStep == ASSUME IInv, Tick PROVE IInv'
  <1>0. /\ clock \in Nat /\ clock < MaxClock /\ clock' = clock + 1 /\ MaxClock \in Nat
        /\ UNCHANGED <<entries, ideal, forced, grants>>
        /\ TableOK(entries, clock) /\ TableOK(ideal, clock)
    BY LimiterAssumption DEF IInv, TypeOK, TablesOK, Tick
  <1>1. TypeOK' BY <1>0 DEF IInv, TypeOK
  <1>2. ASSUME NEW table, TableOK(table, clock) PROVE TableOK(table, clock + 1)
    <2> SUFFICES ASSUME NEW k \in Keys, table[k] # Absent PROVE table[k].seen <= clock + 1
      BY <1>2 DEF TableOK
    <2>1. table[k] \in Bucket /\ table[k].seen <= clock BY <1>2 DEF TableOK, Tables
    <2> QED BY <1>0, <2>1 DEF Bucket
  <1>3. TablesOK' BY <1>0, <1>2 DEF TablesOK, TableOK
  <1>4. BoundedInv' BY <1>0 DEF IInv, BoundedInv, Present
  <1>5. ASSUME NEW k \in Keys
        PROVE  /\ Level(ideal, k, clock) \in 0..Full
               /\ Level(ideal, k, clock)' =
                    IF Level(ideal, k, clock) + Limit < Full THEN Level(ideal, k, clock) + Limit ELSE Full
    <2>1. Level(ideal, k, clock)' = Level(ideal, k, clock + 1) BY <1>0 DEF Level, Recovered
    <2> QED BY <1>0, <2>1, LevelTyped
  <1>6. SameInv'
    <2> SUFFICES ASSUME NEW k \in Keys \ forced
                 PROVE  \/ entries[k] = ideal[k]
                        \/ entries[k] = Absent /\ Level(ideal, k, clock)' = Full
      BY <1>0 DEF SameInv
    <2> QED BY <1>5, FullTyped DEF IInv, SameInv
  <1>7. SpentInv'
    <2> SUFFICES ASSUME NEW k \in Keys \ forced, NEW t \in 0..MaxClock
                 PROVE  IF t <= clock + 1
                        THEN Window * grants[k][t] + Level(ideal, k, clock)' <= Full + ((clock + 1) - t) * Limit
                        ELSE grants[k][t] = 0
      BY <1>0 DEF SpentInv
    <2>1. IF t <= clock THEN Window * grants[k][t] + Level(ideal, k, clock) <= Full + (clock - t) * Limit
                        ELSE grants[k][t] = 0
      BY DEF IInv, SpentInv
    <2>2. grants[k][t] \in Nat BY DEF IInv, TypeOK
    <2>3. CASE t <= clock
      <3> DEFINE spent == Window * grants[k][t]
                 room == (clock - t) * Limit
      <3>1. spent \in Nat /\ room \in Nat BY <1>0, <2>2, <2>3, FullTyped
      <3>2. ((clock + 1) - t) * Limit = room + Limit
        <4>1. ASSUME NEW d \in Nat, NEW m \in Nat PROVE (d + 1) * m = d * m + m OBVIOUS
        <4>2. clock - t \in Nat /\ (clock + 1) - t = (clock - t) + 1 BY <1>0, <2>3
        <4> QED BY <4>1, <4>2, FullTyped
      <3>3. spent + Level(ideal, k, clock) <= Full + room BY <2>1, <2>3
      <3> HIDE DEF spent, room
      <3>4. spent + Level(ideal, k, clock)' <= Full + (room + Limit) BY <1>5, <3>1, <3>3, FullTyped
      <3>5. spent + Level(ideal, k, clock)' <= Full + ((clock + 1) - t) * Limit BY <3>2, <3>4
      <3> QED BY <1>0, <2>3, <3>5 DEF spent
    <2>4. CASE t = clock + 1
      <3>1. grants[k][t] = 0 BY <1>0, <2>1, <2>4
      <3>2. ((clock + 1) - t) * Limit = 0 /\ Window * grants[k][t] = 0 BY <1>0, <2>4, <3>1, FullTyped
      <3>3. Level(ideal, k, clock)' <= Full /\ Level(ideal, k, clock)' \in Nat BY <1>5, FullTyped
      <3> QED BY <1>0, <2>4, <3>2, <3>3, FullTyped
    <2>5. CASE ~(t <= clock + 1) BY <1>0, <2>1, <2>5
    <2> QED BY <1>0, <2>3, <2>4, <2>5
  <1> QED BY <1>1, <1>3, <1>4, <1>6, <1>7 DEF IInv

LEMMA Start == Init => IInv
  <1> SUFFICES ASSUME Init PROVE IInv OBVIOUS
  <1>1. /\ clock = 0 /\ entries = Empty /\ ideal = Empty /\ forced = {}
        /\ grants = [k \in Keys |-> Nothing]
        /\ MaxClock \in Nat /\ MaxKeys \in Nat \ {0}
    BY LimiterAssumption DEF Init
  <1>2. Empty \in Tables /\ \A k \in Keys : Empty[k] = Absent BY DEF Empty, Tables
  <1>3. Nothing \in [0..MaxClock -> Nat] /\ \A t \in 0..MaxClock : Nothing[t] = 0 BY DEF Nothing
  <1>4. TypeOK BY <1>1, <1>2, <1>3 DEF TypeOK
  <1>5. TablesOK BY <1>1, <1>2 DEF TablesOK, TableOK
  <1>6. Present(entries) = {} BY <1>1, <1>2 DEF Present
  <1>7. BoundedInv BY <1>1, <1>6, FS_EmptySet DEF BoundedInv
  <1>8. SameInv BY <1>1 DEF SameInv
  <1>9. SpentInv
    <2> SUFFICES ASSUME NEW k \in Keys \ forced, NEW t \in 0..MaxClock
                 PROVE  /\ grants[k][t] = 0
                        /\ t <= clock => Window * grants[k][t] + Level(ideal, k, clock) <= Full + (clock - t) * Limit
      BY DEF SpentInv
    <2>1. grants[k][t] = 0 BY <1>1, <1>3
    <2>2. Level(ideal, k, clock) = Full BY <1>1, <1>2 DEF Level
    <2>3. ASSUME t <= clock PROVE (clock - t) * Limit = 0 BY <1>1, <2>3, FullTyped
    <2> QED BY <2>1, <2>2, <2>3, FullTyped
  <1> QED BY <1>4, <1>5, <1>7, <1>8, <1>9 DEF IInv

-----------------------------------------------------------------------------
(* The limiter keeps at most maxEntries buckets, each of which is the one an  *)
(* unbounded limiter has or was dropped when that one was full, and what is   *)
(* granted and what is left stay within the allowance.                        *)
THEOREM Invariance == Spec => []IInv
  <1>1. IInv /\ [Next]_vars => IInv'
    <2> SUFFICES ASSUME IInv, [Next]_vars PROVE IInv' OBVIOUS
    <2>1. CASE UNCHANGED vars
      BY <2>1 DEF vars, IInv, TypeOK, TablesOK, TableOK, BoundedInv, Present, SameInv, SpentInv, Level, Recovered
    <2>2. CASE Tick BY <2>2, TickStep
    <2>3. ASSUME NEW k \in Keys, Allow(k) \/ Penalize(k) \/ Permitted(k) PROVE IInv'
      BY <2>3, AllowStep, PenalizeStep, PermittedStep
    <2> QED BY <2>1, <2>2, <2>3 DEF Next
  <1> QED BY Start, <1>1, PTL DEF Spec

(* However many different keys callers present, there are at most maxEntries *)
(* buckets, and a caller whose bucket was not taken under pressure can spend *)
(* exactly what it could if the limiter never forgot a key (evictLocked).    *)
THEOREM EvictionIsUnnoticed == Spec => []EvictionUnnoticed
  <1>1. IInv => EvictionUnnoticed BY SameLevel DEF IInv, BoundedInv, EvictionUnnoticed
  <1> QED BY <1>1, Invariance, PTL

(* A caller whose bucket was not taken under pressure is granted, in every    *)
(* stretch of time up to now, at most a full bucket and what that stretch     *)
(* restores, whatever allow, penalize and permitted are called for whom.      *)
THEOREM NobodyOverspends == Spec => []NeverOverspends
  <1>1. IInv => NeverOverspends
    <2> SUFFICES ASSUME IInv, NEW k \in Keys \ forced, NEW t \in 0..clock
                 PROVE  Window * grants[k][t] <= Full + (clock - t) * Limit
      BY DEF NeverOverspends
    <2>1. clock \in Nat /\ t \in 0..MaxClock /\ t <= clock BY LimiterAssumption DEF IInv, BoundedInv
    <2>2. Window * grants[k][t] + Level(ideal, k, clock) <= Full + (clock - t) * Limit
      BY <2>1 DEF IInv, SpentInv
    <2>3. Level(ideal, k, clock) \in Nat BY <2>1, LevelTyped, FullTyped DEF IInv, TablesOK
    <2>4. grants[k][t] \in Nat BY <2>1 DEF IInv, TypeOK
    <2> DEFINE spent == Window * grants[k][t]
               room == (clock - t) * Limit
    <2>5. spent \in Nat /\ room \in Nat BY <2>1, <2>4, FullTyped
    <2> HIDE DEF spent, room
    <2>6. spent + Level(ideal, k, clock) <= Full + room BY <2>2 DEF spent, room
    <2>7. spent <= Full + room BY <2>3, <2>5, <2>6, FullTyped
    <2> QED BY <2>7 DEF spent, room
  <1> QED BY <1>1, Invariance, PTL
=============================================================================
