-------------------------- MODULE RateLimiterProofs --------------------------
(***************************************************************************)
(* Proofs about RateLimiter for any ids, limits, windows and intervals.    *)
(*                                                                         *)
(* The bucket of a live window counts the last grants of its id and starts *)
(* after all the others; and whatever lies more than a limit behind those  *)
(* is a whole window older still (History).  From that follow both what an *)
(* id can be granted and what it can be refused.                           *)
(***************************************************************************)
EXTENDS RateLimiter, SequenceTheorems, TLAPS

\* What the grants g of an id say about a window with count grants in it that
\* ends at resetAt: the last ones are in the window, the others are older; and
\* those more than a limit behind are older by another window.
InWindow(g, count, resetAt, limit) ==
    /\ count <= Len(g)
    /\ \A i \in 1..Len(g) :
          /\ i > Len(g) - count => resetAt <= g[i] + Window
          /\ i <= Len(g) - count => g[i] + Window < resetAt
          /\ i <= Len(g) - count - limit => g[i] + Window + Window < resetAt

Counts(id, bucket) ==
    InWindow(grants[id], bucket.count, bucket.resetAt, Limit[id])

\* With no live window, all grants of the id are over, and those a limit
\* behind are over by a window.
IsPast(id) ==
    LET g == grants[id]
        n == Len(grants[id])
    IN  \A i \in 1..n :
              /\ g[i] < now
              /\ i <= n - Limit[id] => g[i] + Window < now

HistoryOf(id) ==
    /\ \A i \in 1..Len(grants[id]) : grants[id][i] <= now
    /\ Live(id) => /\ buckets[id].resetAt <= now + Window
                   /\ Counts(id, buckets[id])
    /\ ~Live(id) => IsPast(id)

History == \A id \in Ids : HistoryOf(id)

\* The sweep keeps up, and what it has left behind was live at the time.
SweptInTime ==
    /\ lastSweep <= now
    /\ now <= lastSweep + SweepInterval
    /\ \A id \in DOMAIN buckets : lastSweep < buckets[id].resetAt

\* What the invariants need to be inductive.
IInv == TypeOK /\ History /\ SweptInTime /\ RateBounded

(***************************************************************************)
(* Windows.                                                                *)
(***************************************************************************)
\* A window that opens when all grants are over has none of them.
LEMMA FreshWindow ==
    ASSUME NEW g \in Seq(Nat), NEW t \in Nat, NEW limit \in Nat,
           \A i \in 1..Len(g) : /\ g[i] < t
                                /\ i <= Len(g) - limit => g[i] + Window < t
    PROVE  InWindow(g, 0, t + Window, limit)
<1>1. Len(g) \in Nat /\ \A i \in 1..Len(g) : g[i] \in Nat
  OBVIOUS
<1>2. Window \in Nat
  BY LimiterAssumption
<1> DEFINE n == Len(g)
<1>3. ASSUME NEW i \in 1..n
      PROVE  /\ ~(i > n - 0)
             /\ g[i] + Window < t + Window
             /\ i <= n - 0 - limit => g[i] + Window + Window < t + Window
  BY <1>1, <1>2, <1>3
<1>4. 0 <= n
  BY <1>1
<1> QED
  BY <1>3, <1>4 DEF InWindow

\* A grant at a time in the window is counted in it.
LEMMA OneMoreInWindow ==
    ASSUME NEW g \in Seq(Nat), NEW t \in Nat, NEW limit \in Nat,
           NEW count \in Nat, NEW resetAt \in Nat,
           InWindow(g, count, resetAt, limit), resetAt <= t + Window
    PROVE  InWindow(Append(g, t), count + 1, resetAt, limit)
<1> DEFINE n == Len(g)
           h == Append(g, t)
<1>1. /\ n \in Nat /\ Len(h) = n + 1
      /\ h[n + 1] = t
      /\ \A i \in 1..n : h[i] = g[i] /\ g[i] \in Nat
  BY AppendProperties
<1>2. /\ count <= n
      /\ \A i \in 1..n :
            /\ i > n - count => resetAt <= g[i] + Window
            /\ i <= n - count => g[i] + Window < resetAt
            /\ i <= n - count - limit => g[i] + Window + Window < resetAt
  BY DEF InWindow
<1> HIDE DEF n, h
<1>3. n + 1 - (count + 1) = n - count
  BY <1>1
<1>4. ASSUME NEW i \in 1..(n + 1)
      PROVE  /\ i > n - count => resetAt <= h[i] + Window
             /\ i <= n - count => h[i] + Window < resetAt
             /\ i <= n - count - limit => h[i] + Window + Window < resetAt
  <2>1. CASE i = n + 1
    BY <1>1, <2>1
  <2>2. CASE i \in 1..n
    BY <1>1, <1>2, <2>2
  <2> QED
    BY <1>1, <2>1, <2>2
<1>5. count + 1 <= n + 1
  BY <1>1, <1>2
<1> QED
  BY <1>1, <1>3, <1>4, <1>5 DEF InWindow, h

\* When a window with no more grants in it than the limit is over, all grants
\* are over, and those a limit behind are over by a window.
LEMMA WindowOver ==
    ASSUME NEW g \in Seq(Nat), NEW t \in Nat, NEW limit \in Nat,
           NEW count \in Nat, NEW resetAt \in Nat,
           InWindow(g, count, resetAt, limit), count <= limit, resetAt <= t
    PROVE  \A i \in 1..Len(g) : i <= Len(g) - limit => g[i] + Window < t
<1> DEFINE n == Len(g)
<1>1. n \in Nat /\ Window \in Nat /\ \A i \in 1..n : g[i] \in Nat
  BY LimiterAssumption
<1>2. \A i \in 1..n : i <= n - count => g[i] + Window < resetAt
  BY DEF InWindow
<1> HIDE DEF n
<1>3. ASSUME NEW i \in 1..n, i <= n - limit PROVE g[i] + Window < t
  <2>1. i <= n - count
    BY <1>1, <1>3
  <2> QED
    BY <1>1, <1>2, <2>1
<1> QED
  BY <1>3 DEF n

(***************************************************************************)
(* What check() finds and what it leaves.                                  *)
(***************************************************************************)
\* The bucket a check looks at, live or fresh, agrees with the grants of its
\* id.
LEMMA CheckedBucket ==
    ASSUME TypeOK, History, NEW id \in Ids
    PROVE  /\ bucketFor(id) \in Bucket
           /\ bucketFor(id).count <= Limit[id]
           /\ now < bucketFor(id).resetAt
           /\ bucketFor(id).resetAt <= now + Window
           /\ Counts(id, bucketFor(id))
<1> USE LimiterAssumption
<1>1. CASE Live(id)
  BY <1>1 DEF TypeOK, History, HistoryOf, Live, bucketFor, Bucket
<1>2. CASE ~Live(id)
  <2> DEFINE fresh == [count |-> 0, resetAt |-> now + Window]
             g == grants[id]
             n == Len(grants[id])
  <2>1. bucketFor(id) = fresh
    BY <1>2 DEF bucketFor
  <2>2. IsPast(id)
    BY <1>2 DEF History, HistoryOf
  <2>3. now \in Nat /\ n \in Nat /\ Limit[id] \in Nat /\ g \in Seq(Nat)
    BY DEF TypeOK
  <2>4. Counts(id, fresh)
    <3>1. InWindow(g, 0, now + Window, Limit[id])
      BY <2>2, <2>3, FreshWindow DEF IsPast
    <3> QED
      BY <3>1 DEF Counts
  <2> QED
    BY <2>1, <2>3, <2>4 DEF Bucket
<1> QED
  BY <1>1, <1>2

\* Put() leaves the buckets of the other ids alone.
LEMMA PutBucket ==
    ASSUME TypeOK, NEW id \in Ids, NEW bucket \in Bucket, Put(id, bucket),
           bucket.count <= Limit[id]
    PROVE  /\ DOMAIN buckets' = DOMAIN buckets \cup {id}
           /\ DOMAIN buckets' \subseteq Ids
           /\ buckets' \in [DOMAIN buckets' -> Bucket]
           /\ buckets'[id] = bucket
           /\ \A i \in DOMAIN buckets : i # id => buckets'[i] = buckets[i]
           /\ \A i \in DOMAIN buckets' : buckets'[i].count <= Limit[i]
BY DEF TypeOK, Put

\* One more grant.
LEMMA OneMoreGrant ==
    ASSUME TypeOK, NEW id \in Ids,
           grants' = [grants EXCEPT ![id] = Append(@, now)]
    PROVE  /\ grants' \in [Ids -> Seq(Nat)]
           /\ Len(grants'[id]) = Len(grants[id]) + 1
           /\ \A i \in 1..Len(grants[id]) : grants'[id][i] = grants[id][i]
           /\ grants'[id][Len(grants[id]) + 1] = now
           /\ \A j \in Ids \ {id} : grants'[j] = grants[j]
<1>1. grants[id] \in Seq(Nat) /\ now \in Nat
  BY DEF TypeOK
<1>2. grants'[id] = Append(grants[id], now)
  BY DEF TypeOK
<1>3. Append(grants[id], now) \in Seq(Nat)
  BY <1>1, AppendProperties
<1> QED
  BY <1>1, <1>2, <1>3, AppendProperties DEF TypeOK

(***************************************************************************)
(* Type correctness.                                                       *)
(***************************************************************************)
LEMMA InitInvariant == Init => IInv
<1> SUFFICES ASSUME Init PROVE IInv
  OBVIOUS
<1>1. grants \in [Ids -> Seq(Nat)] /\ \A id \in Ids : Len(grants[id]) = 0
  BY DEF Init
<1>2. TypeOK
  BY <1>1 DEF Init, TypeOK
<1>3. History
  BY <1>1 DEF Init, History, HistoryOf, Live, IsPast
<1>4. SweptInTime
  BY LimiterAssumption DEF Init, SweptInTime
<1>5. RateBounded
  BY <1>1 DEF RateBounded, Init
<1> QED
  BY <1>2, <1>3, <1>4, <1>5 DEF IInv

LEMMA TypeStep == ASSUME TypeOK, History, Next PROVE TypeOK'
<1> USE LimiterAssumption
<1>1. CASE Sweep
  BY <1>1 DEF Sweep, TypeOK
<1>2. CASE Tick
  BY <1>2 DEF Tick, TypeOK
<1>3. ASSUME NEW id \in Ids, CheckRefused(id) PROVE TypeOK'
  <2>1. Put(id, bucketFor(id))
    BY <1>3 DEF CheckRefused
  <2>2. /\ DOMAIN buckets' \subseteq Ids
        /\ buckets' \in [DOMAIN buckets' -> Bucket]
        /\ \A i \in DOMAIN buckets' : buckets'[i].count <= Limit[i]
    BY <2>1, CheckedBucket, PutBucket
  <2>3. answer' \in Answers
    <3>1. bucketFor(id).resetAt \in Nat
      BY CheckedBucket DEF Bucket
    <3> QED
      BY <1>3, <3>1 DEF CheckRefused, Answer, Answers
  <2> QED
    BY <1>3, <2>2, <2>3 DEF CheckRefused, TypeOK
<1>4. ASSUME NEW id \in Ids, CheckAllowed(id) PROVE TypeOK'
  <2> DEFINE old == bucketFor(id)
             new == [old EXCEPT !.count = @ + 1]
  <2>1. old \in Bucket /\ old.count < Limit[id]
    BY <1>4, CheckedBucket DEF CheckAllowed, Exhausted, Bucket
  <2>2. new \in Bucket /\ new.count <= Limit[id] /\ new.count = old.count + 1
    BY <2>1 DEF Bucket
  <2>3. Put(id, new)
    BY <1>4 DEF CheckAllowed
  <2> HIDE DEF old, new
  <2>4. /\ DOMAIN buckets' \subseteq Ids
        /\ buckets' \in [DOMAIN buckets' -> Bucket]
        /\ \A i \in DOMAIN buckets' : buckets'[i].count <= Limit[i]
    BY <2>2, <2>3, PutBucket
  <2>5. answer' \in Answers
    <3>1. Limit[id] - (old.count + 1) \in Nat /\ old.resetAt \in Nat
      BY <2>1 DEF Bucket
    <3> QED
      BY <1>4, <3>1 DEF CheckAllowed, Answer, Answers, old
  <2>6. grants' \in [Ids -> Seq(Nat)]
    BY <1>4, OneMoreGrant DEF CheckAllowed
  <2> QED
    BY <1>4, <2>4, <2>5, <2>6 DEF CheckAllowed, TypeOK
<1> QED
  BY <1>1, <1>2, <1>3, <1>4 DEF Next

(***************************************************************************)
(* The counts and the grants.                                              *)
(***************************************************************************)
\* A check of one id does not touch the history of another.
LEMMA OthersKeepHistory ==
    ASSUME TypeOK, History, NEW id \in Ids, NEW other \in Ids \ {id},
           NEW bucket \in Bucket, bucket.count <= Limit[id], Put(id, bucket),
           grants'[other] = grants[other], now' = now
    PROVE  HistoryOf(other)'
<1>1. Live(other)' <=> Live(other)
  BY PutBucket DEF Live
<1>2. Live(other) => buckets'[other] = buckets[other]
  BY PutBucket DEF Live
<1>3. HistoryOf(other)
  BY DEF History
<1> QED
  BY <1>1, <1>2, <1>3 DEF HistoryOf, Counts, IsPast

LEMMA HistoryStep == ASSUME TypeOK, History, Next PROVE History'
<1> USE LimiterAssumption
<1>1. CASE Sweep
  <2> SUFFICES ASSUME NEW id \in Ids PROVE HistoryOf(id)'
    BY DEF History
  <2>1. /\ now' = now /\ grants' = grants
        /\ Live(id)' <=> Live(id)
        /\ Live(id) => buckets'[id] = buckets[id]
    BY <1>1 DEF Sweep, Live
  <2>2. HistoryOf(id)
    BY DEF History
  <2> QED
    BY <2>1, <2>2 DEF HistoryOf, Counts, IsPast
<1>2. CASE Tick
  <2> SUFFICES ASSUME NEW id \in Ids PROVE HistoryOf(id)'
    BY DEF History
  <2> DEFINE g == grants[id]
             n == Len(grants[id])
  <2>1. /\ now' = now + 1 /\ now \in Nat
        /\ buckets' = buckets /\ grants' = grants
    BY <1>2 DEF Tick, TypeOK
  <2>2. HistoryOf(id)
    BY DEF History
  <2>3. /\ g \in Seq(Nat) /\ n \in Nat
        /\ \A i \in 1..n : g[i] \in Nat
        /\ Limit[id] \in Nat
    BY DEF TypeOK
  <2>4. \A i \in 1..n : g[i] <= now'
    BY <2>1, <2>2, <2>3 DEF HistoryOf
  <2>5. Live(id)' => Live(id)
    BY <2>1 DEF Live, TypeOK, Bucket
  <2>6. Live(id)' => /\ buckets'[id].resetAt <= now' + Window
                     /\ Counts(id, buckets[id])'
    BY <2>1, <2>2, <2>5 DEF HistoryOf, Counts, TypeOK, Bucket, Live
  <2>7. ASSUME ~Live(id)' PROVE IsPast(id)'
    <3>1. CASE ~Live(id)
      <4>1. IsPast(id)
        BY <2>2, <3>1, Zenon DEF HistoryOf
      <4>2. ASSUME NEW i \in 1..n
            PROVE  /\ g[i] < now'
                   /\ i <= n - Limit[id] => g[i] + Window < now'
        <5>1. g[i] < now /\ (i <= n - Limit[id] => g[i] + Window < now)
          BY <4>1 DEF IsPast
        <5>2. Window \in Nat /\ g[i] \in Nat
          BY <2>3, LimiterAssumption
        <5> HIDE DEF g, n
        <5> QED
          BY <2>1, <5>1, <5>2
      <4> QED
        BY <2>1, <4>2 DEF IsPast
    <3>2. CASE Live(id)
      <4> DEFINE b == buckets[id]
      <4>1. /\ b \in Bucket /\ b.count <= Limit[id]
            /\ Counts(id, b)
        <5>1. b \in Bucket /\ b.count <= Limit[id]
          BY <3>2 DEF TypeOK, Live
        <5> QED
          BY <2>2, <3>2, <5>1, Zenon DEF HistoryOf
      <4>2. b.resetAt <= now'
        BY <2>1, <2>7, <3>2 DEF Live, TypeOK, Bucket
      <4>3. \A i \in 1..n : g[i] < now'
        BY <2>1, <2>2, <2>3 DEF HistoryOf
      <4>4. \A i \in 1..n : i <= n - Limit[id] => g[i] + Window < now'
        <5>1. /\ b.count \in Nat /\ b.resetAt \in Nat /\ now' \in Nat
              /\ InWindow(g, b.count, b.resetAt, Limit[id])
          BY <2>1, <4>1 DEF Counts, Bucket
        <5> HIDE DEF b
        <5> QED
          BY <2>3, <4>1, <4>2, <5>1, WindowOver
      <4> QED
        BY <2>1, <4>3, <4>4 DEF IsPast
    <3> QED
      BY <3>1, <3>2
  <2> QED
    BY <2>1, <2>4, <2>6, <2>7 DEF HistoryOf, Counts
<1>3. ASSUME NEW id \in Ids, CheckRefused(id) PROVE History'
  <2> DEFINE bucket == bucketFor(id)
  <2>1. /\ Put(id, bucket) /\ now' = now /\ grants' = grants
    BY <1>3 DEF CheckRefused
  <2>2. /\ bucket \in Bucket /\ bucket.count <= Limit[id]
        /\ now < bucket.resetAt /\ bucket.resetAt <= now + Window
        /\ Counts(id, bucket)
    BY CheckedBucket
  <2> HIDE DEF bucket
  <2>3. Live(id)' /\ buckets'[id] = bucket
    BY <2>1, <2>2, PutBucket DEF Live
  <2>4. HistoryOf(id)'
    BY <2>1, <2>2, <2>3 DEF HistoryOf, History, Counts
  <2>5. \A other \in Ids \ {id} : HistoryOf(other)'
    BY <2>1, <2>2, OthersKeepHistory
  <2> QED
    BY <2>4, <2>5 DEF History
<1>4. ASSUME NEW id \in Ids, CheckAllowed(id) PROVE History'
  <2> DEFINE old == bucketFor(id)
             new == [old EXCEPT !.count = @ + 1]
             g == grants[id]
             n == Len(grants[id])
  <2>1. /\ old \in Bucket /\ old.count < Limit[id]
        /\ now < old.resetAt /\ old.resetAt <= now + Window
        /\ Counts(id, old)
    BY <1>4, CheckedBucket DEF CheckAllowed, Exhausted, Bucket
  <2>2. /\ new \in Bucket /\ new.count <= Limit[id]
        /\ new.count = old.count + 1 /\ new.resetAt = old.resetAt
    BY <2>1 DEF Bucket
  <2>3. Put(id, new) /\ now' = now
    BY <1>4 DEF CheckAllowed
  <2>4. /\ Len(grants'[id]) = n + 1
        /\ \A i \in 1..n : grants'[id][i] = g[i]
        /\ grants'[id][n + 1] = now
        /\ \A other \in Ids \ {id} : grants'[other] = grants[other]
    BY <1>4, OneMoreGrant DEF CheckAllowed
  <2>5. /\ n \in Nat /\ now \in Nat /\ Limit[id] \in Nat
        /\ \A i \in 1..n : g[i] \in Nat /\ g[i] <= now
    BY DEF TypeOK, History, HistoryOf
  <2> HIDE DEF old, new
  <2>6. Live(id)' /\ buckets'[id] = new
    BY <2>1, <2>2, <2>3, PutBucket DEF Live
  <2>7. \A i \in 1..(n + 1) : grants'[id][i] <= now
    <3>1. \A i \in 1..n : grants'[id][i] <= now
      BY <2>4, <2>5
    <3>2. now <= now /\ 1..(n + 1) = (1..n) \cup {n + 1}
      BY <2>5
    <3> QED
      BY <2>4, <3>1, <3>2, Zenon
  <2>8. Counts(id, buckets[id])'
    <3>1. InWindow(Append(g, now), old.count + 1, old.resetAt, Limit[id])
      BY <2>1, <2>5, OneMoreInWindow DEF Counts, Bucket, TypeOK
    <3>2. grants'[id] = Append(g, now)
      BY <1>4 DEF CheckAllowed, TypeOK
    <3> QED
      BY <2>2, <2>6, <3>1, <3>2 DEF Counts
  <2>9. HistoryOf(id)'
    BY <2>1, <2>2, <2>3, <2>4, <2>6, <2>7, <2>8 DEF HistoryOf
  <2>10. \A other \in Ids \ {id} : HistoryOf(other)'
    BY <2>2, <2>3, <2>4, OthersKeepHistory
  <2> QED
    BY <2>9, <2>10 DEF History
<1> QED
  BY <1>1, <1>2, <1>3, <1>4 DEF Next

(***************************************************************************)
(* What an id is granted.                                                  *)
(***************************************************************************)
LEMMA RateStep == ASSUME TypeOK, History, RateBounded, Next PROVE RateBounded'
<1>1. ASSUME NEW id \in Ids, CheckAllowed(id) PROVE RateBounded'
  <2> DEFINE g == grants[id]
             n == Len(grants[id])
             bucket == bucketFor(id)
  <2>1. /\ Len(grants'[id]) = n + 1
        /\ \A i \in 1..n : grants'[id][i] = g[i]
        /\ grants'[id][n + 1] = now
        /\ \A other \in Ids \ {id} : grants'[other] = grants[other]
        /\ grants' \in [Ids -> Seq(Nat)]
    BY <1>1, OneMoreGrant DEF CheckAllowed
  <2>2. /\ n \in Nat /\ now \in Nat /\ Limit[id] \in Nat /\ Window \in Nat
        /\ \A i \in 1..n : g[i] \in Nat
    BY LimiterAssumption DEF TypeOK
  <2>3. /\ bucket.count \in Nat /\ bucket.resetAt \in Nat
        /\ bucket.count < Limit[id]
        /\ bucket.resetAt <= now + Window
        /\ InWindow(g, bucket.count, bucket.resetAt, Limit[id])
    <3>1. /\ bucket \in Bucket
          /\ bucket.resetAt <= now + Window
          /\ Counts(id, bucket)
      BY CheckedBucket
    <3>2. ~(bucket.count >= Limit[id])
      BY <1>1 DEF CheckAllowed, Exhausted
    <3>3. bucket.count \in Nat /\ bucket.resetAt \in Nat
      BY <3>1 DEF Bucket
    <3> HIDE DEF bucket
    <3>4. bucket.count < Limit[id]
      BY <2>2, <3>2, <3>3
    <3> QED
      BY <3>1, <3>3, <3>4 DEF Counts
  <2>4. ASSUME NEW i \in 1..n, n + 1 = i + 2 * Limit[id]
        PROVE  now > g[i] + Window
    <3> DEFINE c == bucket.count
               r == bucket.resetAt
    <3>1. i <= n - c - Limit[id] => g[i] + Window + Window < r
      BY <2>3 DEF InWindow
    <3>2. g[i] \in Nat
      BY <2>2
    <3>3. c \in Nat /\ r \in Nat /\ c < Limit[id] /\ r <= now + Window
      BY <2>3
    <3> HIDE DEF c, r, n, g, bucket
    <3>4. i <= n - c - Limit[id]
      BY <2>2, <2>4, <3>3
    <3> QED
      BY <2>2, <3>1, <3>2, <3>3, <3>4
  <2>5. ASSUME NEW i \in 1..(n + 1), NEW j \in 1..(n + 1),
               j = i + 2 * Limit[id]
        PROVE  grants'[id][j] > grants'[id][i] + Window
    <3>1. CASE j = n + 1
      <4>1. Limit[id] > 0
        BY <2>2, <2>3
      <4>2. i \in 1..n
        BY <2>2, <2>5, <3>1, <4>1
      <4> QED
        BY <2>1, <2>4, <2>5, <3>1, <4>2
    <3>2. CASE j \in 1..n
      <4>1. i \in 1..n
        BY <2>2, <2>5, <3>2
      <4>2. g[j] > g[i] + Window
        <5>1. DOMAIN g = 1..n
          BY DEF TypeOK
        <5> QED
          BY <2>5, <3>2, <4>1, <5>1, Zenon DEF RateBounded
      <4> QED
        BY <2>1, <3>2, <4>1, <4>2
    <3> QED
      BY <2>2, <3>1, <3>2
  <2>6. \A i, j \in DOMAIN grants'[id] :
           j = i + 2 * Limit[id] => grants'[id][j] > grants'[id][i] + Window
    <3>1. DOMAIN grants'[id] = 1..(n + 1)
      BY <2>1
    <3> QED
      BY <2>5, <3>1, Zenon
  <2>7. \A other \in Ids \ {id} : \A i, j \in DOMAIN grants'[other] :
           j = i + 2 * Limit[other] =>
              grants'[other][j] > grants'[other][i] + Window
    BY <2>1 DEF RateBounded
  <2> QED
    BY <2>6, <2>7 DEF RateBounded
<1>2. ASSUME grants' = grants PROVE RateBounded'
  BY <1>2 DEF RateBounded
<1> QED
  BY <1>1, <1>2 DEF Next, Sweep, Tick, CheckRefused

(***************************************************************************)
(* The sweep.                                                              *)
(***************************************************************************)
LEMMA SweptStep ==
    ASSUME TypeOK, History, SweptInTime, Next PROVE SweptInTime'
<1> USE LimiterAssumption
<1>1. CASE Sweep
  BY <1>1 DEF Sweep, SweptInTime, TypeOK
<1>2. CASE Tick
  BY <1>2 DEF Tick, Due, SweptInTime, TypeOK
<1>3. ASSUME NEW id \in Ids, NEW bucket \in Bucket, now < bucket.resetAt,
             bucket.count <= Limit[id], Put(id, bucket),
             now' = now, lastSweep' = lastSweep
      PROVE  SweptInTime'
  <2>1. now \in Nat /\ lastSweep \in Nat /\ bucket.resetAt \in Nat
    BY DEF TypeOK, Bucket
  <2>2. lastSweep < bucket.resetAt
    BY <1>3, <2>1 DEF SweptInTime
  <2>3. \A i \in DOMAIN buckets' : lastSweep < buckets'[i].resetAt
    <3>1. /\ DOMAIN buckets' = DOMAIN buckets \cup {id}
          /\ buckets'[id] = bucket
          /\ \A i \in DOMAIN buckets : i # id => buckets'[i] = buckets[i]
      BY <1>3, PutBucket
    <3>2. \A i \in DOMAIN buckets : lastSweep < buckets[i].resetAt
      BY DEF SweptInTime
    <3> QED
      BY <3>1, <3>2, <2>2
  <2> QED
    BY <1>3, <2>3 DEF SweptInTime
<1>4. ASSUME NEW id \in Ids, CheckRefused(id) PROVE SweptInTime'
  BY <1>3, <1>4, CheckedBucket DEF CheckRefused
<1>5. ASSUME NEW id \in Ids, CheckAllowed(id) PROVE SweptInTime'
  <2> DEFINE old == bucketFor(id)
             new == [old EXCEPT !.count = @ + 1]
  <2>1. /\ new \in Bucket /\ new.count <= Limit[id]
        /\ now < new.resetAt
    BY <1>5, CheckedBucket DEF CheckAllowed, Exhausted, Bucket
  <2>2. Put(id, new) /\ now' = now /\ lastSweep' = lastSweep
    BY <1>5 DEF CheckAllowed
  <2> HIDE DEF new
  <2> QED
    BY <1>3, <2>1, <2>2
<1> QED
  BY <1>1, <1>2, <1>4, <1>5 DEF Next

LEMMA Invariance == Spec => []IInv
<1>1. Init => IInv
  BY InitInvariant
<1>2. IInv /\ [Next]_vars => IInv'
  <2> SUFFICES ASSUME IInv, [Next]_vars PROVE IInv'
    OBVIOUS
  <2>1. CASE Next
    BY <2>1, TypeStep, HistoryStep, RateStep, SweptStep DEF IInv
  <2>2. CASE UNCHANGED vars
    BY <2>2 DEF vars, IInv, TypeOK, History, HistoryOf, Live, Counts,
                InWindow, IsPast, SweptInTime, RateBounded
  <2> QED
    BY <2>1, <2>2
<1> QED
  BY <1>1, <1>2, PTL DEF Spec

(***************************************************************************)
(* The theorems.                                                           *)
(***************************************************************************)
\* The variables of createRateLimiter() keep their types, and no bucket counts
\* past the limit of its id.
THEOREM TypeCorrect == Spec => []TypeOK
<1>1. IInv => TypeOK
  BY DEF IInv
<1> QED
  BY <1>1, Invariance, PTL

\* check() never grants an id more than twice its limit in a span as long as a
\* window, whatever the sweep does in between.
THEOREM RateIsBounded == Spec => []RateBounded
<1>1. IInv => RateBounded
  BY DEF IInv
<1> QED
  BY <1>1, Invariance, PTL

\* The Map holds no bucket whose window has been over for longer than the
\* interval of the sweep.
THEOREM StaleIsForgotten == Spec => []StaleForgotten
<1>1. IInv => StaleForgotten
  <2> SUFFICES ASSUME IInv, NEW id \in DOMAIN buckets
               PROVE  now <= buckets[id].resetAt + SweepInterval
    BY DEF StaleForgotten
  <2>1. /\ now \in Nat /\ lastSweep \in Nat /\ SweepInterval \in Nat
        /\ buckets[id].resetAt \in Nat
    BY LimiterAssumption DEF IInv, TypeOK, Bucket
  <2> QED
    BY <2>1 DEF IInv, SweptInTime
<1> QED
  BY <1>1, Invariance, PTL

\* check() refuses an id only when it has granted it its whole limit in the
\* last span as long as a window.
THEOREM RefusalsAreEarned == Spec => RefusalIsEarned
<1>1. IInv /\ [Next]_vars =>
         [\A id \in Ids :
             CheckRefused(id) =>
                 LET n == Len(grants[id])
                 IN  /\ n >= Limit[id]
                     /\ Limit[id] > 0 =>
                           grants[id][n - Limit[id] + 1] + Window > now]_vars
  <2> SUFFICES ASSUME IInv, NEW id \in Ids, CheckRefused(id)
               PROVE  /\ Len(grants[id]) >= Limit[id]
                      /\ Limit[id] > 0 =>
                            grants[id][Len(grants[id]) - Limit[id] + 1]
                               + Window > now
    OBVIOUS
  <2> DEFINE g == grants[id]
             n == Len(grants[id])
             c == bucketFor(id).count
             r == bucketFor(id).resetAt
             first == n - Limit[id] + 1
  <2>1. /\ c \in Nat /\ r \in Nat /\ now < r /\ c = Limit[id]
        /\ InWindow(g, c, r, Limit[id])
    BY CheckedBucket, LimiterAssumption
       DEF IInv, CheckRefused, Exhausted, Bucket, Counts
  <2>2. n \in Nat /\ now \in Nat /\ \A i \in 1..n : g[i] \in Nat
    BY DEF IInv, TypeOK
  <2>3. Window \in Nat /\ Limit[id] \in Nat
    BY LimiterAssumption
  <2>4. /\ c <= n
        /\ \A i \in 1..n : i > n - c => r <= g[i] + Window
    BY <2>1 DEF InWindow
  <2> HIDE DEF c, r, n, g
  <2>5. ASSUME Limit[id] > 0 PROVE g[first] + Window > now
    <3>1. first \in 1..n /\ first > n - c
      BY <2>1, <2>2, <2>3, <2>4, <2>5
    <3>2. r <= g[first] + Window /\ g[first] \in Nat
      BY <2>2, <2>4, <3>1
    <3> HIDE DEF first
    <3> QED
      BY <2>1, <2>2, <2>3, <3>2
  <2> QED
    BY <2>1, <2>2, <2>3, <2>4, <2>5 DEF n, g
<1> QED
  BY <1>1, Invariance, PTL DEF Spec, RefusalIsEarned

(***************************************************************************)
(* The limiter implements WindowLimiter.                                   *)
(***************************************************************************)
\* The abstract limiter sees the bucket a check looks at.
LEMMA AbstractBucket ==
    ASSUME TypeOK, NEW id \in Ids
    PROVE  /\ Used[id] = bucketFor(id).count
           /\ Limiter!EndOf(id) = bucketFor(id).resetAt
<1>1. Used[id] = bucketFor(id).count
  BY DEF Used, peek, bucketFor
<1>2. CASE Live(id)
  <2>1. buckets[id].resetAt # 0
    BY <1>2 DEF Live, TypeOK, Bucket
  <2>2. Ends[id] = buckets[id].resetAt
    BY <1>2 DEF Ends, peek
  <2> QED
    BY <1>1, <1>2, <2>1, <2>2 DEF Limiter!EndOf, Limiter!Closed, bucketFor
<1>3. CASE ~Live(id)
  BY <1>1, <1>3 DEF Ends, Limiter!EndOf, Limiter!Closed, bucketFor
<1> QED
  BY <1>2, <1>3

\* What Put() leaves is what the abstract limiter holds next.
LEMMA AbstractPut ==
    ASSUME TypeOK, NEW id \in Ids, NEW bucket \in Bucket, now' = now,
           now < bucket.resetAt, bucket.count <= Limit[id], Put(id, bucket)
    PROVE  /\ Used' = [Used EXCEPT ![id] = bucket.count]
           /\ Ends' = [Ends EXCEPT ![id] = bucket.resetAt]
<1>1. Live(id)' /\ peek(id)' = bucket
  BY PutBucket DEF Live, peek
<1>2. ASSUME NEW other \in Ids \ {id}
      PROVE  /\ Live(other)' <=> Live(other)
             /\ peek(other)' = peek(other)
  BY PutBucket DEF Live, peek
<1>3. Used' = [i \in Ids |-> peek(i)'.count]
  BY DEF Used
<1>4. Ends' = [i \in Ids |-> IF Live(i)' THEN peek(i)'.resetAt ELSE 0]
  BY DEF Ends
<1> QED
  BY <1>1, <1>2, <1>3, <1>4 DEF Used, Ends

LEMMA AbstractInit == Init => Limiter!Init
<1> SUFFICES ASSUME Init PROVE Limiter!Init
  OBVIOUS
<1>1. \A id \in Ids : ~Live(id)
  BY DEF Init, Live
<1>2. Used = [id \in Ids |-> 0] /\ Ends = [id \in Ids |-> 0]
  BY <1>1 DEF Used, Ends, peek
<1> QED
  BY <1>2 DEF Init, NoAnswer, Limiter!Init, Limiter!NoAnswer, Limiter!Closed

LEMMA AbstractStep ==
    ASSUME IInv, Next PROVE Limiter!Next \/ UNCHANGED Limiter!vars
<1> USE LimiterAssumption
<1>1. TypeOK /\ History
  BY DEF IInv
<1>2. CASE Sweep
  <2>1. now' = now /\ answer' = answer
    BY <1>2 DEF Sweep
  <2>2. \A id \in Ids : /\ Live(id)' <=> Live(id)
                        /\ peek(id)' = peek(id)
    BY <1>2 DEF Sweep, Live, peek
  <2>3. Used' = Used /\ Ends' = Ends
    BY <2>2 DEF Used, Ends
  <2> QED
    BY <2>1, <2>3 DEF Limiter!vars
<1>3. CASE Tick
  <2>1. /\ now < MaxTime /\ now' = now + 1 /\ now \in Nat
        /\ answer' = answer /\ buckets' = buckets
    BY <1>1, <1>3 DEF Tick, TypeOK
  <2>2. ASSUME NEW id \in Ids
        PROVE  /\ Ends[id] <= now' => ~Live(id)'
               /\ ~(Ends[id] <= now') => /\ Live(id) /\ Live(id)'
                                         /\ peek(id)' = peek(id)
    BY <1>1, <2>1 DEF Ends, Live, peek, TypeOK, Bucket
  <2>3. Used' = [id \in Ids |-> IF Ends[id] <= now' THEN 0 ELSE Used[id]]
    <3>1. Used' = [id \in Ids |-> peek(id)'.count]
      BY DEF Used
    <3>2. \A id \in Ids : peek(id)'.count =
                             (IF Ends[id] <= now' THEN 0 ELSE Used[id])
      BY <2>2 DEF Used, peek
    <3> QED
      BY <3>1, <3>2
  <2>4. Ends' = [id \in Ids |-> IF Ends[id] <= now' THEN 0 ELSE Ends[id]]
    <3>1. Ends' = [id \in Ids |-> IF Live(id)' THEN peek(id)'.resetAt ELSE 0]
      BY DEF Ends
    <3>2. \A id \in Ids : (IF Live(id)' THEN peek(id)'.resetAt ELSE 0) =
                             (IF Ends[id] <= now' THEN 0 ELSE Ends[id])
      BY <2>2 DEF Ends
    <3> QED
      BY <3>1, <3>2
  <2> QED
    BY <2>1, <2>3, <2>4 DEF Limiter!Next, Limiter!Tick, Limiter!Closed
<1>4. ASSUME NEW id \in Ids, CheckRefused(id) PROVE Limiter!Refuse(id)
  <2> DEFINE bucket == bucketFor(id)
  <2>1. /\ bucket \in Bucket /\ bucket.count <= Limit[id]
        /\ now < bucket.resetAt
        /\ Used[id] = bucket.count /\ Limiter!EndOf(id) = bucket.resetAt
    BY <1>1, CheckedBucket, AbstractBucket
  <2>2. /\ bucket.count >= Limit[id] /\ Put(id, bucket) /\ now' = now
        /\ answer' = [id |-> id, allowed |-> FALSE, remaining |-> 0,
                      resetAt |-> bucket.resetAt]
    BY <1>4 DEF CheckRefused, Exhausted, Answer
  <2> HIDE DEF bucket
  <2>3. /\ Used' = [Used EXCEPT ![id] = bucket.count]
        /\ Ends' = [Ends EXCEPT ![id] = bucket.resetAt]
    BY <1>1, <2>1, <2>2, AbstractPut
  <2>4. Used' = Used
    BY <2>1, <2>3 DEF Used
  <2> QED
    BY <2>1, <2>2, <2>3, <2>4 DEF Limiter!Refuse, Limiter!Answer
<1>5. ASSUME NEW id \in Ids, CheckAllowed(id) PROVE Limiter!Grant(id)
  <2> DEFINE old == bucketFor(id)
             new == [old EXCEPT !.count = @ + 1]
  <2>1. /\ old \in Bucket /\ now < old.resetAt
        /\ Used[id] = old.count /\ Limiter!EndOf(id) = old.resetAt
    BY <1>1, CheckedBucket, AbstractBucket
  <2>2. old.count < Limit[id]
    BY <1>5, <2>1 DEF CheckAllowed, Exhausted, Bucket
  <2>3. /\ new \in Bucket /\ new.count = old.count + 1
        /\ new.resetAt = old.resetAt /\ new.count <= Limit[id]
    BY <2>1, <2>2 DEF Bucket
  <2>4. /\ Put(id, new) /\ now' = now
        /\ answer' = [id |-> id, allowed |-> TRUE,
                      remaining |-> Limit[id] - (old.count + 1),
                      resetAt |-> old.resetAt]
    BY <1>5 DEF CheckAllowed, Answer
  <2> HIDE DEF old, new
  <2>5. /\ Used' = [Used EXCEPT ![id] = old.count + 1]
        /\ Ends' = [Ends EXCEPT ![id] = old.resetAt]
    BY <1>1, <2>1, <2>3, <2>4, AbstractPut
  <2>6. Used'[id] = old.count + 1
    BY <2>5 DEF Used
  <2> QED
    BY <2>1, <2>2, <2>4, <2>5, <2>6 DEF Limiter!Grant, Limiter!Answer
<1> QED
  BY <1>2, <1>3, <1>4, <1>5 DEF Next, Limiter!Next

\* createRateLimiter() answers as a limiter without a Map that forgets each
\* window the moment it is over: no sweep, and no bucket a sweep has not
\* reached, ever shows in an answer of check() or peek().
THEOREM LimiterImplementsWindow == Spec => ImplementsWindow
<1>1. Init => Limiter!Init
  BY AbstractInit
<1>2. IInv /\ [Next]_vars => [Limiter!Next]_(Limiter!vars)
  <2> SUFFICES ASSUME IInv, [Next]_vars
               PROVE  Limiter!Next \/ UNCHANGED Limiter!vars
    OBVIOUS
  <2>1. CASE Next
    BY <2>1, AbstractStep
  <2>2. CASE UNCHANGED vars
    BY <2>2 DEF vars, Limiter!vars, Used, Ends, Live, peek
  <2> QED
    BY <2>1, <2>2
<1> QED
  BY <1>1, <1>2, Invariance, PTL DEF Spec, ImplementsWindow, Limiter!Spec
=============================================================================
