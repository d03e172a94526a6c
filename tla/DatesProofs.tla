------------------------------ MODULE DatesProofs ------------------------------
(***************************************************************************)
(* The two facts of Dates: the ladder of queries spans its three days, and *)
(* the backoff of an authorization fits into one, for every minute at      *)
(* which the hourly jobs run, every lag and every first answer.            *)
(***************************************************************************)
EXTENDS Dates, FiniteSetTheorems, TLAPS

(* Induction up to n, over the set of the numbers something holds of.      *)
LEMMA Induction ==
    ASSUME NEW n \in Nat, NEW Good, 0 \in Good,
           \A k \in 1 .. n : k - 1 \in Good => k \in Good
    PROVE  0 .. n \subseteq Good
<1> DEFINE T == (0 .. n) \ Good
<1> SUFFICES ASSUME T # {} PROVE FALSE
  OBVIOUS
<1>1. T \subseteq Nat
  OBVIOUS
<1>2. PICK k \in T : \A j \in T : ~(<<j, k>> \in OpToRel(<, Nat))
  BY <1>1, NatLessThanWellFounded, WFMin, Zenon
<1>3. \A j \in T : ~(j < k)
  BY <1>1, <1>2, Zenon DEF OpToRel
<1>4. k \in 1 .. n /\ k - 1 \in 0 .. n
  OBVIOUS
<1> QED
  BY <1>3, <1>4

(* The sequence from first, each member made of the one before by step.    *)
Unfolds(g, n, S, first, step) ==
    /\ g \in [0 .. n -> S]
    /\ \A k \in 0 .. n : g[k] = IF k = 0 THEN first ELSE step[g[k - 1]]

(* A sequence whose next member depends on the one before exists.          *)
LEMMA RecursionExists ==
    ASSUME NEW n \in Nat, NEW S, NEW first \in S, NEW step \in [S -> S]
    PROVE  \E g : Unfolds(g, n, S, first, step)
<1> DEFINE Good == {m \in Nat : \E g : Unfolds(g, m, S, first, step)}
<1>1. 0 \in Good
  <2>1. Unfolds([k \in 0 .. 0 |-> first], 0, S, first, step)
    BY DEF Unfolds
  <2> QED
    BY <2>1
<1>2. ASSUME NEW m \in 1 .. n, m - 1 \in Good PROVE m \in Good
  <2>1. PICK g : Unfolds(g, m - 1, S, first, step)
    BY <1>2
  <2>2. Unfolds([k \in 0 .. m |-> IF k = m THEN step[g[m - 1]] ELSE g[k]], m, S, first, step)
    BY <2>1 DEF Unfolds
  <2>3. m \in Nat
    OBVIOUS
  <2> QED
    BY <2>2, <2>3
<1> HIDE DEF Good
<1>3. 0 .. n \subseteq Good
  BY <1>1, <1>2, Induction
<1> QED
  BY <1>3 DEF Good

(* One that grows at each member grows throughout.                         *)
LEMMA Increasing ==
    ASSUME NEW n \in Nat, NEW at \in [0 .. n -> Int],
           \A k \in 1 .. n : at[k - 1] < at[k]
    PROVE  \A i, j \in 0 .. n : i < j => at[i] < at[j]
<1> SUFFICES ASSUME NEW i \in 0 .. n PROVE \A j \in 0 .. n : i < j => at[i] < at[j]
  OBVIOUS
<1> DEFINE Good == {j \in Nat : i < j => at[i] < at[j]}
<1>1. 0 \in Good
  OBVIOUS
<1>2. \A k \in 1 .. n : k - 1 \in Good => k \in Good
  OBVIOUS
<1> HIDE DEF Good
<1>3. 0 .. n \subseteq Good
  BY <1>1, <1>2, Induction
<1> QED
  BY <1>3 DEF Good

(* An hourly job runs within the hour.                                     *)
LEMMA NextRunBounds ==
    ASSUME NEW offset \in Int, NEW time \in Int
    PROVE  NextRun(offset, time) \in time .. time + 59
  BY DEF NextRun, Hour

-----------------------------------------------------------------------------
(* Retries of an authorization                                             *)

LEMMA Delays ==
    /\ AuthorizationRetryDelay(0) = 5
    /\ AuthorizationRetryDelay(1) = 60
    /\ AuthorizationRetryDelay(2) = 120
    /\ AuthorizationRetryDelay(3) = 240
    /\ AuthorizationRetryDelay(4) = 480
  BY DEF AuthorizationRetryDelay, PENDING_AUTHORIZATION_GRACE, AUTHORIZATION_RETRY_BASE,
         AUTHORIZATION_RETRY_CAP, Hour

LEMMA RetriedWithin ==
    ASSUME NEW offset \in Offsets, NEW lag \in Lags, NEW time \in Int, NEW tries,
           AuthorizationRetryDelay(tries) \in Int
    PROVE  LET earliest == time + AuthorizationRetryDelay(tries)
           IN  RetriedAt(offset, lag, time, tries) \in earliest .. earliest + 64
<1> DEFINE earliest == time + AuthorizationRetryDelay(tries)
<1>1. offset \in Int /\ lag \in 0 .. 5 /\ earliest \in Int
  BY DEF Offsets, Lags, Hour
<1> HIDE DEF earliest
<1>2. NextRun(offset, earliest) \in earliest .. earliest + 59
  BY <1>1, NextRunBounds
<1>3. NextRun(offset, earliest) + lag \in earliest .. earliest + 64
  BY <1>1, <1>2
<1> QED
  BY <1>3 DEF earliest, RetriedAt

(* Of the tries made by retry_authorizations alone, which all fail, the    *)
(* last fails 15 hours after the first at least, and within a day of the   *)
(* payment (authorization_retry_delay).                                    *)
THEOREM BackoffFits == BackoffFitsADay
<1> SUFFICES ASSUME NEW offset \in Offsets, NEW lag \in Lags, NEW died \in BOOLEAN
             PROVE  FitsADay(FailedAt(offset, lag, died))
  BY DEF BackoffFitsADay
<1> DEFINE retry(time, tries) == RetriedAt(offset, lag, time, tries)
           t1 == IF died THEN retry(0, 0) ELSE 0
           t2 == retry(t1, 1)
           t3 == retry(t2, 2)
           t4 == retry(t3, 3)
           t5 == retry(t4, 4)
           at == [try \in 1 .. 5 |-> CASE try = 1 -> t1 [] try = 2 -> t2 [] try = 3 -> t3
                                       [] try = 4 -> t4 [] try = 5 -> t5]
           failed == FailedAt(offset, lag, died)
<1>1. at = [try \in 1 .. 5 |-> IF try > 1 THEN retry(at[try - 1], try - 1)
                               ELSE IF died THEN retry(0, 0) ELSE 0]
  OBVIOUS
<1>2. failed = [try \in 1 .. 5 |-> IF try > 1 THEN retry(failed[try - 1], try - 1)
                                   ELSE IF died THEN retry(0, 0) ELSE 0]
  BY <1>1, Zenon DEF FailedAt, MAX_AUTHORIZATION_TRIES
<1> HIDE DEF failed, at
<1>3. t1 \in 0 .. 69
  <2> DEFINE paid == 0
  <2>1. paid \in Int /\ AuthorizationRetryDelay(0) \in Int /\ paid + AuthorizationRetryDelay(0) = 5
    BY Delays
  <2> HIDE DEF paid
  <2>2. retry(paid, 0) \in 5 .. 69
    BY <2>1, RetriedWithin
  <2> QED
    BY <2>2 DEF paid
<1>4. failed[1] = t1 /\ failed[5] = t5
  BY <1>2
<1> HIDE DEF t1
<1>5. t2 \in t1 + 60 .. t1 + 124
  BY <1>3, Delays, RetriedWithin
<1> HIDE DEF t2
<1>6. t3 \in t2 + 120 .. t2 + 184
  BY <1>3, <1>5, Delays, RetriedWithin
<1> HIDE DEF t3
<1>7. t4 \in t3 + 240 .. t3 + 304
  BY <1>3, <1>5, <1>6, Delays, RetriedWithin
<1> HIDE DEF t4
<1>8. t5 \in t4 + 480 .. t4 + 544
  BY <1>3, <1>5, <1>6, <1>7, Delays, RetriedWithin
<1> HIDE DEF t5
<1> QED
  BY <1>3, <1>4, <1>5, <1>6, <1>7, <1>8 DEF FitsADay, MAX_AUTHORIZATION_TRIES, Hour, failed

-----------------------------------------------------------------------------
(* Queries about an Unresolved attempt                                     *)

LEMMA RecordedWithin ==
    ASSUME NEW offset \in Offsets, NEW lag \in Lags, NEW time \in Nat
    PROVE  LET earliest == time + UnresolvedPollInterval(time)
           IN  RecordedAfter(offset, lag, time) \in earliest .. earliest + 59 + lag
<1> DEFINE earliest == time + UnresolvedPollInterval(time)
<1>1. offset \in Int /\ lag \in 0 .. 5 /\ earliest \in Int
  BY DEF Offsets, Lags, UnresolvedPollInterval, Hour
<1> HIDE DEF earliest
<1>2. NextRun(offset, earliest) \in earliest .. earliest + 59
  BY <1>1, NextRunBounds
<1>3. NextRun(offset, earliest) + lag \in earliest .. earliest + 59 + lag
  BY <1>1, <1>2
<1> QED
  BY <1>3 DEF earliest, RecordedAfter, NextAttemptCheck

(* What a sequence of answers is to the next lemmas.                       *)
Ladder(at, offset, lag) ==
    /\ at \in [QueryNumbers -> Nat]
    /\ \A k \in 1 .. 20 :
          LET earliest == at[k - 1] + UnresolvedPollInterval(at[k - 1])
          IN  at[k] \in earliest .. earliest + 59 + lag

LEMMA RecordedIsALadder ==
    ASSUME NEW offset \in Offsets, NEW lag \in Lags, NEW first \in Firsts
    PROVE  LET at == RecordedAt(offset, lag, first)
           IN  Ladder(at, offset, lag) /\ at[0] = first
<1> DEFINE next(time) == RecordedAfter(offset, lag, time)
           step == [time \in Nat |-> next(time)]
           at == RecordedAt(offset, lag, first)
<1>1. \A time \in Nat : next(time) \in Nat
  <2> SUFFICES ASSUME NEW time \in Nat PROVE next(time) \in Nat
    OBVIOUS
  <2>1. UnresolvedPollInterval(time) \in Nat /\ lag \in Nat
    BY DEF UnresolvedPollInterval, Hour, Lags
  <2> QED
    BY <2>1, RecordedWithin
<1> HIDE DEF next
<1>2. step \in [Nat -> Nat] /\ first \in Nat
  BY <1>1 DEF Firsts
<1>3. PICK g : Unfolds(g, 20, Nat, first, step)
  <2> HIDE DEF step
  <2> QED
    BY <1>2, RecursionExists, 20 \in Nat
<1>4. g = [k \in 0 .. 20 |-> IF k = 0 THEN first ELSE next(g[k - 1])]
  <2>1. \A k \in 0 .. 20 : k # 0 => step[g[k - 1]] = next(g[k - 1])
    BY <1>3 DEF Unfolds
  <2> QED
    BY <1>3, <2>1 DEF Unfolds
<1>5. at = [k \in 0 .. 20 |-> IF k = 0 THEN first ELSE next(at[k - 1])]
  BY <1>4, Zenon DEF RecordedAt, QueryNumbers, next
<1> HIDE DEF at
<1> DEFINE Good == {k \in 0 .. 20 : at[k] \in Nat}
<1>6. 0 .. 20 \subseteq Good
  <2>1. 0 \in Good
    BY <1>2, <1>5
  <2>2. \A k \in 1 .. 20 : k - 1 \in Good => k \in Good
    BY <1>1, <1>5
  <2> HIDE DEF Good
  <2> QED
    BY <2>1, <2>2, Induction
<1>7. at \in [QueryNumbers -> Nat]
  BY <1>5, <1>6 DEF QueryNumbers
<1>8. at[0] = first
  BY <1>5
<1>9. ASSUME NEW k \in 1 .. 20
      PROVE  LET earliest == at[k - 1] + UnresolvedPollInterval(at[k - 1])
             IN  at[k] \in earliest .. earliest + 59 + lag
  <2>1. at[k] = next(at[k - 1]) /\ at[k - 1] \in Nat
    BY <1>5, <1>7 DEF QueryNumbers
  <2> QED
    BY <2>1, RecordedWithin DEF next
<1> QED
  BY <1>7, <1>8, <1>9 DEF Ladder, at

(* How soon an answer follows another.                                     *)
Follows(time, next) ==
    \/ time < 360 /\ next \in time + 60 .. time + 124
    \/ time \in 360 .. 1439 /\ next \in time + 240 .. time + 304
    \/ time >= 1440 /\ next \in time + 720 .. time + 784

(* The answers as they come: each later than the last, soon at first, at   *)
(* least the 15th from the deadline after three days.                      *)
LEMMA LadderBounds ==
    ASSUME NEW at, NEW offset \in Offsets, NEW lag \in Lags,
           Ladder(at, offset, lag), at[0] \in Firsts
    PROVE  /\ \A i, j \in QueryNumbers : i < j => at[i] < at[j]
           /\ at[2] <= 6 * Hour
           /\ at[10] < UNRESOLVED_ALERT_AFTER
           /\ at[15] - lag >= UNRESOLVED_ALERT_AFTER
<1> DEFINE interval(time) == UnresolvedPollInterval(time)
<1>0. at[0] \in 0 .. 3
  BY DEF Firsts
<1>1. lag \in 0 .. 5 /\ \A k \in 0 .. 20 : at[k] \in Nat
  BY DEF Lags, Ladder, QueryNumbers
<1>2. \A k \in 1 .. 20 : at[k] \in at[k - 1] + interval(at[k - 1]) .. at[k - 1] + interval(at[k - 1]) + 64
  BY <1>1 DEF Ladder, UnresolvedPollInterval, Hour
<1>3. ASSUME NEW time \in Nat
      PROVE  interval(time) = IF time < 360 THEN 60 ELSE IF time < 1440 THEN 240 ELSE 720
  BY DEF UnresolvedPollInterval, Hour
<1> HIDE DEF interval
<1>4. ASSUME NEW k \in 1 .. 20 PROVE Follows(at[k - 1], at[k])
  <2> DEFINE before == at[k - 1]
  <2>1. before \in Nat /\ at[k] \in before + interval(before) .. before + interval(before) + 64
    BY <1>1, <1>2
  <2> HIDE DEF before
  <2>2. Follows(before, at[k])
    BY <2>1, <1>3 DEF Follows
  <2> QED
    BY <2>2 DEF before
<1>5. \A i, j \in QueryNumbers : i < j => at[i] < at[j]
  <2>1. \A k \in 1 .. 20 : at[k - 1] < at[k]
    <3> SUFFICES ASSUME NEW k \in 1 .. 20 PROVE at[k - 1] < at[k]
      OBVIOUS
    <3>1. at[k - 1] \in Nat /\ at[k] \in Nat
      BY <1>1
    <3>2. Follows(at[k - 1], at[k])
      BY <1>4
    <3> QED
      BY <3>1, <3>2 DEF Follows
  <2>2. at \in [0 .. 20 -> Int]
    BY DEF Ladder, QueryNumbers
  <2> QED
    BY <2>1, <2>2, Increasing, 20 \in Nat DEF QueryNumbers
<1> DEFINE a0  == at[0]
           a1  == at[1]
           a2  == at[2]
           a3  == at[3]
           a4  == at[4]
           a5  == at[5]
           a6  == at[6]
           a7  == at[7]
           a8  == at[8]
           a9  == at[9]
           a10 == at[10]
           a11 == at[11]
           a12 == at[12]
           a13 == at[13]
           a14 == at[14]
           a15 == at[15]
<1>6. /\ Follows(a0, a1) /\ Follows(a1, a2) /\ Follows(a2, a3)
      /\ Follows(a3, a4) /\ Follows(a4, a5) /\ Follows(a5, a6)
      /\ Follows(a6, a7) /\ Follows(a7, a8) /\ Follows(a8, a9)
      /\ Follows(a9, a10) /\ Follows(a10, a11) /\ Follows(a11, a12)
      /\ Follows(a12, a13) /\ Follows(a13, a14) /\ Follows(a14, a15)
  <2>1. Follows(a0, a1)
    BY <1>4, 1 \in 1 .. 20, 1 - 1 = 0
  <2>2. Follows(a1, a2)
    BY <1>4, 2 \in 1 .. 20, 2 - 1 = 1
  <2>3. Follows(a2, a3)
    BY <1>4, 3 \in 1 .. 20, 3 - 1 = 2
  <2>4. Follows(a3, a4)
    BY <1>4, 4 \in 1 .. 20, 4 - 1 = 3
  <2>5. Follows(a4, a5)
    BY <1>4, 5 \in 1 .. 20, 5 - 1 = 4
  <2>6. Follows(a5, a6)
    BY <1>4, 6 \in 1 .. 20, 6 - 1 = 5
  <2>7. Follows(a6, a7)
    BY <1>4, 7 \in 1 .. 20, 7 - 1 = 6
  <2>8. Follows(a7, a8)
    BY <1>4, 8 \in 1 .. 20, 8 - 1 = 7
  <2>9. Follows(a8, a9)
    BY <1>4, 9 \in 1 .. 20, 9 - 1 = 8
  <2>10. Follows(a9, a10)
    BY <1>4, 10 \in 1 .. 20, 10 - 1 = 9
  <2>11. Follows(a10, a11)
    BY <1>4, 11 \in 1 .. 20, 11 - 1 = 10
  <2>12. Follows(a11, a12)
    BY <1>4, 12 \in 1 .. 20, 12 - 1 = 11
  <2>13. Follows(a12, a13)
    BY <1>4, 13 \in 1 .. 20, 13 - 1 = 12
  <2>14. Follows(a13, a14)
    BY <1>4, 14 \in 1 .. 20, 14 - 1 = 13
  <2>15. Follows(a14, a15)
    BY <1>4, 15 \in 1 .. 20, 15 - 1 = 14
  <2> QED
    BY <2>1, <2>2, <2>3, <2>4, <2>5, <2>6, <2>7, <2>8, <2>9, <2>10, <2>11, <2>12, <2>13, <2>14, <2>15
<1>7. a0 \in 0 .. 3
  BY <1>0
<1> HIDE DEF a0, a1, a2, a3, a4, a5, a6, a7, a8, a9, a10, a11, a12, a13, a14, a15
<1>8. a1 \in 60 .. 127
  <2>1. Follows(a0, a1)
    BY <1>6
  <2> QED
    BY <1>7, <2>1 DEF Follows
<1>9. a2 \in 120 .. 251
  <2>1. Follows(a1, a2)
    BY <1>6
  <2> QED
    BY <1>8, <2>1 DEF Follows
<1>10. a3 \in 180 .. 375
  <2>1. Follows(a2, a3)
    BY <1>6
  <2> QED
    BY <1>9, <2>1 DEF Follows
<1>11. a4 \in 240 .. 679
  <2>1. Follows(a3, a4)
    BY <1>6
  <2> QED
    BY <1>10, <2>1 DEF Follows
<1>12. a5 \in 300 .. 983
  <2>1. Follows(a4, a5)
    BY <1>6
  <2> QED
    BY <1>11, <2>1 DEF Follows
<1>13. a6 \in 360 .. 1287
  <2>1. Follows(a5, a6)
    BY <1>6
  <2> QED
    BY <1>12, <2>1 DEF Follows
<1>14. a7 \in 600 .. 1591
  <2>1. Follows(a6, a7)
    BY <1>6
  <2> QED
    BY <1>13, <2>1 DEF Follows
<1>15. a8 \in 840 .. 2375
  <2>1. Follows(a7, a8)
    BY <1>6
  <2> QED
    BY <1>14, <2>1 DEF Follows
<1>16. a9 \in 1080 .. 3159
  <2>1. Follows(a8, a9)
    BY <1>6
  <2> QED
    BY <1>15, <2>1, SMTT(60) DEF Follows
<1>17. a10 \in 1320 .. 3943
  <2>1. Follows(a9, a10)
    BY <1>6
  <2> QED
    BY <1>16, <2>1, SMTT(60) DEF Follows
<1>18. a11 \in Int /\ a11 >= 1560
  <2>1. Follows(a10, a11)
    BY <1>6
  <2> QED
    BY <1>17, <2>1, SMTT(60) DEF Follows
<1>19. a12 \in Int /\ a12 >= 2280
  <2>1. Follows(a11, a12)
    BY <1>6
  <2> QED
    BY <1>18, <2>1, SMTT(60) DEF Follows
<1>20. a13 \in Int /\ a13 >= 3000
  <2>1. Follows(a12, a13)
    BY <1>6
  <2> QED
    BY <1>19, <2>1, SMTT(60) DEF Follows
<1>21. a14 \in Int /\ a14 >= 3720
  <2>1. Follows(a13, a14)
    BY <1>6
  <2> QED
    BY <1>20, <2>1, SMTT(60) DEF Follows
<1>22. a15 \in Int /\ a15 >= 4440
  <2>1. Follows(a14, a15)
    BY <1>6
  <2> QED
    BY <1>21, <2>1, SMTT(60) DEF Follows
<1>23. a2 <= 251 /\ a10 <= 3943 /\ a15 >= 4440
  BY <1>9, <1>17, <1>22
<1>24. at[2] \in Nat /\ at[10] \in Nat /\ at[15] \in Nat
  BY <1>1
<1> QED
  BY <1>1, <1>5, <1>23, <1>24 DEF a2, a10, a15, Hour, UNRESOLVED_ALERT_AFTER

(* So many numbers name as many ages.                                      *)
LEMMA CountedByNumber ==
    ASSUME NEW at, \A i, j \in QueryNumbers : i < j => at[i] < at[j],
           at \in [QueryNumbers -> Nat], NEW n \in 0 .. 20
    PROVE  /\ IsFiniteSet({at[k] : k \in 0 .. n})
           /\ Cardinality({at[k] : k \in 0 .. n}) = n + 1
<1> DEFINE ages == {at[k] : k \in 0 .. n}
           f == [k \in 0 .. n |-> at[k]]
<1>1. IsFiniteSet(0 .. n) /\ Cardinality(0 .. n) = n + 1
  BY FS_Interval, 0 \in Int, n \in Int
<1>2. \A i, j \in 0 .. n : at[i] = at[j] => i = j
  BY DEF QueryNumbers
<1>3. f \in Bijection(0 .. n, ages)
  BY <1>2 DEF Bijection, Injection, Surjection, IsInjective
<1> QED
  BY <1>1, <1>3, FS_Bijection DEF ExistsBijection

(* An attempt that only the hourly job asks about, with an answer each     *)
(* time, is asked 11 to 15 times through its three days:                   *)
(* UNRESOLVED_POLL_LADDER (_next_attempt_check, check_unresolved_attempts).*)
THEOREM LadderSpans == LadderSpansThreeDays
<1> SUFFICES ASSUME NEW offset \in Offsets, NEW lag \in Lags, NEW first \in Firsts
             PROVE  SpansThreeDays(Queries(offset, lag, first), lag)
  BY DEF LadderSpansThreeDays
<1> DEFINE at == RecordedAt(offset, lag, first)
           asked == {j \in QueryNumbers : j = 0 \/ at[j] - lag < UNRESOLVED_ALERT_AFTER}
           queries == {at[k] : k \in asked}
           upTo(n) == {at[k] : k \in 0 .. n}
<1>1. queries = Queries(offset, lag, first)
  BY DEF Queries
<1>2. Ladder(at, offset, lag) /\ at[0] \in Firsts
  BY RecordedIsALadder
<1> HIDE DEF at
<1>3. lag \in 0 .. 5 /\ at \in [QueryNumbers -> Nat]
  BY <1>2 DEF Lags, Ladder
<1>4. /\ \A i, j \in QueryNumbers : i < j => at[i] < at[j]
      /\ at[2] <= 6 * Hour
      /\ at[10] < UNRESOLVED_ALERT_AFTER
      /\ at[15] - lag >= UNRESOLVED_ALERT_AFTER
  BY <1>2, LadderBounds
<1>5. 0 .. 10 \subseteq asked
  <2> SUFFICES ASSUME NEW k \in 0 .. 10 PROVE k \in asked
    OBVIOUS
  <2>1. k \in QueryNumbers /\ 10 \in QueryNumbers /\ at[k] \in Nat /\ at[10] \in Nat
    BY <1>3 DEF QueryNumbers
  <2>2. at[k] <= at[10]
    BY <1>4, <2>1
  <2> QED
    BY <1>3, <1>4, <2>1, <2>2 DEF UNRESOLVED_ALERT_AFTER, Hour
<1>6. asked \subseteq 0 .. 14
  <2> SUFFICES ASSUME NEW k \in 15 .. 20 PROVE k \notin asked
    BY DEF QueryNumbers
  <2>1. k \in QueryNumbers /\ 15 \in QueryNumbers /\ at[k] \in Nat /\ at[15] \in Nat
    BY <1>3 DEF QueryNumbers
  <2>2. at[k] >= at[15]
    BY <1>4, <2>1
  <2> QED
    BY <1>3, <1>4, <2>1, <2>2 DEF UNRESOLVED_ALERT_AFTER, Hour
<1>7. ASSUME NEW n \in 0 .. 20
      PROVE  IsFiniteSet(upTo(n)) /\ Cardinality(upTo(n)) = n + 1
  BY <1>3, <1>4, CountedByNumber
<1>8. IsFiniteSet(queries) /\ Cardinality(queries) <= 15
  <2>1. IsFiniteSet(upTo(14)) /\ Cardinality(upTo(14)) = 15
    BY <1>7, 14 \in 0 .. 20
  <2>2. queries \in SUBSET upTo(14)
    BY <1>6
  <2> HIDE DEF queries, upTo
  <2> QED
    BY <2>1, <2>2, FS_Subset
<1>9. Cardinality(queries) \in 11 .. 15
  <2>1. Cardinality(upTo(10)) = 11
    BY <1>7, 10 \in 0 .. 20
  <2>2. upTo(10) \in SUBSET queries
    BY <1>5
  <2> HIDE DEF queries, upTo
  <2>3. Cardinality(upTo(10)) <= Cardinality(queries) /\ Cardinality(queries) \in Nat
    BY <1>8, <2>2, FS_Subset, FS_CardinalityType
  <2> QED
    BY <1>8, <2>1, <2>3
<1>10. Cardinality({q \in queries : q <= 6 * Hour}) >= 3
  <2> DEFINE soon == {q \in queries : q <= 6 * Hour}
  <2>1. Cardinality(upTo(2)) = 3
    BY <1>7, 2 \in 0 .. 20
  <2>2. ASSUME NEW k \in 0 .. 2 PROVE at[k] \in soon
    <3>1. k \in QueryNumbers /\ 2 \in QueryNumbers /\ at[k] \in Nat /\ at[2] \in Nat
      BY <1>3 DEF QueryNumbers
    <3>2. at[k] <= at[2]
      BY <1>4, <3>1
    <3> QED
      BY <1>4, <1>5, <3>1, <3>2 DEF Hour
  <2>3. soon \in SUBSET queries /\ upTo(2) \in SUBSET soon
    BY <2>2
  <2> HIDE DEF queries, upTo, soon
  <2>4. IsFiniteSet(soon)
    BY <1>8, <2>3, FS_Subset
  <2>5. Cardinality(upTo(2)) <= Cardinality(soon)
    BY <2>3, <2>4, FS_Subset
  <2> QED
    BY <2>1, <2>4, <2>5, FS_CardinalityType DEF soon
<1>11. ASSUME NEW i \in 0 .. 19
       PROVE  /\ i \in QueryNumbers /\ i + 1 \in QueryNumbers
              /\ at[i] \in Nat /\ at[i + 1] \in Nat
              /\ UnresolvedPollInterval(at[i]) \in 60 .. 720
              /\ at[i + 1] >= at[i] + UnresolvedPollInterval(at[i])
              /\ at[i + 1] <= at[i] + UnresolvedPollInterval(at[i]) + 59 + lag
  <2>1. i \in QueryNumbers /\ i + 1 \in QueryNumbers /\ at[i] \in Nat /\ at[i + 1] \in Nat
    BY <1>3 DEF QueryNumbers
  <2>2. UnresolvedPollInterval(at[i]) \in 60 .. 720
    BY <2>1 DEF UnresolvedPollInterval, Hour
  <2>3. i + 1 \in 1 .. 20 /\ (i + 1) - 1 = i
    OBVIOUS
  <2>4. at[i + 1] \in at[i] + UnresolvedPollInterval(at[i])
                        .. at[i] + UnresolvedPollInterval(at[i]) + 59 + lag
    BY <1>2, <2>3 DEF Ladder
  <2> QED
    BY <1>3, <2>1, <2>2, <2>4
<1>12. ASSUME NEW q \in queries, NEW r \in queries, r > q
       PROVE  r >= q + UnresolvedPollInterval(q)
  <2>1. PICK i \in asked, j \in asked : q = at[i] /\ r = at[j]
    BY <1>12
  <2>2. i \in 0 .. 14 /\ j \in 0 .. 14 /\ i \in QueryNumbers /\ j \in QueryNumbers
    BY <1>6, <2>1 DEF QueryNumbers
  <2>3. at[i] \in Nat /\ at[j] \in Nat
    BY <1>3, <2>2
  <2>4. i < j
    BY <1>4, <1>12, <2>1, <2>2, <2>3
  <2> DEFINE next == at[i + 1]
             wait == UnresolvedPollInterval(at[i])
  <2>5. i \in 0 .. 19
    BY <2>2
  <2>6. i + 1 \in QueryNumbers /\ next \in Nat /\ wait \in 60 .. 720 /\ next >= at[i] + wait
    BY <1>11, <2>5
  <2>7. i + 1 = j \/ i + 1 < j
    BY <2>2, <2>4
  <2>8. next = at[j] \/ next < at[j]
    BY <1>4, <2>2, <2>6, <2>7
  <2> DEFINE before == at[i]
             later == at[j]
  <2>9. /\ before \in Nat /\ later \in Nat /\ next \in Nat /\ wait \in 60 .. 720
        /\ next >= before + wait /\ (next = later \/ next < later)
    BY <2>3, <2>6, <2>8
  <2> HIDE DEF next, wait, before, later
  <2>10. later >= before + wait
    BY <2>9
  <2> QED
    BY <2>1, <2>10 DEF wait, before, later
<1>13. ASSUME NEW q \in queries
       PROVE  \/ q + 13 * Hour + lag >= UNRESOLVED_ALERT_AFTER
              \/ \E r \in queries : q < r /\ r <= q + 13 * Hour + lag
  <2>1. PICK i \in asked : q = at[i]
    BY <1>13
  <2>2. i \in 0 .. 19
    BY <1>6, <2>1
  <2> DEFINE next == at[i + 1]
             wait == UnresolvedPollInterval(at[i])
  <2>3. /\ i + 1 \in QueryNumbers /\ at[i] \in Nat /\ next \in Nat /\ wait \in 60 .. 720
        /\ next >= at[i] + wait /\ next <= at[i] + wait + 59 + lag
    <3>1. i + 1 \in QueryNumbers /\ at[i] \in Nat /\ next \in Nat /\ wait \in 60 .. 720
      BY <1>11, <2>2
    <3>2. next >= at[i] + wait
      BY <1>11, <2>2
    <3>3. next <= at[i] + wait + 59 + lag
      BY <1>11, <2>2
    <3> QED
      BY <3>1, <3>2, <3>3
  <2>4. CASE next - lag < UNRESOLVED_ALERT_AFTER
    <3>1. next \in queries
      BY <2>3, <2>4
    <3> HIDE DEF next, wait, queries
    <3>2. at[i] < next /\ next <= at[i] + 13 * Hour + lag
      BY <1>3, <2>3 DEF Hour
    <3> QED
      BY <2>1, <3>1, <3>2
  <2>5. CASE ~(next - lag < UNRESOLVED_ALERT_AFTER)
    <3> HIDE DEF next, wait, queries
    <3> QED
      BY <1>3, <2>1, <2>3, <2>5 DEF Hour, UNRESOLVED_ALERT_AFTER
  <2> QED
    BY <2>4, <2>5
<1> QED
  BY <1>1, <1>9, <1>10, <1>12, <1>13 DEF SpansThreeDays
=============================================================================
