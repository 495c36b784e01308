-------------------------- MODULE RateLimiterProofs --------------------------
(***************************************************************************)
(* Proofs about the token buckets, for every number of buckets and of      *)
(* sources, every capacity, rate, period and lag: a bucket never holds     *)
(* more than its capacity, a source has one bucket, between two new        *)
(* buckets no source gets more than the limit promises, and none that      *)
(* keeps to the promised rate finds its bucket empty, however the three    *)
(* threads overlap.                                                        *)
(***************************************************************************)
EXTENDS RateLimiter, WellFoundedInduction, TLAPS

-----------------------------------------------------------------------------
(* Arithmetic.                                                             *)

\* The tokens of a number of ticks.
Worth(ticks) == Rate * ticks

\* The constants as the arithmetic uses them.
LEMMA Sizes ==
  /\ Buckets \in Nat /\ Buckets >= 1 /\ Burst \in Nat /\ Burst >= 1
  /\ Rate \in Nat /\ Rate >= 1 /\ Period \in Nat /\ Period >= 1
  /\ ClampTicks \in Nat /\ EvictAfter \in Nat /\ RefillLag \in Nat /\ EvictLag \in Nat
  /\ Tracked \in Source /\ kInvalidSourceId \notin Source
  /\ Bucket = 0 .. Buckets - 1
  /\ RefillDelay = Period + RefillLag /\ MaxRefillAge = Burst + RefillLag
  /\ MaxIdle = EvictAfter + EvictLag + 1
  <1>1. {Buckets, Burst, Rate, Period} \subseteq Nat \ {0}
    BY LimiterAssumption
  <1>2. {ClampTicks, EvictAfter, RefillLag, EvictLag} \subseteq Nat
    BY LimiterAssumption
  <1>3. \A n \in Nat \ {0} : n \in Nat /\ n >= 1
    OBVIOUS
  <1>4. Tracked \in Source /\ kInvalidSourceId \notin Source
    BY LimiterAssumption
  <1> QED
    BY <1>1, <1>2, <1>3, <1>4 DEF Bucket, RefillDelay, MaxRefillAge, MaxIdle

\* Worth() is additive and monotone, a tick is worth at least a token, and the
\* longest credit fills a bucket.
LEMMA WorthFacts ==
  /\ \A a \in Nat : Worth(a) \in Nat /\ Worth(a) >= a
  /\ \A a, b \in Nat : Worth(a + b) = Worth(a) + Worth(b)
  /\ \A a, b \in Nat : a <= b => Worth(a) <= Worth(b)
  /\ Worth(0) = 0 /\ Worth(1) = Rate
  /\ Worth(ClampTicks) >= Burst
  <1>1. Rate \in Nat /\ Rate >= 1
    BY Sizes
  <1>2. ASSUME NEW a \in Nat PROVE Worth(a) \in Nat /\ Worth(a) >= a
    <2>1. Rate = 1 + (Rate - 1) /\ Rate - 1 \in Nat
      BY <1>1
    <2>2. \A r \in Nat : r * a \in Nat /\ (1 + r) * a = a + r * a
      OBVIOUS
    <2> QED
      BY <2>1, <2>2 DEF Worth
  <1>3. ASSUME NEW a \in Nat, NEW b \in Nat PROVE Worth(a + b) = Worth(a) + Worth(b)
    BY <1>1 DEF Worth
  <1>4. ASSUME NEW a \in Nat, NEW b \in Nat, a <= b PROVE Worth(a) <= Worth(b)
    <2>1. b - a \in Nat /\ b = a + (b - a)
      BY <1>4
    <2>2. Worth(b) = Worth(a) + Worth(b - a)
      BY <1>3, <2>1
    <2> QED
      BY <1>2, <2>1, <2>2
  <1>5. Worth(0) = 0 /\ Worth(1) = Rate
    BY <1>1 DEF Worth
  <1>6. Worth(ClampTicks) >= Burst
    BY LimiterAssumption DEF Worth
  <1> QED
    BY <1>2, <1>3, <1>4, <1>5, <1>6

\* The smaller and the larger of two integers.
LEMMA MinOfTwo ==
  ASSUME NEW a \in Int, NEW b \in Int
  PROVE  Min({a, b}) = IF a <= b THEN a ELSE b
  <1>1. \E x \in {a, b} : \A y \in {a, b} : x <= y
    OBVIOUS
  <1>2. Min({a, b}) \in {a, b} /\ \A y \in {a, b} : Min({a, b}) <= y
    BY <1>1 DEF Min
  <1> QED
    BY <1>2

LEMMA MaxOfTwo ==
  ASSUME NEW a \in Int, NEW b \in Int
  PROVE  Max({a, b}) = IF a >= b THEN a ELSE b
  <1>1. \E x \in {a, b} : \A y \in {a, b} : x >= y
    OBVIOUS
  <1>2. Max({a, b}) \in {a, b} /\ \A y \in {a, b} : Max({a, b}) >= y
    BY <1>1 DEF Max
  <1> QED
    BY <1>2

\* The order of the naturals as a relation that has least elements.
LEMMA LessThan ==
  \E R : IsWellFoundedOn(R, Nat) /\ \A x, y \in Nat : <<x, y>> \in R <=> x < y
  <1> DEFINE R == OpToRel(<, Nat)
  <1>1. IsWellFoundedOn(R, Nat)
    BY NatLessThanWellFounded
  <1>2. ASSUME NEW x \in Nat, NEW y \in Nat PROVE <<x, y>> \in R <=> x < y
    BY DEF OpToRel
  <1> HIDE DEF R
  <1> QED
    BY <1>1, <1>2

\* A nonempty set of naturals has a least element, and Min() is it.
LEMMA LeastNat ==
  ASSUME NEW S \in SUBSET Nat, S # {}
  PROVE  Min(S) \in S
  <1>1. PICK R : IsWellFoundedOn(R, Nat) /\ \A x, y \in Nat : <<x, y>> \in R <=> x < y
    BY LessThan
  <1>a. IsWellFoundedOn(R, Nat) /\ S \subseteq Nat
    BY <1>1
  <1>2. \E m \in S : \A y \in S : ~(<<y, m>> \in R)
    BY <1>a, WFMin, Zenon
  <1>3. PICK m \in S : \A y \in S : ~(<<y, m>> \in R)
    BY <1>2
  <1>4. ASSUME NEW y \in S PROVE m <= y
    <2>1. ~(y < m) /\ y \in Nat /\ m \in Nat
      BY <1>1, <1>3
    <2> QED
      BY <2>1
  <1> QED
    BY <1>4 DEF Min

\* The burst of both promises.
LEMMA FullIs ==
  /\ promise = "limit" => Full = 2 * Burst + Worth(RefillDelay)
  /\ promise # "limit" => Full = Burst - Worth(RefillDelay)
  /\ Full \in Int
  /\ -Rate * RefillDelay = -Worth(RefillDelay)
  /\ Worth(RefillDelay) = Worth(Period) + Worth(RefillLag)
  /\ Worth(RefillDelay) \in Nat /\ Worth(Period) \in Nat /\ Worth(RefillLag) \in Nat
  /\ Worth(Period) >= 1
  <1>0. Period \in Nat /\ Period >= 1 /\ RefillLag \in Nat
        /\ RefillDelay = Period + RefillLag /\ RefillDelay \in Nat
    BY Sizes
  <1>a. Worth(RefillDelay) \in Nat /\ Worth(Period) \in Nat /\ Worth(RefillLag) \in Nat
    BY <1>0, WorthFacts
  <1>b. Worth(RefillDelay) = Worth(Period) + Worth(RefillLag)
    BY <1>0, WorthFacts
  <1>c. Worth(Period) >= Period
    BY <1>0, WorthFacts
  <1>1. Worth(RefillDelay) \in Nat /\ Worth(Period) \in Nat /\ Worth(RefillLag) \in Nat
        /\ Worth(RefillDelay) = Worth(Period) + Worth(RefillLag) /\ Worth(Period) >= 1
    BY <1>0, <1>a, <1>b, <1>c
  <1>2. Rate * RefillDelay = Worth(RefillDelay)
    BY DEF Worth
  <1>3. -Rate * RefillDelay = -Worth(RefillDelay)
    BY Sizes DEF Worth
  <1>4. Burst \in Nat
    BY Sizes
  <1>5. promise = "limit" => Full = 2 * Burst + Worth(RefillDelay)
    BY <1>2 DEF Full
  <1>6. promise # "limit" => Full = Burst - Worth(RefillDelay)
    BY <1>1, <1>3, <1>4 DEF Full
  <1>7. Full \in Int
    BY <1>1, <1>4, <1>5, <1>6
  <1> QED
    BY <1>1, <1>3, <1>5, <1>6, <1>7

-----------------------------------------------------------------------------
(* Types.                                                                  *)

BucketRecord == [active : BOOLEAN, sourceId : Source \cup {kInvalidSourceId},
                 tokens : 0 .. Burst, refillAge : 0 .. MaxRefillAge, idle : 0 .. MaxIdle]

NetBusy == [pc : {"allocate", "fill", "charge"}, src : Source, idx : Bucket]
RefillBusy == [pc : {"look", "credit", "stamp"}, idx : Bucket,
               lag : 0 .. RefillLag, elapsed : 0 .. MaxRefillAge]
EvictBusy == [pc : {"look", "reset", "release"}, idx : Bucket, lag : 0 .. EvictLag]

NetOK == net = Idle \/ net \in NetBusy
RefillOK == refill = Idle \/ refill \in RefillBusy
EvictOK == evict = Idle \/ evict \in EvictBusy

TypeInv ==
  /\ buckets \in [Bucket -> BucketRecord]
  /\ NetOK /\ RefillOK /\ EvictOK
  /\ wait \in 0 .. Period
  /\ promise \in {"limit", "service"}
  /\ meter \in Int /\ meter <= Full

\* A bucket record stays one when one of its fields gets another legal value ...
LEMMA BucketUpdate ==
  ASSUME NEW r \in BucketRecord
  PROVE  /\ \A v \in BOOLEAN : [r EXCEPT !.active = v] \in BucketRecord
         /\ \A v \in Source \cup {kInvalidSourceId} : [r EXCEPT !.sourceId = v] \in BucketRecord
         /\ \A v \in 0 .. Burst : [r EXCEPT !.tokens = v] \in BucketRecord
         /\ \A v \in 0 .. MaxRefillAge : [r EXCEPT !.refillAge = v] \in BucketRecord
         /\ \A v \in 0 .. MaxIdle : [r EXCEPT !.idle = v] \in BucketRecord
  BY DEF BucketRecord

\* ... and so does the table when one of its buckets is replaced by a legal one.
LEMMA BucketStore ==
  ASSUME buckets \in [Bucket -> BucketRecord], NEW b \in Bucket, NEW r \in BucketRecord
  PROVE  /\ [buckets EXCEPT ![b] = r] \in [Bucket -> BucketRecord]
         /\ [buckets EXCEPT ![b] = r][b] = r
         /\ \A c \in Bucket : c # b => [buckets EXCEPT ![b] = r][c] = buckets[c]
  OBVIOUS

\* A thread that is not idle is at a bucket.
LEMMA Places ==
  ASSUME TypeInv
  PROVE  /\ net.pc # "idle" => net \in NetBusy
         /\ refill.pc # "idle" => refill \in RefillBusy
         /\ evict.pc # "idle" => evict \in EvictBusy
  BY DEF TypeInv, NetOK, RefillOK, EvictOK, Idle, NetBusy, RefillBusy, EvictBusy

\* Where a pass of a task goes after a bucket.
LEMMA NextRefill ==
  ASSUME refill \in RefillBusy
  PROVE  \/ NextBucket(refill) = Idle /\ refill.idx + 1 >= Buckets
         \/ /\ NextBucket(refill) \in RefillBusy
            /\ NextBucket(refill).pc = "look"
            /\ NextBucket(refill).idx = refill.idx + 1
            /\ NextBucket(refill).lag = refill.lag
  <1>1. refill.idx \in Bucket /\ Buckets \in Nat /\ Bucket = 0 .. Buckets - 1
    BY Sizes DEF RefillBusy
  <1>2. CASE refill.idx + 1 < Buckets
    <2>1. NextBucket(refill) = [refill EXCEPT !.idx = refill.idx + 1, !.pc = "look"]
      BY <1>2 DEF NextBucket, RefillBusy
    <2>2. refill.idx + 1 \in Bucket
      BY <1>1, <1>2
    <2> QED
      BY <2>1, <2>2 DEF RefillBusy
  <1>3. CASE ~(refill.idx + 1 < Buckets)
    BY <1>1, <1>3 DEF NextBucket
  <1> QED
    BY <1>2, <1>3

LEMMA NextEvict ==
  ASSUME evict \in EvictBusy
  PROVE  NextBucket(evict) = Idle \/ NextBucket(evict) \in EvictBusy
  <1>1. evict.idx \in Bucket /\ Buckets \in Nat /\ Bucket = 0 .. Buckets - 1
    BY Sizes DEF EvictBusy
  <1>2. CASE evict.idx + 1 < Buckets
    <2>1. NextBucket(evict) = [evict EXCEPT !.idx = evict.idx + 1, !.pc = "look"]
      BY <1>2 DEF NextBucket, EvictBusy
    <2>2. evict.idx + 1 \in Bucket
      BY <1>1, <1>2
    <2> QED
      BY <2>1, <2>2 DEF EvictBusy
  <1>3. CASE ~(evict.idx + 1 < Buckets)
    BY <1>3 DEF NextBucket
  <1> QED
    BY <1>2, <1>3

\* What a credit is worth.
LEMMA CreditOf ==
  ASSUME NEW e \in Nat
  PROVE  LET c == Rate * Min({e, ClampTicks})
         IN  c \in Nat /\ c <= Worth(e) /\ (c = Worth(e) \/ c >= Burst)
  <1>1. ClampTicks \in Nat /\ Burst \in Nat
    BY Sizes
  <1>2. Min({e, ClampTicks}) = IF e <= ClampTicks THEN e ELSE ClampTicks
    BY <1>1, MinOfTwo
  <1>3. CASE e <= ClampTicks
    <2>1. Rate * Min({e, ClampTicks}) = Worth(e)
      BY <1>2, <1>3 DEF Worth
    <2>2. Worth(e) \in Nat
      BY WorthFacts
    <2> QED
      BY <2>1, <2>2
  <1>4. CASE ~(e <= ClampTicks)
    <2>1. Rate * Min({e, ClampTicks}) = Worth(ClampTicks) /\ ClampTicks <= e
      BY <1>1, <1>2, <1>4 DEF Worth
    <2>2. Worth(ClampTicks) \in Nat /\ Worth(ClampTicks) <= Worth(e)
      BY <1>1, <2>1, WorthFacts
    <2> QED
      BY <2>1, <2>2, WorthFacts
  <1> QED
    BY <1>3, <1>4

LEMMA Credit ==
  ASSUME refill \in RefillBusy
  PROVE  NewTokens \in Nat
  <1>1. refill.elapsed \in Nat
    BY Sizes DEF RefillBusy
  <1> QED
    BY <1>1, CreditOf DEF NewTokens

\* The clock keeps the types.
LEMMA TickType ==
  ASSUME TypeInv, Tick
  PROVE  TypeInv'
  <1>0. /\ buckets \in [Bucket -> BucketRecord] /\ wait \in 0 .. Period
        /\ NetOK /\ meter \in Int /\ promise \in {"limit", "service"}
    BY DEF TypeInv
  <1>t. /\ wait < Period /\ wait' = wait + 1
        /\ refill.pc # "idle" => refill.lag < RefillLag
        /\ evict.pc # "idle" => evict.lag < EvictLag
        /\ refill' = Later(refill) /\ evict' = Later(evict)
        /\ buckets' = [b \in Bucket |->
             [buckets[b] EXCEPT !.refillAge = Min({@ + 1, MaxRefillAge}),
                                !.idle = Min({@ + 1, MaxIdle})]]
        /\ meter' = Min({meter + Rate, Full})
        /\ net' = net /\ promise' = promise
    BY DEF Tick
  <1>1. ASSUME NEW b \in Bucket PROVE buckets'[b] \in BucketRecord
    <2>1. buckets[b] \in BucketRecord
      BY <1>0
    <2>2. /\ Min({buckets[b].refillAge + 1, MaxRefillAge}) \in 0 .. MaxRefillAge
          /\ Min({buckets[b].idle + 1, MaxIdle}) \in 0 .. MaxIdle
      <3>1. MaxRefillAge \in Nat /\ MaxIdle \in Nat
        BY Sizes
      <3>2. buckets[b].refillAge + 1 \in Nat /\ buckets[b].idle + 1 \in Nat
        BY <2>1, <3>1 DEF BucketRecord
      <3>3. \A x \in Nat, y \in Nat : Min({x, y}) \in 0 .. y
        BY MinOfTwo
      <3> QED
        BY <3>1, <3>2, <3>3
    <2>3. buckets'[b] = [buckets[b] EXCEPT !.refillAge = Min({@ + 1, MaxRefillAge}),
                                           !.idle = Min({@ + 1, MaxIdle})]
      BY <1>t
    <2> QED
      BY <2>1, <2>2, <2>3 DEF BucketRecord
  <1>2. buckets' \in [Bucket -> BucketRecord]
    <2>1. buckets' = [b \in Bucket |-> buckets'[b]]
      BY <1>t
    <2> QED
      BY <1>1, <2>1
  <1>3. wait' \in 0 .. Period
    <2>1. Period \in Nat /\ wait \in 0 .. Period
      BY <1>0, Sizes
    <2>2. wait < Period /\ wait' = wait + 1
      BY <1>t
    <2> QED
      BY <2>1, <2>2
  <1>4. RefillOK'
    <2>1. CASE refill.pc = "idle"
      <3>1. refill' = refill /\ RefillOK
        BY <1>t, <2>1 DEF Later, TypeInv
      <3> QED
        BY <3>1 DEF RefillOK
    <2>2. CASE refill.pc # "idle"
      <3>1. refill \in RefillBusy /\ refill' = [refill EXCEPT !.lag = @ + 1]
        BY <1>t, <2>2, Places DEF Later
      <3>2. RefillLag \in Nat /\ refill.lag < RefillLag
        BY <1>t, <2>2, Sizes
      <3>3. refill.lag + 1 \in 0 .. RefillLag
        BY <3>1, <3>2 DEF RefillBusy
      <3> QED
        BY <3>1, <3>3 DEF RefillOK, RefillBusy
    <2> QED
      BY <2>1, <2>2
  <1>5. EvictOK'
    <2>1. CASE evict.pc = "idle"
      <3>1. evict' = evict /\ EvictOK
        BY <1>t, <2>1 DEF Later, TypeInv
      <3> QED
        BY <3>1 DEF EvictOK
    <2>2. CASE evict.pc # "idle"
      <3>1. evict \in EvictBusy /\ evict' = [evict EXCEPT !.lag = @ + 1]
        BY <1>t, <2>2, Places DEF Later
      <3>2. EvictLag \in Nat /\ evict.lag < EvictLag
        BY <1>t, <2>2, Sizes
      <3>3. evict.lag + 1 \in 0 .. EvictLag
        BY <3>1, <3>2 DEF EvictBusy
      <3> QED
        BY <3>1, <3>3 DEF EvictOK, EvictBusy
    <2> QED
      BY <2>1, <2>2
  <1>6. meter' \in Int /\ meter' <= Full
    <2>1. meter \in Int /\ Rate \in Int /\ Full \in Int
      BY <1>0, Sizes, FullIs
    <2>2. Min({meter + Rate, Full}) = IF meter + Rate <= Full THEN meter + Rate ELSE Full
      BY <2>1, MinOfTwo
    <2>3. meter' = Min({meter + Rate, Full})
      BY <1>t
    <2>4. meter' = IF meter + Rate <= Full THEN meter + Rate ELSE Full
      BY <2>2, <2>3
    <2> QED
      BY <2>1, <2>4
  <1>7. Full' = Full
    BY <1>t DEF Full
  <1>8. NetOK'
    BY <1>0, <1>t DEF NetOK
  <1> QED
    BY <1>0, <1>t, <1>2, <1>3, <1>4, <1>5, <1>6, <1>7, <1>8 DEF TypeInv

\* So does every call on the buckets.
LEMMA TypeStep ==
  ASSUME TypeInv, [Next]_vars
  PROVE  TypeInv'
  <1> USE DEF TypeInv, NetBusy, RefillBusy, EvictBusy
  <1>1. CASE UNCHANGED vars
    BY <1>1 DEF vars, hist, NetOK, RefillOK, EvictOK, Full
  <1>2. CASE Tick
    BY <1>2, TickType
  <1>3. ASSUME NEW s \in Source, Admit(s) PROVE TypeInv'
    <2>1. UNCHANGED <<buckets, refill, evict, wait, promise, meter>> /\ UNCHANGED Full
      BY <1>3 DEF Admit, hist, Full
    <2>2. CASE Found(s) = {}
      BY <1>3, <2>1, <2>2, Sizes DEF Admit, NetOK, RefillOK, EvictOK
    <2>3. CASE Found(s) # {}
      <3>1. Found(s) \subseteq Bucket /\ Found(s) \subseteq Nat
        BY Sizes DEF Found
      <3>2. Min(Found(s)) \in Bucket
        BY <2>3, <3>1, LeastNat
      <3> QED
        BY <1>3, <2>1, <2>3, <3>2 DEF Admit, NetOK, RefillOK, EvictOK
    <2> QED
      BY <2>2, <2>3
  <1>4. CASE Allocate
    <2>1. net \in NetBusy
      BY <1>4, Places DEF Allocate
    <2>2. UNCHANGED <<refill, evict, wait, promise, meter>> /\ UNCHANGED Full
      BY <1>4 DEF Allocate, hist, Full
    <2>a. net.idx \in Bucket /\ Buckets \in Nat /\ Bucket = 0 .. Buckets - 1
      BY <2>1, Sizes
    <2>3. NetOK'
      <3>1. CASE buckets[net.idx].active
        <4>1. net' = IF net.idx + 1 < Buckets THEN [net EXCEPT !.idx = @ + 1] ELSE Idle
          BY <1>4, <3>1 DEF Allocate
        <4>2. net.idx + 1 < Buckets => net.idx + 1 \in Bucket
          BY <2>a
        <4> QED
          BY <2>1, <4>1, <4>2 DEF NetOK
      <3>2. CASE ~buckets[net.idx].active
        BY <1>4, <2>1, <3>2 DEF Allocate, NetOK
      <3> QED
        BY <3>1, <3>2
    <2>4. buckets' \in [Bucket -> BucketRecord]
      <3>1. buckets' = buckets \/ buckets' = [buckets EXCEPT ![net.idx].active = TRUE]
        BY <1>4 DEF Allocate
      <3>2. buckets[net.idx] \in BucketRecord
        BY <2>a
      <3>3. [buckets[net.idx] EXCEPT !.active = TRUE] \in BucketRecord
        BY <3>2, BucketUpdate
      <3> QED
        BY <2>a, <3>1, <3>3, BucketStore
    <2> QED
      BY <2>2, <2>3, <2>4 DEF RefillOK, EvictOK
  <1>5. CASE Fill
    <2>1. net \in NetBusy
      BY <1>5, Places DEF Fill
    <2>2. UNCHANGED <<refill, evict, wait, promise>> /\ UNCHANGED Full
      BY <1>5 DEF Fill, Full
    <2>3. NetOK'
      BY <1>5, <2>1, Sizes DEF Fill, NetOK
    <2>4. buckets' \in [Bucket -> BucketRecord]
      <3> DEFINE r == [buckets[net.idx] EXCEPT !.sourceId = net.src, !.tokens = Burst,
                                               !.refillAge = 0, !.idle = 0]
      <3>1. Burst \in 0 .. Burst /\ 0 \in 0 .. MaxRefillAge /\ 0 \in 0 .. MaxIdle
        BY Sizes
      <3>2. net.idx \in Bucket /\ net.src \in Source
        BY <2>1
      <3>3. buckets[net.idx] \in BucketRecord
        BY <3>2
      <3>4. r \in BucketRecord
        BY <3>1, <3>2, <3>3 DEF BucketRecord
      <3>5. buckets' = [buckets EXCEPT ![net.idx] = r]
        BY <1>5 DEF Fill
      <3> HIDE DEF r
      <3> QED
        BY <3>2, <3>4, <3>5, BucketStore
    <2>5. meter' \in Int /\ meter' <= Full
      BY <1>5, FullIs DEF Fill
    <2> QED
      BY <2>2, <2>3, <2>4, <2>5 DEF RefillOK, EvictOK
  <1>6. CASE Charge
    <2>1. net \in NetBusy
      BY <1>6, Places DEF Charge
    <2>2. UNCHANGED <<refill, evict, wait, promise>> /\ UNCHANGED Full
      BY <1>6 DEF Charge, Full
    <2>3. NetOK'
      BY <1>6 DEF Charge, NetOK
    <2>4. buckets' \in [Bucket -> BucketRecord]
      <3>1. 0 \in 0 .. MaxIdle
        BY Sizes
      <3>2. net.idx \in Bucket /\ buckets[net.idx] \in BucketRecord
        BY <2>1
      <3>3. CASE Admitted
        <4>1. buckets' = [buckets EXCEPT ![net.idx].idle = 0, ![net.idx].tokens = @ - 1]
          BY <1>6, <3>3 DEF Charge
        <4>2. buckets[net.idx].tokens - 1 \in 0 .. Burst
          <5>1. buckets[net.idx].tokens \in 0 .. Burst /\ Burst \in Nat
                /\ buckets[net.idx].tokens > 0
            BY <3>2, <3>3, Sizes DEF Admitted, BucketRecord
          <5> QED
            BY <5>1
        <4> QED
          BY <3>1, <3>2, <4>1, <4>2 DEF BucketRecord
      <3>4. CASE ~Admitted
        <4>1. buckets' = [buckets EXCEPT ![net.idx].idle = 0, ![net.idx].tokens = @]
          BY <1>6, <3>4 DEF Charge
        <4> QED
          BY <3>1, <3>2, <4>1 DEF BucketRecord
      <3> QED
        BY <3>3, <3>4
    <2>5. meter' \in Int /\ meter' <= Full
      <3>1. Spend \in Int /\ Spend <= Full
        <4>a. meter - 1 \in Int /\ meter - 1 <= Full
          BY FullIs
        <4>b. -Worth(RefillDelay) \in Int
          BY FullIs
        <4>1. Max({meter - 1, -Worth(RefillDelay)}) =
                IF meter - 1 >= -Worth(RefillDelay) THEN meter - 1 ELSE -Worth(RefillDelay)
          BY <4>a, <4>b, MaxOfTwo
        <4>2. Spend = IF promise = "limit" THEN meter - 1
                      ELSE Max({meter - 1, -Worth(RefillDelay)})
          BY FullIs DEF Spend
        <4>3. promise # "limit" => -Worth(RefillDelay) <= Full
          <5>1. Burst \in Nat
            BY Sizes
          <5>2. /\ Worth(RefillDelay) \in Nat
                /\ promise # "limit" => Full = Burst - Worth(RefillDelay)
            BY FullIs
          <5> QED
            BY <5>1, <5>2
        <4>4. CASE promise = "limit"
          BY <4>a, <4>2, <4>4
        <4>5. CASE promise # "limit"
          <5>1. Spend = IF meter - 1 >= -Worth(RefillDelay) THEN meter - 1
                        ELSE -Worth(RefillDelay)
            BY <4>1, <4>2, <4>5
          <5>2. CASE meter - 1 >= -Worth(RefillDelay)
            BY <4>a, <5>1, <5>2
          <5>3. CASE ~(meter - 1 >= -Worth(RefillDelay))
            BY <4>b, <4>3, <4>5, <5>1, <5>3
          <5> QED
            BY <5>2, <5>3
        <4> QED
          BY <4>4, <4>5
      <3> QED
        BY <1>6, <3>1 DEF Charge
    <2> QED
      BY <2>2, <2>3, <2>4, <2>5 DEF RefillOK, EvictOK
  <1>7. CASE RefillAll
    BY <1>7, Sizes DEF RefillAll, hist, NetOK, RefillOK, EvictOK, Full
  <1>8. CASE RefillLook
    <2>1. refill.pc # "idle"
      BY <1>8 DEF RefillLook
    <2>2. UNCHANGED <<buckets, net, evict, wait, promise, meter>> /\ UNCHANGED Full
      BY <1>8 DEF RefillLook, hist, Full
    <2>3. RefillOK'
      <3>1. CASE buckets[refill.idx].active /\ Elapsed > 0
        <4>1. refill \in RefillBusy
          BY <2>1, Places
        <4>2. Elapsed \in 0 .. MaxRefillAge
          <5>a. refill.idx \in Bucket /\ refill.lag \in 0 .. RefillLag
            BY <4>1
          <5>b. buckets[refill.idx].refillAge \in 0 .. MaxRefillAge
            BY <5>a DEF BucketRecord
          <5>1. buckets[refill.idx].refillAge \in 0 .. MaxRefillAge /\ MaxRefillAge \in Nat
                /\ refill.lag \in Nat
            BY <5>a, <5>b, Sizes
          <5> QED
            BY <3>1, <5>1 DEF Elapsed
        <4> QED
          BY <1>8, <3>1, <4>1, <4>2 DEF RefillLook, RefillOK
      <3>2. CASE ~(buckets[refill.idx].active /\ Elapsed > 0)
        <4>1. refill' = NextBucket(refill)
          BY <1>8, <3>2 DEF RefillLook
        <4>2. refill \in RefillBusy
          BY <2>1, Places
        <4>3. NextBucket(refill) = Idle \/ NextBucket(refill) \in RefillBusy
          BY <4>2, NextRefill
        <4> QED
          BY <4>1, <4>3 DEF RefillOK
      <3> QED
        BY <3>1, <3>2
    <2> QED
      BY <2>2, <2>3 DEF NetOK, EvictOK
  <1>9. CASE RefillCredit
    <2>1. refill.pc # "idle" /\ refill \in RefillBusy
      BY <1>9, Places DEF RefillCredit
    <2>2. UNCHANGED <<net, evict, wait, promise, meter>> /\ UNCHANGED Full
      BY <1>9 DEF RefillCredit, hist, Full
    <2>3. RefillOK'
      BY <1>9, <2>1 DEF RefillCredit, RefillOK
    <2>4. buckets' \in [Bucket -> BucketRecord]
      <3>1. Min({buckets[refill.idx].tokens + NewTokens, Burst}) \in 0 .. Burst
        <4>1. Burst \in Nat /\ buckets[refill.idx].tokens \in 0 .. Burst /\ NewTokens \in Nat
          BY <2>1, Credit, Sizes DEF RefillBusy, BucketRecord
        <4>2. buckets[refill.idx].tokens + NewTokens \in Nat
          BY <4>1
        <4> QED
          BY <4>1, <4>2, MinOfTwo
      <3> QED
        BY <1>9, <2>1, <3>1 DEF RefillCredit, BucketRecord
    <2> QED
      BY <2>2, <2>3, <2>4 DEF NetOK, EvictOK
  <1>10. CASE RefillStamp
    <2>1. refill.pc # "idle" /\ refill \in RefillBusy
      BY <1>10, Places DEF RefillStamp
    <2>2. UNCHANGED <<net, evict, wait, promise, meter>> /\ UNCHANGED Full
      BY <1>10 DEF RefillStamp, hist, Full
    <2>3. RefillOK'
      BY <1>10, <2>1, NextRefill DEF RefillStamp, RefillOK
    <2>4. buckets' \in [Bucket -> BucketRecord]
      <3>1. refill.lag \in 0 .. MaxRefillAge
        BY <2>1, Sizes
      <3> QED
        BY <1>10, <2>1, <3>1 DEF RefillStamp, BucketRecord
    <2> QED
      BY <2>2, <2>3, <2>4 DEF NetOK, EvictOK
  <1>11. CASE EvictIdle
    BY <1>11, Sizes DEF EvictIdle, hist, NetOK, RefillOK, EvictOK, Full
  <1>12. CASE EvictLook
    <2>1. evict.pc # "idle" /\ evict \in EvictBusy
      BY <1>12, Places DEF EvictLook
    <2>2. UNCHANGED <<buckets, net, refill, wait, promise, meter>> /\ UNCHANGED Full
      BY <1>12 DEF EvictLook, hist, Full
    <2>3. EvictOK'
      BY <1>12, <2>1, NextEvict DEF EvictLook, EvictOK
    <2> QED
      BY <2>2, <2>3 DEF NetOK, RefillOK
  <1>13. CASE EvictReset
    <2>1. evict.pc # "idle" /\ evict \in EvictBusy
      BY <1>13, Places DEF EvictReset
    <2>2. UNCHANGED <<net, refill, wait, promise, meter>> /\ UNCHANGED Full
      BY <1>13 DEF EvictReset, hist, Full
    <2>3. EvictOK'
      BY <1>13, <2>1 DEF EvictReset, EvictOK
    <2>4. buckets' \in [Bucket -> BucketRecord]
      <3> DEFINE r == [buckets[evict.idx] EXCEPT !.sourceId = kInvalidSourceId, !.tokens = Burst]
      <3>1. Burst \in 0 .. Burst
        BY Sizes
      <3>2. evict.idx \in Bucket
        BY <2>1
      <3>3. buckets[evict.idx] \in BucketRecord
        BY <3>2
      <3>4. r \in BucketRecord
        BY <3>1, <3>3 DEF BucketRecord
      <3>5. buckets' = [buckets EXCEPT ![evict.idx] = r]
        BY <1>13 DEF EvictReset
      <3> HIDE DEF r
      <3> QED
        BY <3>2, <3>4, <3>5, BucketStore
    <2> QED
      BY <2>2, <2>3, <2>4 DEF NetOK, RefillOK
  <1>14. CASE EvictRelease
    <2>1. evict.pc # "idle" /\ evict \in EvictBusy
      BY <1>14, Places DEF EvictRelease
    <2>2. UNCHANGED <<net, refill, wait, promise, meter>> /\ UNCHANGED Full
      BY <1>14 DEF EvictRelease, hist, Full
    <2>3. EvictOK'
      BY <1>14, <2>1, NextEvict DEF EvictRelease, EvictOK
    <2>4. buckets' \in [Bucket -> BucketRecord]
      <3>1. buckets' = [buckets EXCEPT ![evict.idx].active = FALSE]
        BY <1>14 DEF EvictRelease
      <3>2. evict.idx \in Bucket
        BY <2>1
      <3>3. buckets[evict.idx] \in BucketRecord
        BY <3>2
      <3>4. [buckets[evict.idx] EXCEPT !.active = FALSE] \in BucketRecord
        BY <3>3, BucketUpdate
      <3> QED
        BY <3>1, <3>2, <3>4, BucketStore
    <2> QED
      BY <2>2, <2>3, <2>4 DEF NetOK, RefillOK
  <1> QED
    BY <1>1, <1>2, <1>3, <1>4, <1>5, <1>6, <1>7, <1>8, <1>9, <1>10, <1>11, <1>12, <1>13,
       <1>14 DEF Next

-----------------------------------------------------------------------------
(* The invariants.                                                         *)

\* A slot that Admit() has claimed and not yet filled is nobody's.
Filling(b) == net.pc = "fill" /\ net.idx = b
Owns(b, s) == Holds(b, s) /\ ~Filling(b)

\* A source owns one bucket; none while Admit() is finding it one.
NameInv ==
  /\ \A s \in Source, a, b \in Bucket : Owns(a, s) /\ Owns(b, s) => a = b
  /\ net.pc \in {"allocate", "fill"} => \A b \in Bucket : ~Owns(b, net.src)
  /\ net.pc = "charge" => /\ buckets[net.idx].sourceId \in {net.src, kInvalidSourceId}
                          /\ \A b \in Bucket : Owns(b, net.src) => b = net.idx

\* A refill pass reads the clock when it begins, and no bucket waits for its
\* refill longer than for the pass that is due and the one that has passed it.
PassInv ==
  /\ refill.pc # "idle" => refill.lag = wait
  /\ \A b \in Bucket : buckets[b].active /\ ~Filling(b) =>
       buckets[b].refillAge <=
         wait + (IF refill.pc = "idle" \/ b < refill.idx THEN 0 ELSE Period)

\* What the refill task still adds to a bucket for the time up to now: in the
\* middle of a refill no more of the credit than the bucket, or a period, holds.
Least(a, b) == IF a <= b THEN a ELSE b
Due(b, cap) ==
  IF refill.pc = "credit" /\ refill.idx = b
  THEN Least(NewTokens, cap) + Worth(refill.lag)
  ELSE IF refill.pc = "stamp" /\ refill.idx = b THEN Worth(refill.lag)
  ELSE Worth(buckets[b].refillAge)

\* The limit covers every token Tracked has or will get for the time up to now.
LimitInv ==
  promise = "limit" =>
    /\ meter >= 0
    /\ \A b \in Bucket : Owns(b, Tracked) => meter >= buckets[b].tokens + Due(b, Burst) + 1
    /\ net.pc = "charge" /\ net.src = Tracked => meter >= 1

\* What Tracked has or will get for the time up to now covers the service.
ServiceInv ==
  promise = "service" =>
    /\ meter >= -Worth(RefillDelay)
    /\ \A b \in Bucket : Owns(b, Tracked) =>
         buckets[b].tokens + Due(b, Worth(Period)) >= meter + Worth(RefillDelay)
    /\ net.pc = "charge" /\ net.src = Tracked /\ meter > 0 => Admitted

BucketInv == TypeInv /\ NameInv /\ PassInv /\ LimitInv /\ ServiceInv

\* What each step does to the fields of a bucket.
LEMMA Fields ==
  ASSUME TypeInv, NEW b \in Bucket
  PROVE  /\ buckets[b].active \in BOOLEAN /\ buckets[b].tokens \in 0 .. Burst
         /\ buckets[b].refillAge \in Nat
         /\ buckets[b].sourceId \in Source \cup {kInvalidSourceId}
         /\ Tick =>
              /\ UNCHANGED <<buckets[b].active, buckets[b].sourceId, buckets[b].tokens>>
              /\ buckets'[b].refillAge = Least(buckets[b].refillAge + 1, MaxRefillAge)
         /\ Allocate =>
              /\ UNCHANGED <<buckets[b].sourceId, buckets[b].tokens, buckets[b].refillAge>>
              /\ b # net.idx \/ buckets[b].active => UNCHANGED buckets[b].active
         /\ Fill => IF b = net.idx
                    THEN /\ UNCHANGED buckets[b].active
                         /\ buckets'[b].sourceId = net.src
                         /\ buckets'[b].tokens = Burst /\ buckets'[b].refillAge = 0
                    ELSE UNCHANGED buckets[b]
         /\ Charge =>
              /\ UNCHANGED <<buckets[b].active, buckets[b].sourceId, buckets[b].refillAge>>
              /\ b # net.idx \/ ~Admitted => UNCHANGED buckets[b].tokens
              /\ b = net.idx /\ Admitted => buckets'[b].tokens = buckets[b].tokens - 1
         /\ RefillCredit =>
              /\ UNCHANGED <<buckets[b].active, buckets[b].sourceId, buckets[b].refillAge>>
              /\ buckets'[b].tokens = IF b = refill.idx
                                      THEN Least(buckets[b].tokens + NewTokens, Burst)
                                      ELSE buckets[b].tokens
         /\ RefillStamp =>
              /\ UNCHANGED <<buckets[b].active, buckets[b].sourceId, buckets[b].tokens>>
              /\ buckets'[b].refillAge = IF b = refill.idx THEN refill.lag
                                                           ELSE buckets[b].refillAge
         /\ EvictReset => IF b = evict.idx
                          THEN /\ buckets'[b].sourceId = kInvalidSourceId
                               /\ buckets'[b].tokens = Burst
                               /\ UNCHANGED <<buckets[b].active, buckets[b].refillAge>>
                          ELSE UNCHANGED buckets[b]
         /\ EvictRelease => IF b = evict.idx
                            THEN /\ buckets'[b].active = FALSE
                                 /\ UNCHANGED <<buckets[b].sourceId, buckets[b].tokens,
                                                buckets[b].refillAge>>
                            ELSE UNCHANGED buckets[b]
  <1>1. buckets \in [Bucket -> BucketRecord] /\ buckets[b] \in BucketRecord
    BY DEF TypeInv
  <1>2. /\ buckets[b].active \in BOOLEAN /\ buckets[b].tokens \in 0 .. Burst
        /\ buckets[b].refillAge \in 0 .. MaxRefillAge
        /\ buckets[b].sourceId \in Source \cup {kInvalidSourceId}
    BY <1>1 DEF BucketRecord
  <1>3. MaxRefillAge \in Nat /\ Burst \in Nat
    BY Sizes
  <1>4. buckets[b].refillAge \in Nat
    BY <1>2, <1>3
  <1>5. ASSUME Tick
        PROVE  /\ UNCHANGED <<buckets[b].active, buckets[b].sourceId, buckets[b].tokens>>
               /\ buckets'[b].refillAge = Least(buckets[b].refillAge + 1, MaxRefillAge)
    <2>1. buckets'[b] = [buckets[b] EXCEPT !.refillAge = Min({@ + 1, MaxRefillAge}),
                                           !.idle = Min({@ + 1, MaxIdle})]
      BY <1>5 DEF Tick
    <2>2. Min({buckets[b].refillAge + 1, MaxRefillAge}) =
            Least(buckets[b].refillAge + 1, MaxRefillAge)
      BY <1>3, <1>4, MinOfTwo DEF Least
    <2> QED
      BY <1>1, <2>1, <2>2 DEF BucketRecord
  <1>6. ASSUME Allocate
        PROVE  /\ UNCHANGED <<buckets[b].sourceId, buckets[b].tokens, buckets[b].refillAge>>
               /\ b # net.idx \/ buckets[b].active => UNCHANGED buckets[b].active
    BY <1>1, <1>6 DEF Allocate, BucketRecord
  <1>7. ASSUME Fill
        PROVE  IF b = net.idx
               THEN /\ UNCHANGED buckets[b].active
                    /\ buckets'[b].sourceId = net.src
                    /\ buckets'[b].tokens = Burst /\ buckets'[b].refillAge = 0
               ELSE UNCHANGED buckets[b]
    BY <1>1, <1>7 DEF Fill, BucketRecord
  <1>8. ASSUME Charge
        PROVE  /\ UNCHANGED <<buckets[b].active, buckets[b].sourceId, buckets[b].refillAge>>
               /\ b # net.idx \/ ~Admitted => UNCHANGED buckets[b].tokens
               /\ b = net.idx /\ Admitted => buckets'[b].tokens = buckets[b].tokens - 1
    <2>1. CASE Admitted
      <3>1. buckets' = [buckets EXCEPT ![net.idx].idle = 0, ![net.idx].tokens = @ - 1]
        BY <1>8, <2>1 DEF Charge
      <3> QED
        BY <1>1, <2>1, <3>1 DEF BucketRecord
    <2>2. CASE ~Admitted
      <3>1. buckets' = [buckets EXCEPT ![net.idx].idle = 0, ![net.idx].tokens = @]
        BY <1>8, <2>2 DEF Charge
      <3> QED
        BY <1>1, <2>2, <3>1 DEF BucketRecord
    <2> QED
      BY <2>1, <2>2
  <1>9. ASSUME RefillCredit
        PROVE  /\ UNCHANGED <<buckets[b].active, buckets[b].sourceId, buckets[b].refillAge>>
               /\ buckets'[b].tokens = IF b = refill.idx
                                       THEN Least(buckets[b].tokens + NewTokens, Burst)
                                       ELSE buckets[b].tokens
    <2>1. buckets' = [buckets EXCEPT ![refill.idx].tokens = Min({@ + NewTokens, Burst})]
      BY <1>9 DEF RefillCredit
    <2>2. NewTokens \in Nat
      BY <1>9, Places, Credit DEF RefillCredit
    <2>3. Min({buckets[b].tokens + NewTokens, Burst}) = Least(buckets[b].tokens + NewTokens, Burst)
      BY <1>2, <1>3, <2>2, MinOfTwo DEF Least
    <2> QED
      BY <1>1, <2>1, <2>3 DEF BucketRecord
  <1>10. ASSUME RefillStamp
         PROVE  /\ UNCHANGED <<buckets[b].active, buckets[b].sourceId, buckets[b].tokens>>
                /\ buckets'[b].refillAge = IF b = refill.idx THEN refill.lag
                                                             ELSE buckets[b].refillAge
    BY <1>1, <1>10 DEF RefillStamp, BucketRecord
  <1>11. ASSUME EvictReset
         PROVE  IF b = evict.idx
                THEN /\ buckets'[b].sourceId = kInvalidSourceId
                     /\ buckets'[b].tokens = Burst
                     /\ UNCHANGED <<buckets[b].active, buckets[b].refillAge>>
                ELSE UNCHANGED buckets[b]
    BY <1>1, <1>11 DEF EvictReset, BucketRecord
  <1>12. ASSUME EvictRelease
         PROVE  IF b = evict.idx
                THEN /\ buckets'[b].active = FALSE
                     /\ UNCHANGED <<buckets[b].sourceId, buckets[b].tokens,
                                    buckets[b].refillAge>>
                ELSE UNCHANGED buckets[b]
    BY <1>1, <1>12 DEF EvictRelease, BucketRecord
  <1> QED
    BY <1>2, <1>4, <1>5, <1>6, <1>7, <1>8, <1>9, <1>10, <1>11, <1>12

\* Steps that leave the thread in Admit() and the owners alone.
LEMMA NamesKept ==
  ASSUME NameInv, net' = net,
         \A b \in Bucket : UNCHANGED <<buckets[b].active, buckets[b].sourceId>>,
         net.pc = "charge" => net.idx \in Bucket
  PROVE  NameInv'
  BY DEF NameInv, Owns, Holds, Filling

\* A source keeps to one bucket.
LEMMA NameStep ==
  ASSUME TypeInv, NameInv, [Next]_vars
  PROVE  NameInv'
  <1>0. net.pc # "idle" => net \in NetBusy /\ net.idx \in Bucket /\ net.src \in Source
    BY Places DEF NetBusy
  <1>k. kInvalidSourceId \notin Source
    BY Sizes
  <1>1. CASE \/ UNCHANGED vars \/ Tick
             \/ RefillAll \/ RefillLook \/ RefillCredit \/ RefillStamp \/ EvictIdle \/ EvictLook
    <2>1. net' = net
      BY <1>1 DEF vars, Tick, RefillAll, RefillLook, RefillCredit, RefillStamp, EvictIdle,
                  EvictLook
    <2>2. ASSUME NEW b \in Bucket
          PROVE  UNCHANGED <<buckets[b].active, buckets[b].sourceId>>
      <3>1. CASE Tick \/ RefillCredit \/ RefillStamp
        BY <3>1, Fields
      <3>2. CASE UNCHANGED buckets
        BY <3>2
      <3> QED
        BY <1>1, <3>1, <3>2 DEF vars, RefillAll, RefillLook, EvictIdle, EvictLook
    <2> QED
      BY <1>0, <2>1, <2>2, NamesKept
  <1>2. ASSUME NEW s \in Source, Admit(s) PROVE NameInv'
    <2>1. buckets' = buckets /\ net.pc = "idle" /\ \A b \in Bucket : ~Filling(b)
      BY <1>2 DEF Admit, Filling
    <2>2. CASE Found(s) = {}
      <3>1. net' = [pc |-> "allocate", src |-> s, idx |-> 0]
        BY <1>2, <2>2 DEF Admit
      <3>2. \A b \in Bucket : ~Holds(b, s)
        BY <2>2 DEF Found
      <3> QED
        BY <2>1, <3>1, <3>2 DEF NameInv, Owns, Holds, Filling
    <2>3. CASE Found(s) # {}
      <3>1. net' = [pc |-> "charge", src |-> s, idx |-> Min(Found(s))]
        BY <1>2, <2>3 DEF Admit
      <3>2. Min(Found(s)) \in Bucket /\ Holds(Min(Found(s)), s)
        <4>1. Found(s) \subseteq Nat /\ Found(s) \subseteq Bucket
          BY Sizes DEF Found
        <4> QED
          BY <2>3, <4>1, LeastNat DEF Found
      <3>3. \A b \in Bucket : Holds(b, s) => b = Min(Found(s))
        BY <2>1, <3>2 DEF NameInv, Owns
      <3> QED
        BY <2>1, <3>1, <3>2, <3>3 DEF NameInv, Owns, Holds, Filling
    <2> QED
      BY <2>2, <2>3
  <1>3. CASE Allocate
    <2>1. net.pc = "allocate" /\ net.idx \in Bucket /\ net \in NetBusy
      BY <1>0, <1>3 DEF Allocate
    <2>2. \A b \in Bucket : buckets'[b].sourceId = buckets[b].sourceId
      BY <1>3, Fields
    <2>3. CASE buckets[net.idx].active
      <3>1. buckets' = buckets /\ (net' = Idle \/ net' = [net EXCEPT !.idx = @ + 1])
        BY <1>3, <2>3 DEF Allocate
      <3>2. net'.pc = "idle" \/ (net'.pc = "allocate" /\ net'.src = net.src)
        BY <2>1, <3>1 DEF Idle, NetBusy
      <3>3. \A s, b : Owns(b, s)' = Owns(b, s)
        BY <2>1, <3>1, <3>2 DEF Owns, Holds, Filling
      <3> QED
        BY <2>1, <3>1, <3>2 DEF NameInv, Owns, Holds, Filling
    <2>4. CASE ~buckets[net.idx].active
      <3>1. net' = [net EXCEPT !.pc = "fill"]
        BY <1>3, <2>4 DEF Allocate
      <3>2. net'.pc = "fill" /\ net'.src = net.src /\ net'.idx = net.idx
        BY <2>1, <3>1 DEF NetBusy
      <3>3. \A b \in Bucket : b # net.idx => buckets'[b].active = buckets[b].active
        BY <1>3, Fields
      <3>4. ASSUME NEW s, NEW b \in Bucket, Owns(b, s)' PROVE Owns(b, s)
        BY <2>1, <2>2, <3>2, <3>3, <3>4 DEF Owns, Holds, Filling
      <3>5. \A s, b \in Bucket : ~Owns(b, net.src)
        BY <2>1 DEF NameInv
      <3> QED
        BY <2>1, <2>2, <3>2, <3>3, <3>5 DEF NameInv, Owns, Holds, Filling
    <2> QED
      BY <2>3, <2>4
  <1>4. CASE Fill
    <2>1. net.pc = "fill" /\ net.idx \in Bucket /\ net.src \in Source
      BY <1>0, <1>4 DEF Fill
    <2>2. net'.pc = "charge" /\ net'.src = net.src /\ net'.idx = net.idx
      BY <1>0, <1>4, <2>1 DEF Fill, NetBusy
    <2>3. \A b \in Bucket : b # net.idx => buckets'[b] = buckets[b]
      BY <1>4, Fields
    <2>4. buckets'[net.idx].sourceId = net.src
      BY <1>4, <2>1, Fields
    <2>5. \A b \in Bucket : ~Owns(b, net.src)
      BY <2>1 DEF NameInv
    <2>6. ASSUME NEW s \in Source, NEW b \in Bucket, Owns(b, s)'
          PROVE  (b = net.idx /\ s = net.src) \/ (b # net.idx /\ Owns(b, s))
      BY <2>1, <2>2, <2>3, <2>4, <2>6 DEF Owns, Holds, Filling
    <2>7. ASSUME NEW s \in Source, NEW a \in Bucket, NEW b \in Bucket, Owns(a, s)', Owns(b, s)'
          PROVE  a = b
      BY <2>5, <2>6, <2>7 DEF NameInv
    <2>8. \A s \in Source, b \in Bucket : s = net.src /\ Owns(b, s)' => b = net.idx
      BY <2>1, <2>5, <2>6
    <2> QED
      BY <2>1, <2>2, <2>4, <2>7, <2>8 DEF NameInv, Owns, Holds, Filling
  <1>5. CASE Charge
    <2>1. net' = Idle /\ net.pc = "charge"
      BY <1>5 DEF Charge
    <2>2. \A b \in Bucket : UNCHANGED <<buckets[b].active, buckets[b].sourceId>>
      BY <1>5, Fields
    <2> QED
      BY <2>1, <2>2 DEF NameInv, Owns, Holds, Filling, Idle
  <1>6. CASE EvictReset \/ EvictRelease
    <2>1. net' = net
      BY <1>6 DEF EvictReset, EvictRelease
    <2>2. ASSUME NEW b \in Bucket
          PROVE  /\ buckets'[b].sourceId \in {buckets[b].sourceId, kInvalidSourceId}
                 /\ buckets'[b].active => buckets[b].active
      BY <1>6, Fields
    <2>3. ASSUME NEW s \in Source, NEW b \in Bucket, Owns(b, s)' PROVE Owns(b, s)
      BY <1>k, <2>1, <2>2, <2>3 DEF Owns, Holds, Filling
    <2>4. \A s \in Source, a, b \in Bucket : (Owns(a, s) /\ Owns(b, s))' => a = b
      BY <2>3 DEF NameInv
    <2>5. net.pc \in {"allocate", "fill"} =>
            \A s \in Source, b \in Bucket : s = net.src => ~Owns(b, s)'
      BY <1>0, <2>3 DEF NameInv
    <2>6. net.pc = "charge" => /\ buckets'[net.idx].sourceId \in {net.src, kInvalidSourceId}
                               /\ \A s \in Source, b \in Bucket :
                                    s = net.src /\ Owns(b, s)' => b = net.idx
      BY <1>0, <2>2, <2>3 DEF NameInv
    <2> QED
      BY <1>0, <2>1, <2>4, <2>5, <2>6 DEF NameInv, Owns, Holds, Filling
  <1> QED
    BY <1>1, <1>2, <1>3, <1>4, <1>5, <1>6 DEF Next

\* How long a bucket may have waited.
Bound(b) == IF refill.pc = "idle" \/ b < refill.idx THEN 0 ELSE Period

\* No bucket waits longer.
LEMMA PassStep ==
  ASSUME TypeInv, PassInv, [Next]_vars
  PROVE  PassInv'
  <1> DEFINE Live(b) == buckets[b].active /\ ~Filling(b)
  <1>0. /\ wait \in Nat /\ Period \in Nat /\ Bucket \subseteq Nat /\ wait <= Period
        /\ refill.pc # "idle" => refill.lag = wait /\ refill \in RefillBusy
                                 /\ refill.idx \in Nat
    <2>1. Period \in Nat /\ Bucket \subseteq Nat
      BY Sizes
    <2>2. wait \in 0 .. Period
      BY DEF TypeInv
    <2>3. refill.pc # "idle" => refill.lag = wait /\ refill \in RefillBusy
      BY Places DEF PassInv
    <2>4. refill.pc # "idle" => refill.idx \in Nat
      BY <2>1, <2>3 DEF RefillBusy
    <2>5. wait \in Nat /\ wait <= Period
      BY <2>1, <2>2
    <2> QED
      BY <2>1, <2>3, <2>4, <2>5
  <1>a. ASSUME NEW b \in Bucket, Live(b) PROVE buckets[b].refillAge <= wait + Bound(b)
    BY <1>a DEF PassInv, Bound
  <1>b. ASSUME refill'.pc # "idle" => refill'.lag = wait',
               \A b \in Bucket : Live(b)' => buckets'[b].refillAge <= wait' + Bound(b)'
        PROVE  PassInv'
    BY <1>b DEF PassInv, Bound
  <1>c. ASSUME UNCHANGED <<refill, wait>>,
               \A b \in Bucket : Live(b)' => \/ buckets'[b].refillAge = 0
                                             \/ /\ Live(b)
                                                /\ buckets'[b].refillAge = buckets[b].refillAge
        PROVE  PassInv'
    <2>1. refill'.pc # "idle" => refill'.lag = wait'
      BY <1>0, <1>c
    <2>2. ASSUME NEW b \in Bucket, Live(b)'
          PROVE  buckets'[b].refillAge <= wait' + Bound(b)'
      <3>1. Bound(b)' = Bound(b) /\ Bound(b) \in Nat
        BY <1>0, <1>c DEF Bound
      <3>2. CASE buckets'[b].refillAge = 0
        <4> HIDE DEF Live
        <4> QED
          BY <1>0, <1>c, <3>1, <3>2
      <3>3. CASE Live(b) /\ buckets'[b].refillAge = buckets[b].refillAge
        BY <1>a, <1>c, <3>1, <3>3
      <3> QED
        BY <1>c, <2>2, <3>2, <3>3
    <2> QED
      BY <1>b, <2>1, <2>2
  <1>1. CASE UNCHANGED vars
    BY <1>1, <1>c DEF vars, Filling
  <1>2. CASE Tick
    <2>1. /\ wait' = wait + 1 /\ net' = net /\ refill' = Later(refill)
      BY <1>2 DEF Tick
    <2>2. \/ refill.pc = "idle" /\ refill' = refill
          \/ refill.pc # "idle" /\ refill'.pc = refill.pc /\ refill'.idx = refill.idx
             /\ refill'.lag = refill.lag + 1
      BY <1>0, <2>1 DEF Later, RefillBusy
    <2>3. refill'.pc # "idle" => refill'.lag = wait'
      BY <1>0, <2>1, <2>2
    <2>4. ASSUME NEW b \in Bucket, Live(b)'
          PROVE  buckets'[b].refillAge <= wait' + Bound(b)'
      <3>1. Live(b)
        BY <1>2, <2>1, <2>4, Fields DEF Filling
      <3>2. buckets'[b].refillAge = Least(buckets[b].refillAge + 1, MaxRefillAge)
            /\ buckets[b].refillAge \in Nat /\ MaxRefillAge \in Nat
        <4>1. MaxRefillAge \in Nat
          BY Sizes
        <4> QED
          BY <1>2, <4>1, Fields
      <3>3. buckets'[b].refillAge <= buckets[b].refillAge + 1 /\ buckets'[b].refillAge \in Nat
        BY <3>2 DEF Least
      <3>4. Bound(b)' = Bound(b) /\ Bound(b) \in Nat
        BY <1>0, <2>2 DEF Bound
      <3>5. buckets[b].refillAge <= wait + Bound(b)
        BY <1>a, <3>1
      <3> HIDE DEF Live
      <3> QED
        BY <1>0, <2>1, <3>2, <3>3, <3>4, <3>5
    <2> QED
      BY <1>b, <2>3, <2>4
  <1>3. ASSUME NEW s \in Source, Admit(s) PROVE PassInv'
    <2>1. buckets' = buckets /\ UNCHANGED <<refill, wait>> /\ net.pc = "idle"
      BY <1>3 DEF Admit
    <2> QED
      BY <1>c, <2>1 DEF Filling
  <1>4. CASE Allocate
    <2>1. UNCHANGED <<refill, wait>> /\ net.pc = "allocate" /\ net \in NetBusy
      BY <1>4, Places DEF Allocate
    <2>2. ASSUME NEW b \in Bucket, Live(b)'
          PROVE  Live(b) /\ buckets'[b].refillAge = buckets[b].refillAge
      <3>1. buckets'[b].refillAge = buckets[b].refillAge /\ ~Filling(b)
        BY <1>4, <2>1, Fields DEF Filling
      <3>2. CASE b # net.idx \/ buckets[b].active
        BY <1>4, <2>2, <3>1, <3>2, Fields
      <3>3. CASE b = net.idx /\ ~buckets[b].active
        <4>1. net' = [net EXCEPT !.pc = "fill"]
          BY <1>4, <3>3 DEF Allocate
        <4> QED
          BY <2>1, <2>2, <3>3, <4>1 DEF Filling, NetBusy
      <3> QED
        BY <3>2, <3>3
    <2> QED
      BY <1>c, <2>1, <2>2
  <1>5. CASE Fill
    <2>1. UNCHANGED <<refill, wait>> /\ net.pc = "fill"
      BY <1>5 DEF Fill
    <2>2. ASSUME NEW b \in Bucket, Live(b)'
          PROVE  \/ buckets'[b].refillAge = 0
                 \/ Live(b) /\ buckets'[b].refillAge = buckets[b].refillAge
      BY <1>5, <2>2, Fields DEF Filling
    <2> QED
      BY <1>c, <2>1, <2>2
  <1>6. CASE Charge
    <2>1. UNCHANGED <<refill, wait>> /\ net.pc = "charge"
      BY <1>6 DEF Charge
    <2>2. \A b \in Bucket : UNCHANGED <<buckets[b].active, buckets[b].refillAge>>
      BY <1>6, Fields
    <2> QED
      BY <1>c, <2>1, <2>2 DEF Filling
  <1>7. CASE RefillAll
    <2>1. /\ refill.pc = "idle" /\ wait = Period /\ wait' = 0 /\ UNCHANGED <<buckets, net>>
          /\ refill'.pc = "look" /\ refill'.idx = 0 /\ refill'.lag = 0
      BY <1>7 DEF RefillAll
    <2>2. ASSUME NEW b \in Bucket, Live(b)'
          PROVE  buckets'[b].refillAge <= wait' + Bound(b)'
      <3>1. Live(b)
        BY <2>1, <2>2 DEF Filling
      <3>2. buckets[b].refillAge <= wait + 0
        BY <1>a, <2>1, <3>1 DEF Bound
      <3>3. Bound(b)' = Period
        BY <1>0, <2>1 DEF Bound
      <3>4. buckets[b].refillAge \in Nat
        BY Fields
      <3> HIDE DEF Live
      <3> QED
        BY <1>0, <2>1, <3>2, <3>3, <3>4
    <2> QED
      BY <1>b, <2>1, <2>2
  <1>8. CASE RefillLook \/ RefillCredit \/ RefillStamp
    <2>1. /\ refill.pc # "idle" /\ wait' = wait /\ net' = net
          /\ refill.lag = wait /\ refill \in RefillBusy /\ refill.idx \in Nat
      BY <1>0, <1>8 DEF RefillLook, RefillCredit, RefillStamp
    <2>2. ASSUME NEW b \in Bucket
          PROVE  /\ Live(b)' = Live(b)
                 /\ \/ buckets'[b].refillAge = buckets[b].refillAge
                    \/ b = refill.idx /\ buckets'[b].refillAge = wait
      <3>1. CASE RefillLook
        BY <2>1, <3>1 DEF RefillLook, Filling
      <3>2. CASE RefillCredit \/ RefillStamp
        BY <2>1, <3>2, Fields DEF Filling
      <3> QED
        BY <1>8, <3>1, <3>2
    <2>3. CASE refill'.pc # "idle" /\ refill'.idx = refill.idx /\ refill'.lag = refill.lag
      <3>1. ASSUME NEW b \in Bucket, Live(b)'
            PROVE  buckets'[b].refillAge <= wait' + Bound(b)'
        <4>1. Bound(b)' = Bound(b) /\ Bound(b) \in Nat
          BY <1>0, <2>1, <2>3 DEF Bound
        <4>2. buckets[b].refillAge <= wait + Bound(b)
          BY <1>a, <2>2, <3>1
        <4> HIDE DEF Live
        <4> QED
          BY <1>0, <2>1, <2>2, <4>1, <4>2
      <3> QED
        BY <1>b, <2>1, <2>3, <3>1
    <2>4. CASE refill' = NextBucket(refill)
               /\ (buckets'[refill.idx].refillAge <= wait \/ ~buckets[refill.idx].active)
      <3>1. \/ refill'.pc = "idle" /\ refill.idx + 1 >= Buckets
            \/ refill'.pc = "look" /\ refill'.idx = refill.idx + 1 /\ refill'.lag = refill.lag
        BY <2>1, <2>4, NextRefill DEF Idle
      <3>2. ASSUME NEW b \in Bucket, Live(b)'
            PROVE  buckets'[b].refillAge <= wait' + Bound(b)'
        <4>0. b \in Nat /\ b < Buckets /\ Buckets \in Nat /\ buckets[b].refillAge \in Nat
          <5>1. b \in Nat /\ b < Buckets /\ Buckets \in Nat
            BY Sizes
          <5>2. buckets[b].refillAge \in Nat
            BY Fields
          <5> QED
            BY <5>1, <5>2
        <4>1. buckets[b].refillAge <= wait + Bound(b) /\ buckets[b].active
          BY <1>a, <2>2, <3>2
        <4>2. CASE b = refill.idx
          <5>1. buckets'[b].refillAge <= wait
            BY <2>4, <4>1, <4>2
          <5>2. Bound(b)' \in Nat
            BY <1>0 DEF Bound
          <5>3. buckets'[b].refillAge \in Nat
            BY <1>0, <2>2, <4>0
          <5> HIDE DEF Live
          <5> QED
            BY <1>0, <2>1, <5>1, <5>2, <5>3
        <4>3. CASE b # refill.idx
          <5>1. Bound(b) <= Bound(b)' /\ Bound(b) \in Nat /\ Bound(b)' \in Nat
            BY <1>0, <2>1, <3>1, <4>0, <4>3 DEF Bound
          <5>2. buckets'[b].refillAge = buckets[b].refillAge
            BY <2>2, <4>3
          <5> HIDE DEF Live
          <5> QED
            BY <1>0, <2>1, <4>0, <4>1, <5>1, <5>2
        <4> QED
          BY <4>2, <4>3
      <3>3. refill'.pc # "idle" => refill'.lag = wait'
        BY <2>1, <3>1
      <3> QED
        BY <1>b, <3>2, <3>3
    <2>5. CASE RefillLook
      <3>1. CASE buckets[refill.idx].active /\ Elapsed > 0
        BY <2>1, <2>3, <2>5, <3>1 DEF RefillLook, RefillBusy
      <3>2. CASE ~(buckets[refill.idx].active /\ Elapsed > 0)
        <4>1. refill' = NextBucket(refill) /\ buckets' = buckets
          BY <2>5, <3>2 DEF RefillLook
        <4>2. buckets[refill.idx].active =>
                buckets[refill.idx].refillAge \in Nat /\ ~(Elapsed > 0)
          BY <2>1, <3>2, Fields DEF RefillBusy
        <4>3. buckets[refill.idx].active => buckets[refill.idx].refillAge <= wait
          BY <1>0, <2>1, <4>2 DEF Elapsed
        <4> QED
          BY <2>4, <4>1, <4>3
      <3> QED
        BY <3>1, <3>2
    <2>6. CASE RefillCredit
      BY <2>1, <2>3, <2>6 DEF RefillCredit, RefillBusy
    <2>7. CASE RefillStamp
      <3>1. refill' = NextBucket(refill)
        BY <2>7 DEF RefillStamp
      <3>2. refill.idx \in Bucket
        BY <2>1 DEF RefillBusy
      <3>3. buckets'[refill.idx].refillAge = refill.lag
        BY <2>7, <3>2, Fields
      <3>4. buckets'[refill.idx].refillAge <= wait
        BY <1>0, <2>1, <3>3
      <3> QED
        BY <2>4, <3>1, <3>4
    <2> QED
      BY <1>8, <2>5, <2>6, <2>7
  <1>9. CASE EvictIdle \/ EvictLook
    BY <1>9, <1>c DEF EvictIdle, EvictLook, Filling
  <1>10. CASE EvictReset \/ EvictRelease
    <2>1. UNCHANGED <<refill, wait, net>>
      BY <1>10 DEF EvictReset, EvictRelease
    <2>2. ASSUME NEW b \in Bucket
          PROVE  buckets'[b].refillAge = buckets[b].refillAge
                 /\ (buckets'[b].active => buckets[b].active)
      BY <1>10, Fields
    <2> QED
      BY <1>c, <2>1, <2>2 DEF Filling
  <1> QED
    BY <1>1, <1>2, <1>3, <1>4, <1>5, <1>6, <1>7, <1>8, <1>9, <1>10 DEF Next

-----------------------------------------------------------------------------
(* What is due to a bucket.                                                *)

\* No more than a period, the lag and what is being credited.
DueInv ==
  \A b \in Bucket, cap \in Nat : buckets[b].active /\ ~Filling(b) =>
    /\ Due(b, cap) \in Nat
    /\ Due(b, cap) <= cap + Worth(RefillLag) \/ Due(b, cap) <= Worth(RefillDelay)

LEMMA DueBound == TypeInv /\ PassInv => DueInv
  <1> SUFFICES ASSUME TypeInv, PassInv, NEW b \in Bucket, NEW cap \in Nat,
                      buckets[b].active, ~Filling(b)
               PROVE  /\ Due(b, cap) \in Nat
                      /\ \/ Due(b, cap) <= cap + Worth(RefillLag)
                         \/ Due(b, cap) <= Worth(RefillDelay)
    BY DEF DueInv
  <1>1. RefillLag \in Nat /\ Period \in Nat /\ RefillDelay = Period + RefillLag
        /\ RefillDelay \in Nat
    BY Sizes
  <1>2. refill.pc # "idle" => refill \in RefillBusy /\ refill.lag \in 0 .. RefillLag
                              /\ refill.lag = wait
    BY Places DEF RefillBusy, PassInv
  <1>3. CASE refill.pc \in {"credit", "stamp"} /\ refill.idx = b
    <2>1. refill.lag \in Nat /\ refill.lag <= RefillLag
      BY <1>1, <1>2, <1>3
    <2>2. Worth(refill.lag) \in Nat /\ Worth(refill.lag) <= Worth(RefillLag)
          /\ Worth(RefillLag) \in Nat
      BY <1>1, <2>1, WorthFacts
    <2>3. NewTokens \in Nat
      BY <1>2, <1>3, Credit
    <2>4. Due(b, cap) \in {Worth(refill.lag), Least(NewTokens, cap) + Worth(refill.lag)}
      BY <1>3 DEF Due
    <2> QED
      BY <2>2, <2>3, <2>4 DEF Least
  <1>4. CASE ~(refill.pc \in {"credit", "stamp"} /\ refill.idx = b)
    <2>1. Due(b, cap) = Worth(buckets[b].refillAge)
      BY <1>4 DEF Due
    <2>2. buckets[b].refillAge \in Nat
      BY Fields
    <2>3. wait \in Nat /\ wait <= Period
      BY <1>1 DEF TypeInv
    <2>4. buckets[b].refillAge <= wait + (IF refill.pc = "idle" THEN 0 ELSE Period)
      BY <1>1, <2>2, <2>3 DEF PassInv
    <2>5. buckets[b].refillAge <= RefillDelay
      <3>1. CASE refill.pc = "idle"
        <4>1. buckets[b].refillAge <= wait
          BY <2>2, <2>3, <2>4, <3>1
        <4> QED
          BY <1>1, <2>2, <2>3, <4>1
      <3>2. CASE refill.pc # "idle"
        <4>1. wait <= RefillLag
          BY <1>1, <1>2, <3>2
        <4>2. buckets[b].refillAge <= wait + Period
          BY <2>4, <3>2
        <4> QED
          BY <1>1, <2>2, <2>3, <4>1, <4>2
      <3> QED
        BY <3>1, <3>2
    <2>6. Worth(buckets[b].refillAge) \in Nat
      BY <2>2, WorthFacts
    <2>7. Worth(buckets[b].refillAge) <= Worth(RefillDelay)
      BY <1>1, <2>2, <2>5, WorthFacts
    <2> QED
      BY <2>1, <2>6, <2>7
  <1> QED
    BY <1>3, <1>4

LEMMA DueBoundNext == TypeInv' /\ PassInv' => DueInv'
  BY DueBound, PTL

\* What each step does to it.
LEMMA DueStep ==
  ASSUME TypeInv, PassInv, NEW b \in Bucket, NEW cap \in Nat,
         buckets[b].active, ~Filling(b)
  PROVE  /\ Due(b, cap) \in Nat
         /\ Tick => /\ Due(b, cap)' \in Nat
                    /\ Due(b, cap)' <= Due(b, cap) + Rate
                    /\ Due(b, cap)' >= Due(b, cap) + Rate \/ Due(b, cap)' >= Burst
         /\ RefillLook => /\ Due(b, cap)' \in Nat
                          /\ Due(b, cap)' <= Due(b, cap)
                          /\ cap = Worth(Period) =>
                               Due(b, cap)' = Due(b, cap) \/ Due(b, cap)' >= Burst
         /\ RefillCredit =>
              LET now == buckets[b].tokens + Due(b, cap)
                  next == buckets'[b].tokens + Due(b, cap)'
              IN  /\ Due(b, cap)' \in Nat
                  /\ cap = Burst => next <= now
                  /\ next >= now \/ next >= Burst
         /\ RefillStamp \/ RefillAll => Due(b, cap)' = Due(b, cap)
         /\ refill' = refill /\ buckets'[b].refillAge = buckets[b].refillAge =>
              Due(b, cap)' = Due(b, cap)
  <1>1. Due(b, cap) \in Nat
    BY DueBound DEF DueInv
  <1>2. /\ refill.pc # "idle" => refill \in RefillBusy /\ refill.lag \in Nat
        /\ buckets[b].refillAge \in Nat /\ buckets[b].tokens \in Nat
        /\ buckets[b].tokens <= Burst
    <2>1. Burst \in Nat /\ RefillLag \in Nat
      BY Sizes
    <2>2. buckets[b].refillAge \in Nat /\ buckets[b].tokens \in 0 .. Burst
      BY Fields
    <2> QED
      BY <2>1, <2>2, Places DEF RefillBusy
  <1>3. Rate \in Nat /\ Burst \in Nat /\ RefillLag \in Nat /\ Period \in Nat
        /\ MaxRefillAge = Burst + RefillLag /\ Bucket \subseteq Nat
    BY Sizes
  <1>4. ASSUME Tick
        PROVE  /\ Due(b, cap)' \in Nat
               /\ Due(b, cap)' <= Due(b, cap) + Rate
               /\ Due(b, cap)' >= Due(b, cap) + Rate \/ Due(b, cap)' >= Burst
    <2>1. CASE refill.pc \in {"credit", "stamp"} /\ refill.idx = b
      <3>1. refill' = [refill EXCEPT !.lag = @ + 1] /\ refill \in RefillBusy
        BY <1>2, <1>4, <2>1 DEF Tick, Later
      <3>2. /\ refill'.pc = refill.pc /\ refill'.idx = refill.idx
            /\ refill'.elapsed = refill.elapsed /\ refill'.lag = refill.lag + 1
        BY <3>1 DEF RefillBusy
      <3>3. NewTokens' = NewTokens
        BY <3>2 DEF NewTokens
      <3>4. Worth(refill.lag + 1) = Worth(refill.lag) + Rate /\ Worth(refill.lag) \in Nat
        BY <1>2, <2>1, WorthFacts
      <3>5. NewTokens \in Nat
        BY <3>1, Credit
      <3>6. Due(b, cap)' = IF refill.pc = "credit"
                           THEN Least(NewTokens, cap) + Worth(refill.lag + 1)
                           ELSE Worth(refill.lag + 1)
        BY <2>1, <3>2, <3>3 DEF Due
      <3>7. Due(b, cap) = IF refill.pc = "credit"
                          THEN Least(NewTokens, cap) + Worth(refill.lag)
                          ELSE Worth(refill.lag)
        BY <2>1 DEF Due
      <3>8. Least(NewTokens, cap) \in Nat
        BY <3>5 DEF Least
      <3> QED
        BY <1>3, <3>4, <3>6, <3>7, <3>8
    <2>2. CASE ~(refill.pc \in {"credit", "stamp"} /\ refill.idx = b)
      <3>1. \/ refill.pc = "idle" /\ refill' = refill
            \/ refill.pc # "idle" /\ refill'.pc = refill.pc /\ refill'.idx = refill.idx
        BY <1>2, <1>4 DEF Tick, Later, RefillBusy
      <3>2. Due(b, cap) = Worth(buckets[b].refillAge)
            /\ Due(b, cap)' = Worth(buckets'[b].refillAge)
        BY <2>2, <3>1 DEF Due
      <3>3. buckets'[b].refillAge = Least(buckets[b].refillAge + 1, MaxRefillAge)
        BY <1>4, Fields
      <3>4. CASE buckets'[b].refillAge = buckets[b].refillAge + 1
        <4>1. Worth(buckets[b].refillAge + 1) = Worth(buckets[b].refillAge) + Rate
              /\ Worth(buckets[b].refillAge) \in Nat
          BY <1>2, WorthFacts
        <4> QED
          BY <1>3, <3>2, <3>4, <4>1
      <3>5. CASE buckets'[b].refillAge = MaxRefillAge /\ MaxRefillAge <= buckets[b].refillAge + 1
        <4>1. MaxRefillAge \in Nat /\ MaxRefillAge >= Burst
          BY <1>3
        <4>2. Worth(MaxRefillAge) \in Nat /\ Worth(MaxRefillAge) >= MaxRefillAge
              /\ Worth(MaxRefillAge) <= Worth(buckets[b].refillAge + 1)
          <5>1. buckets[b].refillAge + 1 \in Nat /\ MaxRefillAge <= buckets[b].refillAge + 1
            BY <1>2, <3>5
          <5>2. Worth(MaxRefillAge) \in Nat /\ Worth(MaxRefillAge) >= MaxRefillAge
            BY <4>1, WorthFacts
          <5>3. Worth(MaxRefillAge) <= Worth(buckets[b].refillAge + 1)
            BY <4>1, <5>1, WorthFacts
          <5> QED
            BY <5>2, <5>3
        <4>3. Worth(buckets[b].refillAge + 1) = Worth(buckets[b].refillAge) + Rate
              /\ Worth(buckets[b].refillAge) \in Nat
          BY <1>2, WorthFacts
        <4> QED
          BY <1>3, <3>2, <3>5, <4>1, <4>2, <4>3
      <3> QED
        BY <1>2, <1>3, <3>3, <3>4, <3>5 DEF Least
    <2> QED
      BY <2>1, <2>2
  <1>5. ASSUME RefillLook
        PROVE  /\ Due(b, cap)' \in Nat
               /\ Due(b, cap)' <= Due(b, cap)
               /\ cap = Worth(Period) =>
                    Due(b, cap)' = Due(b, cap) \/ Due(b, cap)' >= Burst
    <2>1. refill.pc = "look" /\ buckets' = buckets /\ refill \in RefillBusy
          /\ refill.lag \in Nat
      BY <1>2, <1>5 DEF RefillLook
    <2>2. Due(b, cap) = Worth(buckets[b].refillAge)
      BY <2>1 DEF Due
    <2>3. CASE buckets[refill.idx].active /\ Elapsed > 0 /\ refill.idx = b
      <3> DEFINE e == buckets[b].refillAge - refill.lag
      <3>1. refill' = [refill EXCEPT !.pc = "credit", !.elapsed = Elapsed]
        BY <1>5, <2>3 DEF RefillLook
      <3>2. refill'.pc = "credit" /\ refill'.idx = b /\ refill'.lag = refill.lag
            /\ refill'.elapsed = e
        BY <2>1, <2>3, <3>1 DEF RefillBusy, Elapsed
      <3>3. e \in Nat /\ e > 0 /\ buckets[b].refillAge = e + refill.lag
        BY <1>2, <2>1, <2>3 DEF Elapsed
      <3>4. e <= Period
        <4>1. refill.lag = wait /\ buckets[b].refillAge <= wait + Period
          BY <1>3, <2>1, <2>3 DEF PassInv
        <4> QED
          BY <1>2, <1>3, <2>1, <4>1
      <3>5. NewTokens' = Rate * Min({e, ClampTicks})
        BY <3>2 DEF NewTokens
      <3>6. Due(b, cap)' = Least(NewTokens', cap) + Worth(refill.lag)
        BY <3>2 DEF Due
      <3> HIDE DEF e
      <3>7. NewTokens' \in Nat /\ NewTokens' <= Worth(e)
            /\ (NewTokens' = Worth(e) \/ NewTokens' >= Burst)
        BY <3>3, <3>5, CreditOf
      <3>8. Worth(e) <= Worth(Period) /\ Worth(e) \in Nat /\ Worth(Period) \in Nat
            /\ Worth(refill.lag) \in Nat
            /\ Worth(buckets[b].refillAge) = Worth(e) + Worth(refill.lag)
        <4>1. Period \in Nat /\ e \in Nat /\ refill.lag \in Nat
          BY <1>3, <2>1, <3>3
        <4>2. Worth(e) \in Nat /\ Worth(Period) \in Nat /\ Worth(refill.lag) \in Nat
          BY <4>1, WorthFacts
        <4>3. Worth(e) <= Worth(Period)
          BY <3>4, <4>1, WorthFacts
        <4>4. Worth(e + refill.lag) = Worth(e) + Worth(refill.lag)
          BY <4>1, WorthFacts
        <4> QED
          BY <3>3, <4>2, <4>3, <4>4
      <3> QED
        BY <1>3, <2>2, <3>6, <3>7, <3>8 DEF Least
    <2>4. CASE ~(buckets[refill.idx].active /\ Elapsed > 0 /\ refill.idx = b)
      <3>1. \/ refill'.pc = "credit" /\ refill'.idx # b
            \/ refill'.pc \in {"look", "idle"}
        <4>1. CASE buckets[refill.idx].active /\ Elapsed > 0
          BY <1>5, <2>1, <2>4, <4>1 DEF RefillLook, RefillBusy
        <4>2. CASE ~(buckets[refill.idx].active /\ Elapsed > 0)
          BY <1>5, <2>1, <4>2, NextRefill DEF RefillLook, Idle
        <4> QED
          BY <4>1, <4>2
      <3>2. Due(b, cap)' = Worth(buckets[b].refillAge)
        BY <2>1, <3>1 DEF Due
      <3> QED
        BY <1>1, <2>2, <3>2
    <2> QED
      BY <2>3, <2>4
  <1>6. ASSUME RefillCredit
        PROVE  LET now == buckets[b].tokens + Due(b, cap)
                   next == buckets'[b].tokens + Due(b, cap)'
               IN  /\ Due(b, cap)' \in Nat
                   /\ cap = Burst => next <= now
                   /\ next >= now \/ next >= Burst
    <2>1. /\ refill.pc = "credit" /\ refill \in RefillBusy /\ refill.lag \in Nat
          /\ refill' = [refill EXCEPT !.pc = "stamp"]
      BY <1>2, <1>6 DEF RefillCredit
    <2>2. refill'.pc = "stamp" /\ refill'.idx = refill.idx /\ refill'.lag = refill.lag
      BY <2>1 DEF RefillBusy
    <2>3. /\ buckets'[b].refillAge = buckets[b].refillAge
          /\ buckets'[b].tokens = IF b = refill.idx
                                  THEN Least(buckets[b].tokens + NewTokens, Burst)
                                  ELSE buckets[b].tokens
      BY <1>6, Fields
    <2>4. CASE b = refill.idx
      <3>1. Due(b, cap) = Least(NewTokens, cap) + Worth(refill.lag)
            /\ Due(b, cap)' = Worth(refill.lag)
        BY <2>1, <2>2, <2>4 DEF Due
      <3>2. NewTokens \in Nat /\ Worth(refill.lag) \in Nat
        BY <2>1, Credit, WorthFacts
      <3>3. buckets'[b].tokens = Least(buckets[b].tokens + NewTokens, Burst)
        BY <2>3, <2>4
      <3> QED
        BY <1>2, <1>3, <3>1, <3>2, <3>3 DEF Least
    <2>5. CASE b # refill.idx
      <3>1. Due(b, cap)' = Due(b, cap)
        BY <2>2, <2>3, <2>5 DEF Due
      <3> QED
        BY <1>1, <1>2, <2>3, <2>5, <3>1
    <2> QED
      BY <2>4, <2>5
  <1>7. ASSUME RefillStamp PROVE Due(b, cap)' = Due(b, cap)
    <2>1. refill.pc = "stamp" /\ refill \in RefillBusy /\ refill' = NextBucket(refill)
      BY <1>2, <1>7 DEF RefillStamp
    <2>2. refill'.pc \in {"look", "idle"}
      BY <2>1, NextRefill DEF Idle
    <2>3. buckets'[b].refillAge = IF b = refill.idx THEN refill.lag ELSE buckets[b].refillAge
      BY <1>7, Fields
    <2> QED
      BY <2>1, <2>2, <2>3 DEF Due
  <1>8. ASSUME RefillAll PROVE Due(b, cap)' = Due(b, cap)
    BY <1>8 DEF RefillAll, Due
  <1>9. ASSUME refill' = refill, buckets'[b].refillAge = buckets[b].refillAge
        PROVE  Due(b, cap)' = Due(b, cap)
    BY <1>9 DEF Due, NewTokens
  <1> QED
    BY <1>1, <1>4, <1>5, <1>6, <1>7, <1>8, <1>9

-----------------------------------------------------------------------------
(* The two promises.                                                       *)

\* The steps that leave a source its bucket, and may change what it holds.
Moves == \/ Tick \/ Charge
         \/ RefillAll \/ RefillLook \/ RefillCredit \/ RefillStamp

\* The steps that may take it away, and change nothing where they do not.
Keeps == \/ UNCHANGED vars \/ (\E s \in Source : Admit(s)) \/ Allocate
         \/ EvictIdle \/ EvictLook \/ EvictReset \/ EvictRelease

\* Only Fill() gives a bucket to a source.
LEMMA OwnerBack ==
  ASSUME TypeInv, Moves, NEW b \in Bucket, Owns(b, Tracked)'
  PROVE  Owns(b, Tracked)
  <1>1. CASE RefillAll \/ RefillLook
    BY <1>1 DEF RefillAll, RefillLook, Owns, Holds, Filling
  <1>2. CASE Tick \/ RefillCredit \/ RefillStamp
    <2>1. net' = net
      BY <1>2 DEF Tick, RefillCredit, RefillStamp
    <2>2. UNCHANGED <<buckets[b].active, buckets[b].sourceId>>
      BY <1>2, Fields
    <2> QED
      BY <2>1, <2>2 DEF Owns, Holds, Filling
  <1>3. CASE Charge
    <2>1. net.pc = "charge"
      BY <1>3 DEF Charge
    <2>2. UNCHANGED <<buckets[b].active, buckets[b].sourceId>>
      BY <1>3, Fields
    <2> QED
      BY <2>1, <2>2 DEF Owns, Holds, Filling
  <1> QED
    BY <1>1, <1>2, <1>3 DEF Moves

LEMMA OwnerKept ==
  ASSUME TypeInv, Keeps, NEW b \in Bucket, Owns(b, Tracked)'
  PROVE  /\ Owns(b, Tracked)
         /\ buckets'[b].tokens = buckets[b].tokens
         /\ buckets'[b].refillAge = buckets[b].refillAge
  <1>0. Tracked \in Source /\ kInvalidSourceId \notin Source
    BY Sizes
  <1>1. CASE UNCHANGED vars \/ EvictIdle \/ EvictLook
    BY <1>1 DEF vars, EvictIdle, EvictLook, Owns, Holds, Filling
  <1>2. ASSUME NEW s \in Source, Admit(s)
        PROVE  Owns(b, Tracked) /\ buckets' = buckets
    BY <1>2 DEF Admit, Owns, Holds, Filling
  <1>3. CASE Allocate
    <2>1. net.pc = "allocate" /\ net \in NetBusy
      BY <1>3, Places DEF Allocate
    <2>2. UNCHANGED <<buckets[b].sourceId, buckets[b].tokens, buckets[b].refillAge>>
      BY <1>3, Fields
    <2>3. buckets[b].active
      <3>1. CASE b # net.idx
        BY <1>3, <3>1, Fields DEF Owns, Holds
      <3>2. CASE b = net.idx /\ ~buckets[b].active
        <4>1. net' = [net EXCEPT !.pc = "fill"]
          BY <1>3, <3>2 DEF Allocate
        <4> QED
          BY <2>1, <3>2, <4>1 DEF Owns, Filling, NetBusy
      <3> QED
        BY <3>1, <3>2
    <2> QED
      BY <2>1, <2>2, <2>3 DEF Owns, Holds, Filling
  <1>4. CASE EvictReset
    <2>1. net' = net
      BY <1>4 DEF EvictReset
    <2>2. IF b = evict.idx
          THEN buckets'[b].sourceId = kInvalidSourceId
          ELSE buckets'[b] = buckets[b]
      BY <1>4, Fields
    <2> QED
      BY <1>0, <2>1, <2>2 DEF Owns, Holds, Filling
  <1>5. CASE EvictRelease
    <2>1. net' = net
      BY <1>5 DEF EvictRelease
    <2>2. IF b = evict.idx
          THEN buckets'[b].active = FALSE
          ELSE buckets'[b] = buckets[b]
      BY <1>5, Fields
    <2> QED
      BY <2>1, <2>2 DEF Owns, Holds, Filling
  <1> QED
    BY <1>1, <1>2, <1>3, <1>4, <1>5 DEF Keeps

\* The limit: what the bucket still holds and is due never passes the meter.
LEMMA LimitStep ==
  ASSUME TypeInv, NameInv, PassInv, LimitInv, [Next]_vars, TypeInv', PassInv'
  PROVE  LimitInv'
  <1> SUFFICES ASSUME promise' = "limit" PROVE LimitInv'
    BY DEF LimitInv
  <1>0. /\ promise = "limit" /\ Full' = Full
        /\ Full = 2 * Burst + Worth(RefillDelay)
        /\ Worth(RefillDelay) = Worth(Period) + Worth(RefillLag)
        /\ Worth(Period) \in Nat /\ Worth(Period) >= 1 /\ Worth(RefillLag) \in Nat
        /\ Worth(RefillDelay) \in Nat
    <2>1. promise' = promise
      BY DEF Next, vars, hist, Tick, Admit, Allocate, Fill, Charge, RefillAll, RefillLook,
             RefillCredit, RefillStamp, EvictIdle, EvictLook, EvictReset, EvictRelease
    <2> QED
      BY <2>1, FullIs DEF Full
  <1>1. Burst \in Nat /\ Burst >= 1 /\ Rate \in Nat /\ Tracked \in Source /\ meter \in Int
    <2>1. Burst \in Nat /\ Burst >= 1 /\ Rate \in Nat /\ Tracked \in Source
      BY Sizes
    <2> QED
      BY <2>1 DEF TypeInv
  <1>2. /\ meter >= 0
        /\ net.pc = "charge" /\ net.src = Tracked => meter >= 1
    BY <1>0 DEF LimitInv
  <1>3. ASSUME NEW b \in Bucket, Owns(b, Tracked)
        PROVE  meter >= buckets[b].tokens + Due(b, Burst) + 1 /\ buckets[b].tokens \in Nat
               /\ Due(b, Burst) \in Nat
    <2>1. buckets[b].tokens \in 0 .. Burst
      BY Fields
    <2>2. Due(b, Burst) \in Nat
      BY <1>1, <1>3, DueBound DEF DueInv, Owns, Holds
    <2> QED
      BY <1>0, <1>1, <1>3, <2>1, <2>2 DEF LimitInv
  <1>4. ASSUME NEW b \in Bucket, Owns(b, Tracked)'
        PROVE  Full >= buckets'[b].tokens + Due(b, Burst)' + 1
               /\ buckets'[b].tokens \in Nat /\ Due(b, Burst)' \in Nat
    <2>1. buckets'[b].active /\ ~Filling(b)'
      BY <1>4 DEF Owns, Holds
    <2>2. /\ Due(b, Burst)' \in Nat
          /\ \/ Due(b, Burst)' <= Burst + Worth(RefillLag)
             \/ Due(b, Burst)' <= Worth(RefillDelay)
      BY <1>1, <2>1, DueBoundNext DEF DueInv
    <2>3. buckets'[b].tokens \in 0 .. Burst
      BY DEF TypeInv, BucketRecord
    <2> QED
      BY <1>0, <1>1, <2>2, <2>3
  <1>5. ASSUME meter' >= 0,
               \A b \in Bucket : Owns(b, Tracked)' =>
                 meter' >= buckets'[b].tokens + Due(b, Burst)' + 1,
               net'.pc = "charge" /\ net'.src = Tracked => meter' >= 1
        PROVE  LimitInv'
    BY <1>5 DEF LimitInv
  <1>6. CASE Tick
    <2>1. net.pc = "idle" /\ net' = net /\ meter' = Min({meter + Rate, Full})
      BY <1>6 DEF Tick
    <2>2. meter' = IF meter + Rate <= Full THEN meter + Rate ELSE Full
      BY <1>0, <1>1, <2>1, MinOfTwo
    <2>3. meter' >= 0
      BY <1>0, <1>1, <1>2, <2>2
    <2>4. ASSUME NEW b \in Bucket, Owns(b, Tracked)'
          PROVE  meter' >= buckets'[b].tokens + Due(b, Burst)' + 1
      <3>1. Owns(b, Tracked)
        BY <2>4, <1>6, OwnerBack DEF Moves
      <3>2. Due(b, Burst)' <= Due(b, Burst) + Rate
        BY <1>1, <1>6, <3>1, DueStep DEF Owns, Holds
      <3>3. buckets'[b].tokens = buckets[b].tokens
        BY <1>6, Fields
      <3>4. meter >= buckets[b].tokens + Due(b, Burst) + 1 /\ buckets[b].tokens \in Nat
            /\ Due(b, Burst) \in Nat
        BY <1>3, <3>1
      <3>5. Full >= buckets'[b].tokens + Due(b, Burst)' + 1 /\ Due(b, Burst)' \in Nat
        BY <1>4, <2>4
      <3> QED
        BY <1>0, <1>1, <2>2, <3>2, <3>3, <3>4, <3>5
    <2> QED
      BY <1>5, <2>1, <2>3, <2>4
  <1>7. CASE Fill
    <2>1. /\ net.pc = "fill" /\ net \in NetBusy /\ net'.pc = "charge" /\ net'.src = net.src
          /\ meter' = IF net.src = Tracked THEN Full ELSE meter
          /\ refill' = refill
      BY <1>0, <1>7, Places DEF Fill, NetBusy
    <2>2. ASSUME NEW b \in Bucket, Owns(b, Tracked)', net.src # Tracked
          PROVE  meter' >= buckets'[b].tokens + Due(b, Burst)' + 1
      <3>1. b # net.idx
        BY <1>7, <2>2, Fields DEF Owns, Holds
      <3>2. buckets'[b] = buckets[b]
        BY <1>7, <3>1, Fields
      <3>3. Owns(b, Tracked)
        BY <2>1, <2>2, <3>1, <3>2 DEF Owns, Holds, Filling
      <3>4. Due(b, Burst)' = Due(b, Burst)
        BY <1>1, <2>1, <3>2, <3>3, DueStep DEF Owns, Holds
      <3> QED
        BY <1>3, <2>1, <2>2, <3>2, <3>3, <3>4
    <2> QED
      BY <1>0, <1>1, <1>2, <1>4, <1>5, <2>1, <2>2
  <1>8. CASE Charge
    <2>1. net.pc = "charge" /\ net \in NetBusy /\ net' = Idle /\ refill' = refill
          /\ meter' = IF net.src = Tracked /\ Admitted THEN meter - 1 ELSE meter
      BY <1>0, <1>8, Places DEF Charge, Spend
    <2>2. ASSUME NEW b \in Bucket, Owns(b, Tracked)'
          PROVE  meter' >= buckets'[b].tokens + Due(b, Burst)' + 1
      <3>1. Owns(b, Tracked) /\ buckets'[b].refillAge = buckets[b].refillAge
        <4>1. Owns(b, Tracked)
          BY <1>8, <2>2, OwnerBack DEF Moves
        <4> QED
          BY <1>8, <4>1, Fields
      <3>2. Due(b, Burst)' = Due(b, Burst)
        BY <1>1, <2>1, <3>1, DueStep DEF Owns, Holds
      <3>3. meter >= buckets[b].tokens + Due(b, Burst) + 1 /\ buckets[b].tokens \in Nat
            /\ Due(b, Burst) \in Nat
        BY <1>3, <3>1
      <3>4. CASE net.src = Tracked /\ Admitted
        <4>1. b = net.idx
          BY <2>1, <3>1, <3>4 DEF NameInv
        <4>2. buckets'[b].tokens = buckets[b].tokens - 1
          BY <1>8, <3>4, <4>1, Fields
        <4> QED
          BY <1>1, <2>1, <3>2, <3>3, <3>4, <4>2
      <3>5. CASE ~(net.src = Tracked /\ Admitted)
        <4>1. buckets'[b].tokens = buckets[b].tokens
              \/ buckets'[b].tokens = buckets[b].tokens - 1
          BY <1>8, Fields
        <4> QED
          BY <1>1, <2>1, <3>2, <3>3, <3>5, <4>1
      <3> QED
        BY <3>4, <3>5
    <2>3. meter' >= 0 /\ net'.pc = "idle"
      BY <1>1, <1>2, <2>1 DEF Idle
    <2> QED
      BY <1>5, <2>2, <2>3
  <1>9. CASE RefillAll \/ RefillLook \/ RefillCredit \/ RefillStamp
    <2>1. meter' = meter /\ net' = net
      BY <1>9 DEF RefillAll, RefillLook, RefillCredit, RefillStamp, hist
    <2>2. ASSUME NEW b \in Bucket, Owns(b, Tracked)'
          PROVE  meter' >= buckets'[b].tokens + Due(b, Burst)' + 1
      <3>1. Owns(b, Tracked)
        BY <2>2, <1>9, OwnerBack DEF Moves
      <3>2. meter >= buckets[b].tokens + Due(b, Burst) + 1 /\ buckets[b].tokens \in Nat
            /\ Due(b, Burst) \in Nat
        BY <1>3, <3>1
      <3>3. Due(b, Burst)' \in Nat /\ buckets'[b].tokens \in Nat
        BY <1>4, <2>2
      <3>4. buckets'[b].tokens + Due(b, Burst)' <= buckets[b].tokens + Due(b, Burst)
        <4>1. CASE RefillCredit
          BY <1>1, <3>1, <4>1, DueStep DEF Owns, Holds
        <4>2. CASE RefillAll \/ RefillStamp
          <5>1. buckets'[b].tokens = buckets[b].tokens
            BY <4>2, Fields DEF RefillAll
          <5>2. Due(b, Burst)' = Due(b, Burst)
            BY <1>1, <3>1, <4>2, DueStep DEF Owns, Holds
          <5> QED
            BY <3>2, <5>1, <5>2
        <4>3. CASE RefillLook
          <5>1. buckets'[b].tokens = buckets[b].tokens
            BY <4>3 DEF RefillLook
          <5>2. Due(b, Burst)' <= Due(b, Burst)
            BY <1>1, <3>1, <4>3, DueStep DEF Owns, Holds
          <5> QED
            BY <3>2, <3>3, <5>1, <5>2
        <4> QED
          BY <1>9, <4>1, <4>2, <4>3
      <3> QED
        BY <1>1, <2>1, <3>2, <3>3, <3>4
    <2> QED
      BY <1>2, <1>5, <2>1, <2>2
  <1>10. CASE Keeps
    <2>1. meter' = meter /\ refill' = refill
      BY <1>10 DEF Keeps, vars, hist, Allocate, Admit, EvictIdle, EvictLook, EvictReset,
                   EvictRelease
    <2>2. ASSUME NEW b \in Bucket, Owns(b, Tracked)'
          PROVE  meter' >= buckets'[b].tokens + Due(b, Burst)' + 1
      <3>1. /\ Owns(b, Tracked) /\ buckets'[b].tokens = buckets[b].tokens
            /\ buckets'[b].refillAge = buckets[b].refillAge
        BY <1>10, <2>2, OwnerKept
      <3>2. Due(b, Burst)' = Due(b, Burst)
        BY <1>1, <2>1, <3>1, DueStep DEF Owns, Holds
      <3> QED
        BY <1>3, <2>1, <3>1, <3>2
    <2>3. net'.pc = "charge" /\ net'.src = Tracked => meter' >= 1
      <3>1. ASSUME NEW s \in Source, Admit(s), net'.pc = "charge", net'.src = Tracked
            PROVE  meter' >= 1
        <4>1. PICK b \in Bucket : Owns(b, Tracked)
          <5>1. net.pc = "idle" /\ Found(s) # {} /\ s = Tracked
            BY <3>1 DEF Admit
          <5> QED
            BY <5>1 DEF Found, Owns, Filling
        <4> QED
          BY <1>1, <1>3, <2>1, <4>1
      <3>2. CASE Allocate
        <4>1. net \in NetBusy /\ net.pc = "allocate"
          BY <3>2, Places DEF Allocate
        <4>2. net'.pc # "charge"
          BY <3>2, <4>1 DEF Allocate, Idle, NetBusy
        <4> QED
          BY <4>2
      <3>3. CASE net' = net
        BY <1>2, <2>1, <3>3
      <3> QED
        BY <1>10, <3>1, <3>2, <3>3
           DEF Keeps, vars, EvictIdle, EvictLook, EvictReset, EvictRelease
    <2> QED
      BY <1>2, <1>5, <2>1, <2>2, <2>3
  <1> QED
    BY <1>6, <1>7, <1>8, <1>9, <1>10 DEF Next, Keeps

\* The service: what the bucket holds and is due covers what is promised.
LEMMA ServiceStep ==
  ASSUME TypeInv, NameInv, PassInv, ServiceInv, [Next]_vars, TypeInv', PassInv'
  PROVE  ServiceInv'
  <1> SUFFICES ASSUME promise' = "service" PROVE ServiceInv'
    BY DEF ServiceInv
  <1>0. /\ promise = "service" /\ Full' = Full
        /\ Full = Burst - Worth(RefillDelay)
        /\ Worth(RefillDelay) = Worth(Period) + Worth(RefillLag)
        /\ Worth(Period) \in Nat /\ Worth(RefillLag) \in Nat /\ Worth(RefillDelay) \in Nat
    <2>1. promise' = promise
      BY DEF Next, vars, hist, Tick, Admit, Allocate, Fill, Charge, RefillAll, RefillLook,
             RefillCredit, RefillStamp, EvictIdle, EvictLook, EvictReset, EvictRelease
    <2> QED
      BY <2>1, FullIs DEF Full
  <1>1. Burst \in Nat /\ Burst >= 1 /\ Rate \in Nat /\ Tracked \in Source
    BY Sizes
  <1>2. /\ meter \in Int /\ meter <= Full /\ meter' \in Int /\ meter' <= Full
        /\ meter >= -Worth(RefillDelay)
        /\ net.pc = "charge" /\ net.src = Tracked /\ meter > 0 => Admitted
    BY <1>0 DEF ServiceInv, TypeInv
  <1> DEFINE Have(b) == buckets[b].tokens + Due(b, Worth(Period))
  <1>3. ASSUME NEW b \in Bucket, Owns(b, Tracked)
        PROVE  /\ Have(b) >= meter + Worth(RefillDelay)
               /\ buckets[b].tokens \in Nat /\ Due(b, Worth(Period)) \in Nat
               /\ Due(b, Worth(Period)) <= Worth(RefillDelay)
    <2>1. buckets[b].tokens \in 0 .. Burst
      BY Fields
    <2>2. /\ Due(b, Worth(Period)) \in Nat
          /\ \/ Due(b, Worth(Period)) <= Worth(Period) + Worth(RefillLag)
             \/ Due(b, Worth(Period)) <= Worth(RefillDelay)
      BY <1>0, <1>3, DueBound DEF DueInv, Owns, Holds
    <2> QED
      BY <1>0, <1>1, <1>3, <2>1, <2>2 DEF ServiceInv
  <1>4. ASSUME NEW b \in Bucket, Owns(b, Tracked)'
        PROVE  buckets'[b].tokens \in Nat /\ Due(b, Worth(Period))' \in Nat
    <2>1. buckets'[b].active /\ ~Filling(b)'
      BY <1>4 DEF Owns, Holds
    <2>2. Due(b, Worth(Period))' \in Nat
      BY <1>0, <2>1, DueBoundNext DEF DueInv
    <2>3. buckets'[b].tokens \in 0 .. Burst
      BY DEF TypeInv, BucketRecord
    <2> QED
      BY <1>1, <2>2, <2>3
  <1>5. ASSUME meter' >= -Worth(RefillDelay),
               \A b \in Bucket : Owns(b, Tracked)' => Have(b)' >= meter' + Worth(RefillDelay),
               net'.pc = "charge" /\ net'.src = Tracked /\ meter' > 0 => Admitted'
        PROVE  ServiceInv'
    BY <1>5 DEF ServiceInv
  \* A full bucket, or as much as before, is enough for what the meter gained.
  <1>6. ASSUME NEW b \in Bucket, Owns(b, Tracked), Owns(b, Tracked)', meter' = meter,
               Have(b)' >= Have(b) \/ Have(b)' >= Burst
        PROVE  Have(b)' >= meter' + Worth(RefillDelay)
    <2>1. Have(b)' \in Nat /\ Have(b) \in Nat
      BY <1>3, <1>4, <1>6
    <2>2. Have(b) >= meter + Worth(RefillDelay)
      BY <1>3, <1>6
    <2> QED
      BY <1>0, <1>1, <1>2, <1>6, <2>1, <2>2
  <1>7. CASE Tick
    <2>1. net.pc = "idle" /\ net' = net /\ meter' = Min({meter + Rate, Full})
      BY <1>7 DEF Tick
    <2>2. meter' = IF meter + Rate <= Full THEN meter + Rate ELSE Full
      BY <1>0, <1>1, <1>2, <2>1, MinOfTwo
    <2>3. meter' >= -Worth(RefillDelay)
      BY <1>0, <1>1, <1>2, <2>2
    <2>4. ASSUME NEW b \in Bucket, Owns(b, Tracked)'
          PROVE  Have(b)' >= meter' + Worth(RefillDelay)
      <3>1. Owns(b, Tracked)
        BY <2>4, <1>7, OwnerBack DEF Moves
      <3>2. \/ Due(b, Worth(Period))' >= Due(b, Worth(Period)) + Rate
            \/ Due(b, Worth(Period))' >= Burst
        BY <1>0, <1>7, <3>1, DueStep DEF Owns, Holds
      <3>3. buckets'[b].tokens = buckets[b].tokens
        BY <1>7, Fields
      <3>4. Have(b) >= meter + Worth(RefillDelay) /\ buckets[b].tokens \in Nat
            /\ Due(b, Worth(Period)) \in Nat
        BY <1>3, <3>1
      <3>5. Due(b, Worth(Period))' \in Nat
        BY <1>4, <2>4
      <3> QED
        BY <1>0, <1>1, <1>2, <2>2, <3>2, <3>3, <3>4, <3>5
    <2> QED
      BY <1>5, <2>1, <2>3, <2>4
  <1>8. CASE Fill
    <2>1. /\ net.pc = "fill" /\ net \in NetBusy /\ net'.pc = "charge" /\ net'.src = net.src
          /\ net'.idx = net.idx /\ net.idx \in Bucket /\ meter' = meter /\ refill' = refill
      BY <1>0, <1>8, Places DEF Fill, NetBusy
    <2>2. buckets'[net.idx].tokens = Burst
      BY <1>8, <2>1, Fields
    <2>3. ASSUME NEW b \in Bucket, Owns(b, Tracked)'
          PROVE  Have(b)' >= meter' + Worth(RefillDelay)
      <3>1. CASE b = net.idx
        <4>1. Due(b, Worth(Period))' \in Nat
          BY <1>4, <2>3
        <4> QED
          BY <1>0, <1>1, <1>2, <2>1, <2>2, <3>1, <4>1
      <3>2. CASE b # net.idx
        <4>1. buckets'[b] = buckets[b]
          BY <1>8, <3>2, Fields
        <4>2. Owns(b, Tracked)
          BY <2>1, <2>3, <3>2, <4>1 DEF Owns, Holds, Filling
        <4>3. Due(b, Worth(Period))' = Due(b, Worth(Period))
          BY <1>0, <2>1, <4>1, <4>2, DueStep DEF Owns, Holds
        <4> QED
          BY <1>3, <2>1, <4>1, <4>2, <4>3
      <3> QED
        BY <3>1, <3>2
    <2>4. Admitted'
      BY <1>1, <2>1, <2>2 DEF Admitted
    <2> QED
      BY <1>2, <1>5, <2>1, <2>3, <2>4
  <1>9. CASE Charge
    <2>1. net.pc = "charge" /\ net \in NetBusy /\ net.idx \in Bucket /\ net' = Idle
          /\ refill' = refill
          /\ meter' = IF net.src = Tracked /\ Admitted THEN Spend ELSE meter
      BY <1>9, Places DEF Charge, NetBusy
    <2>2. Spend = IF meter - 1 >= -Worth(RefillDelay) THEN meter - 1 ELSE -Worth(RefillDelay)
      <3>1. Spend = Max({meter - 1, -Worth(RefillDelay)})
        BY <1>0, FullIs DEF Spend
      <3> QED
        BY <1>0, <1>2, <3>1, MaxOfTwo
    <2>3. ASSUME NEW b \in Bucket, Owns(b, Tracked)'
          PROVE  Have(b)' >= meter' + Worth(RefillDelay)
      <3>1. Owns(b, Tracked)
        BY <1>9, <2>3, OwnerBack DEF Moves
      <3>2. buckets'[b].refillAge = buckets[b].refillAge
        BY <1>9, Fields
      <3>3. Due(b, Worth(Period))' = Due(b, Worth(Period))
        BY <1>0, <2>1, <3>1, <3>2, DueStep DEF Owns, Holds
      <3>4. Have(b) >= meter + Worth(RefillDelay) /\ buckets[b].tokens \in Nat
            /\ Due(b, Worth(Period)) \in Nat
        BY <1>3, <3>1
      <3>5. CASE b = net.idx /\ Admitted
        <4>1. net.src = Tracked
          <5>1. buckets[b].sourceId \in {net.src, kInvalidSourceId}
            BY <2>1, <3>5 DEF NameInv
          <5>2. kInvalidSourceId \notin Source
            BY Sizes
          <5> QED
            BY <1>1, <3>1, <5>1, <5>2 DEF Owns, Holds
        <4>2. buckets'[b].tokens = buckets[b].tokens - 1
          BY <1>9, <3>5, Fields
        <4>3. buckets'[b].tokens \in Nat
          BY <1>4, <2>3
        <4> QED
          BY <1>0, <1>2, <2>1, <2>2, <3>3, <3>4, <3>5, <4>1, <4>2, <4>3
      <3>6. CASE ~(b = net.idx /\ Admitted)
        <4>1. buckets'[b].tokens = buckets[b].tokens
          BY <1>9, <3>6, Fields
        <4>2. ~(net.src = Tracked /\ Admitted)
          BY <2>1, <3>1, <3>6 DEF NameInv
        <4> QED
          BY <2>1, <3>3, <3>4, <4>1, <4>2
      <3> QED
        BY <3>5, <3>6
    <2>4. meter' >= -Worth(RefillDelay) /\ net'.pc = "idle"
      BY <1>0, <1>2, <2>1, <2>2 DEF Idle
    <2> QED
      BY <1>5, <2>3, <2>4
  <1>10. CASE RefillAll \/ RefillLook \/ RefillCredit \/ RefillStamp
    <2>1. meter' = meter /\ net' = net
      BY <1>10 DEF RefillAll, RefillLook, RefillCredit, RefillStamp, hist
    <2>2. ASSUME NEW b \in Bucket, Owns(b, Tracked)'
          PROVE  Have(b)' >= meter' + Worth(RefillDelay)
      <3>1. Owns(b, Tracked)
        BY <2>2, <1>10, OwnerBack DEF Moves
      <3>2. Have(b)' >= Have(b) \/ Have(b)' >= Burst
        <4>0. buckets'[b].tokens \in Nat /\ Due(b, Worth(Period))' \in Nat
              /\ buckets[b].tokens \in Nat /\ Due(b, Worth(Period)) \in Nat
          BY <1>3, <1>4, <2>2, <3>1
        <4>1. CASE RefillCredit
          BY <1>0, <3>1, <4>1, DueStep DEF Owns, Holds
        <4>2. CASE RefillAll \/ RefillStamp
          <5>1. buckets'[b].tokens = buckets[b].tokens
            BY <4>2, Fields DEF RefillAll
          <5>2. Due(b, Worth(Period))' = Due(b, Worth(Period))
            BY <1>0, <3>1, <4>2, DueStep DEF Owns, Holds
          <5> QED
            BY <4>0, <5>1, <5>2
        <4>3. CASE RefillLook
          <5>1. buckets'[b].tokens = buckets[b].tokens
            BY <4>3 DEF RefillLook
          <5>2. Due(b, Worth(Period))' = Due(b, Worth(Period))
                \/ Due(b, Worth(Period))' >= Burst
            BY <1>0, <3>1, <4>3, DueStep DEF Owns, Holds
          <5> QED
            BY <1>1, <4>0, <5>1, <5>2
        <4> QED
          BY <1>10, <4>1, <4>2, <4>3
      <3> QED
        BY <1>6, <2>1, <2>2, <3>1, <3>2
    <2>3. net.pc = "charge" /\ net.src = Tracked /\ meter > 0 => Admitted'
      <3>1. SUFFICES ASSUME net.pc = "charge", Admitted PROVE Admitted'
        BY <1>2
      <3>2. net.idx \in Bucket
        BY <3>1, Places DEF NetBusy
      <3>3. CASE RefillCredit
        <4>1. buckets'[net.idx].tokens = IF net.idx = refill.idx
                                         THEN Least(buckets[net.idx].tokens + NewTokens, Burst)
                                         ELSE buckets[net.idx].tokens
          BY <3>2, <3>3, Fields
        <4>2. NewTokens \in Nat
          BY <3>3, Places, Credit DEF RefillCredit
        <4>3. buckets[net.idx].tokens \in Nat
          <5>1. buckets[net.idx].tokens \in 0 .. Burst
            BY <3>2, Fields
          <5> QED
            BY <1>1, <5>1
        <4> QED
          BY <1>1, <2>1, <3>1, <4>1, <4>2, <4>3 DEF Admitted, Least
      <3>4. CASE RefillAll \/ RefillLook \/ RefillStamp
        <4>1. buckets'[net.idx].tokens = buckets[net.idx].tokens
          BY <3>2, <3>4, Fields DEF RefillAll, RefillLook
        <4> QED
          BY <2>1, <3>1, <4>1 DEF Admitted
      <3> QED
        BY <1>10, <3>3, <3>4
    <2> QED
      BY <1>2, <1>5, <2>1, <2>2, <2>3
  <1>11. CASE Keeps
    <2>1. meter' = meter /\ refill' = refill
      BY <1>11 DEF Keeps, vars, hist, Allocate, Admit, EvictIdle, EvictLook, EvictReset,
                   EvictRelease
    <2>2. ASSUME NEW b \in Bucket, Owns(b, Tracked)'
          PROVE  Have(b)' >= meter' + Worth(RefillDelay)
      <3>1. /\ Owns(b, Tracked) /\ buckets'[b].tokens = buckets[b].tokens
            /\ buckets'[b].refillAge = buckets[b].refillAge
        BY <1>11, <2>2, OwnerKept
      <3>2. Due(b, Worth(Period))' = Due(b, Worth(Period))
        BY <1>0, <2>1, <3>1, DueStep DEF Owns, Holds
      <3> QED
        BY <1>3, <2>1, <3>1, <3>2
    <2>3. net'.pc = "charge" /\ net'.src = Tracked /\ meter' > 0 => Admitted'
      <3>1. ASSUME NEW s \in Source, Admit(s), net'.pc = "charge", net'.src = Tracked,
                   meter' > 0
            PROVE  Admitted'
        <4>1. /\ net.pc = "idle" /\ Found(s) # {} /\ s = Tracked /\ buckets' = buckets
              /\ net'.idx = Min(Found(s))
          BY <3>1 DEF Admit
        <4>2. Found(s) \subseteq Nat /\ Found(s) \subseteq Bucket
          BY Sizes DEF Found
        <4>3. Min(Found(s)) \in Found(s)
          BY <4>1, <4>2, LeastNat
        <4>4. PICK b \in Bucket : b = net'.idx /\ Owns(b, Tracked)
          BY <4>1, <4>3 DEF Found, Owns, Filling
        <4>5. buckets[b].tokens > 0
          BY <1>0, <1>2, <1>3, <2>1, <3>1, <4>4
        <4> QED
          BY <4>1, <4>4, <4>5 DEF Admitted
      <3>2. CASE Allocate
        <4>1. net \in NetBusy /\ net.pc = "allocate"
          BY <3>2, Places DEF Allocate
        <4>2. net'.pc # "charge"
          BY <3>2, <4>1 DEF Allocate, Idle, NetBusy
        <4> QED
          BY <4>2
      <3>3. CASE net' = net /\ (buckets' = buckets \/ EvictReset \/ EvictRelease)
        <4>1. SUFFICES ASSUME net.pc = "charge", Admitted PROVE Admitted'
          BY <1>2, <2>1, <3>3
        <4>2. net.idx \in Bucket
          BY <4>1, Places DEF NetBusy
        <4>3. buckets'[net.idx].tokens \in {buckets[net.idx].tokens, Burst}
          BY <3>3, <4>2, Fields
        <4> QED
          BY <1>1, <3>3, <4>1, <4>3 DEF Admitted
      <3> QED
        BY <1>11, <3>1, <3>2, <3>3
           DEF Keeps, vars, EvictIdle, EvictLook, EvictReset, EvictRelease
    <2> QED
      BY <1>2, <1>5, <2>1, <2>2, <2>3
  <1> QED
    BY <1>7, <1>8, <1>9, <1>10, <1>11 DEF Next, Keeps

-----------------------------------------------------------------------------
(* The theorems.                                                           *)

\* All buckets start empty of a source, and the meter is full.
LEMMA InitBuckets == Init => BucketInv
  <1> SUFFICES ASSUME Init PROVE BucketInv
    OBVIOUS
  <1>1. TypeInv
    <2>1. buckets \in [Bucket -> BucketRecord]
      <3>1. Burst \in 0 .. Burst /\ 0 \in 0 .. MaxRefillAge /\ 0 \in 0 .. MaxIdle
        BY Sizes
      <3> QED
        BY <3>1 DEF Init, BucketRecord
    <2>2. NetOK /\ RefillOK /\ EvictOK /\ promise \in {"limit", "service"}
      BY DEF Init, NetOK, RefillOK, EvictOK
    <2>3. wait \in 0 .. Period
      BY Sizes DEF Init
    <2>4. meter \in Int /\ meter <= Full
      BY FullIs DEF Init
    <2> QED
      BY <2>1, <2>2, <2>3, <2>4 DEF TypeInv
  <1>2. net.pc = "idle" /\ refill.pc = "idle" /\ \A b \in Bucket : ~buckets[b].active
    BY DEF Init, Idle
  <1>3. \A s, b : b \in Bucket => ~Owns(b, s)
    BY <1>2 DEF Owns, Holds
  <1>4. NameInv /\ PassInv
    BY <1>2, <1>3 DEF NameInv, PassInv
  <1>5. meter = Full /\ Burst \in Nat /\ Burst >= 1
    BY Sizes DEF Init
  <1>6. LimitInv
    <2>1. promise = "limit" => meter >= 0
      BY <1>5, FullIs
    <2> QED
      BY <1>2, <1>3, <2>1 DEF LimitInv
  <1>7. ServiceInv
    <2>1. promise = "service" => meter >= -Worth(RefillDelay)
      BY <1>5, FullIs
    <2> QED
      BY <1>2, <1>3, <2>1 DEF ServiceInv
  <1> QED
    BY <1>1, <1>4, <1>6, <1>7 DEF BucketInv

\* The inductive invariant of the three tasks.
THEOREM LimiterCorrect == Spec => []BucketInv
  <1>1. BucketInv /\ [Next]_vars => BucketInv'
    <2> SUFFICES ASSUME BucketInv, [Next]_vars PROVE BucketInv'
      OBVIOUS
    <2>1. TypeInv /\ NameInv /\ PassInv /\ LimitInv /\ ServiceInv
      BY DEF BucketInv
    <2>2. TypeInv'
      BY <2>1, TypeStep
    <2>3. NameInv'
      BY <2>1, NameStep
    <2>4. PassInv'
      BY <2>1, PassStep
    <2>5. LimitInv'
      BY <2>1, <2>2, <2>4, LimitStep
    <2>6. ServiceInv'
      BY <2>1, <2>2, <2>4, ServiceStep
    <2> QED
      BY <2>2, <2>3, <2>4, <2>5, <2>6 DEF BucketInv
  <1> QED
    BY InitBuckets, <1>1, PTL DEF Spec

\* A bucket holds between nothing and its capacity, however refills, charges
\* and evictions overlap.
THEOREM TypeCorrect == Spec => []LimiterTypeOK
  <1>1. BucketInv => LimiterTypeOK
    <2> SUFFICES ASSUME BucketInv PROVE LimiterTypeOK
      OBVIOUS
    <2>1. TypeInv
      BY DEF BucketInv
    <2>2. meter \in (IF promise = "limit" THEN -1 ELSE -Rate * RefillDelay) .. Full
      <3>1. meter \in Int /\ meter <= Full /\ Full \in Int
        BY <2>1, FullIs DEF TypeInv
      <3>2. promise = "limit" => meter >= -1
        BY <3>1 DEF BucketInv, LimitInv
      <3>3. promise # "limit" => meter >= -Worth(RefillDelay)
        BY <2>1 DEF BucketInv, ServiceInv, TypeInv
      <3> QED
        BY <3>1, <3>2, <3>3, FullIs
    <2> QED
      BY <2>1, <2>2 DEF LimiterTypeOK, TypeInv, BucketRecord, NetOK, RefillOK, EvictOK,
                        NetBusy, RefillBusy, EvictBusy
  <1> QED
    BY LimiterCorrect, <1>1, PTL

\* A source never has two buckets to spend from.
THEOREM OneBucket == Spec => []OneBucketPerSource
  <1>1. BucketInv => OneBucketPerSource
    <2> SUFFICES ASSUME BucketInv, NEW s \in Source, NEW a \in Bucket, NEW b \in Bucket,
                        Holds(a, s), Holds(b, s), a # b
                 PROVE  net \in [pc : {"fill"}, src : Source, idx : {a, b}]
      BY DEF OneBucketPerSource
    <2>1. ~(Owns(a, s) /\ Owns(b, s))
      BY DEF BucketInv, NameInv
    <2>2. net.pc = "fill" /\ net.idx \in {a, b}
      BY <2>1 DEF Owns, Filling
    <2>3. net \in NetBusy
      BY <2>2, Places DEF BucketInv
    <2> QED
      BY <2>2, <2>3 DEF NetBusy
  <1> QED
    BY LimiterCorrect, <1>1, PTL

\* Between two new buckets no source gets more than two bursts, the tokens of one
\* refill delay and the rate.
THEOREM LimitHolds == Spec => []RateLimited
  <1>1. BucketInv => RateLimited
    BY DEF BucketInv, LimitInv, RateLimited
  <1> QED
    BY LimiterCorrect, <1>1, PTL

\* A source that keeps to the promised rate and has a bucket finds a token in it.
THEOREM ServiceHolds == Spec => []ConformingAdmitted
  <1>1. BucketInv => ConformingAdmitted
    BY DEF BucketInv, ServiceInv, ConformingAdmitted
  <1> QED
    BY LimiterCorrect, <1>1, PTL
=============================================================================
