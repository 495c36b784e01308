----------------------------- MODULE RateLimiter ----------------------------
(***************************************************************************)
(* The token buckets of RateLimiter.cpp under their three users: the       *)
(* network thread (Admit), the refill task (RefillAll, every millisecond)  *)
(* and the maintenance task (EvictIdle).  None of them locks anything.     *)
(*                                                                         *)
(* A compare-and-swap loop on tokens reads and writes one value and is one *)
(* step.  Stores that no other thread can tell apart are one step too: the *)
(* fields a claimed bucket is filled with, what EvictIdle() resets before  *)
(* it gives the bucket up.  passCount and dropCount, which only GetStats() *)
(* reads, are left out.                                                    *)
(*                                                                         *)
(* Time is relative, as in SensorFaultMonitor: refillAge and idle are now  *)
(* minus lastRefillMs and lastSeenMs; lag is now minus the nowMs of a pass.*)
(***************************************************************************)
EXTENDS Integers, FiniteSetsExt

CONSTANTS
  Source,         \* sourceIds of packets
  Tracked,        \* the source whose packets the history variables count
  Buckets,        \* kMaxTrackedSources
  Burst,          \* kBurstCapacity
  Rate,           \* kRefillRatePerMs, per tick
  ClampTicks,     \* the 1000 ms that RefillBucket() credits at most
  EvictAfter,     \* kSourceEvictAfterMs
  Period,         \* ticks between the beginnings of two refill passes
  RefillLag,      \* ticks a refill pass can last ...
  EvictLag,       \* ... and an eviction pass
  kInvalidSourceId

ASSUME LimiterAssumption ==
  /\ {Buckets, Burst, Rate, Period} \subseteq Nat \ {0}
  /\ {ClampTicks, EvictAfter, RefillLag, EvictLag} \subseteq Nat
  /\ Rate * ClampTicks >= Burst
  /\ Tracked \in Source /\ kInvalidSourceId \notin Source

Bucket == 0 .. Buckets - 1

VARIABLES
  buckets,   \* buckets_[]: active, sourceId, tokens, refillAge, idle
  net,       \* the network thread in Admit(): pc, src, idx
  refill,    \* the refill task in RefillAll(): pc, idx, lag, elapsed
  evict,     \* the maintenance task in EvictIdle(): pc, idx, lag
  wait,      \* ticks since the last refill pass began
  promise,   \* history: which of the two promises below meter watches
  meter      \* history: packets Tracked may send under it at this moment

hist == <<promise, meter>>
vars == <<buckets, net, refill, evict, wait, hist>>

\* A refill pass is due every Period and done RefillLag later.
RefillDelay == Period + RefillLag

\* An ideal bucket for each promise.  "limit": in any t ticks in which Tracked
\* gets no new bucket it is admitted at most Full + Rate * t times.  One burst is
\* the bucket's; a second comes when a refill pass credits the new owner with
\* time of the previous one.  "service": a source that sends no more than
\* Full + Rate * t packets in any t ticks is admitted.
Full == IF promise = "limit" THEN 2 * Burst + Rate * RefillDelay
                             ELSE Burst - Rate * RefillDelay

\* A source that sends more than the service promise covers is in debt to it,
\* but to no more than what the bucket lets it send.
Spend == IF promise = "limit" THEN meter - 1 ELSE Max({meter - 1, -Rate * RefillDelay})

\* Ages above these are not told apart.
MaxRefillAge == Burst + RefillLag
MaxIdle == EvictAfter + EvictLag + 1

Idle == [pc |-> "idle"]

\* The state after Init().
Init ==
  /\ buckets = [b \in Bucket |-> [active |-> FALSE, sourceId |-> kInvalidSourceId,
                                  tokens |-> Burst, refillAge |-> 0, idle |-> 0]]
  /\ net = Idle /\ refill = Idle /\ evict = Idle
  /\ wait = 0
  /\ promise \in {"limit", "service"} /\ meter = Full

Later(pass) == IF pass.pc = "idle" THEN pass ELSE [pass EXCEPT !.lag = @ + 1]

\* CLOCK_MONOTONIC.  The tasks keep their period and their time budget; a call
\* of Admit(), which is documented to last less than a microsecond, does not
\* span a tick.
Tick ==
  /\ wait < Period
  /\ net.pc = "idle"
  /\ refill.pc # "idle" => refill.lag < RefillLag
  /\ evict.pc # "idle" => evict.lag < EvictLag
  /\ wait' = wait + 1
  /\ refill' = Later(refill) /\ evict' = Later(evict)
  /\ buckets' = [b \in Bucket |->
       [buckets[b] EXCEPT !.refillAge = Min({@ + 1, MaxRefillAge}),
                          !.idle = Min({@ + 1, MaxIdle})]]
  /\ meter' = Min({meter + Rate, Full})
  /\ UNCHANGED <<net, promise>>

-----------------------------------------------------------------------------
(* The network thread: Admit().                                            *)

Holds(b, s) == buckets[b].active /\ buckets[b].sourceId = s

\* Slip: the last bucket is never looked at.
FoundShort(s) == {b \in Bucket : b + 1 < Buckets /\ Holds(b, s)}
\* The first pass of FindOrAllocate().  Nobody but this thread gives a bucket
\* to a source, so the loop sees what one look at the table sees.
Found(s) == {b \in Bucket : Holds(b, s)}

Admit(s) ==
  /\ net.pc = "idle"
  /\ net' = IF Found(s) # {} THEN [pc |-> "charge", src |-> s, idx |-> Min(Found(s))]
                             ELSE [pc |-> "allocate", src |-> s, idx |-> 0]
  /\ UNCHANGED <<buckets, refill, evict, wait, hist>>

\* The second pass: a compare-and-swap on active, bucket by bucket.  A full
\* table ends the call with kRegistryFull.
Allocate ==
  /\ net.pc = "allocate"
  /\ IF buckets[net.idx].active
     THEN /\ net' = IF net.idx + 1 < Buckets THEN [net EXCEPT !.idx = @ + 1] ELSE Idle
          /\ UNCHANGED buckets
     ELSE /\ buckets' = [buckets EXCEPT ![net.idx].active = TRUE]
          /\ net' = [net EXCEPT !.pc = "fill"]
  /\ UNCHANGED <<refill, evict, wait, hist>>

\* "Slot acquired - initialise it".  The limit is one for each bucket a source is
\* given, so its meter starts afresh.
Fill ==
  /\ net.pc = "fill"
  /\ buckets' = [buckets EXCEPT ![net.idx] =
       [@ EXCEPT !.sourceId = net.src, !.tokens = Burst, !.refillAge = 0, !.idle = 0]]
  /\ net' = [net EXCEPT !.pc = "charge"]
  /\ meter' = IF net.src = Tracked /\ promise = "limit" THEN Full ELSE meter
  /\ UNCHANGED <<refill, evict, wait, promise>>

Admitted == buckets[net.idx].tokens > 0

\* lastSeenMs.store(), then a token is taken or, without one, the packet is
\* dropped (kQueueFull).
Charge ==
  /\ net.pc = "charge"
  /\ buckets' = [buckets EXCEPT ![net.idx].idle = 0,
                                ![net.idx].tokens = IF Admitted THEN @ - 1 ELSE @]
  /\ net' = Idle
  /\ meter' = IF net.src = Tracked /\ Admitted THEN Spend ELSE meter
  /\ UNCHANGED <<refill, evict, wait, promise>>

-----------------------------------------------------------------------------
(* The refill task: RefillAll().                                           *)

NextBucket(pass) == IF pass.idx + 1 < Buckets
                    THEN [pass EXCEPT !.idx = @ + 1, !.pc = "look"] ELSE Idle

RefillAll == /\ refill.pc = "idle" /\ wait = Period
             /\ refill' = [pc |-> "look", idx |-> 0, lag |-> 0, elapsed |-> 0]
             /\ wait' = 0
             /\ UNCHANGED <<buckets, net, evict, hist>>

\* nowMs - lastRefillMs; not positive when the bucket is newer than the pass.
Elapsed == buckets[refill.idx].refillAge - refill.lag

\* RefillBucket() up to the credit: active and lastRefillMs are loaded.
RefillLook ==
  /\ refill.pc = "look"
  /\ refill' = IF buckets[refill.idx].active /\ Elapsed > 0
               THEN [refill EXCEPT !.pc = "credit", !.elapsed = Elapsed]
               ELSE NextBucket(refill)
  /\ UNCHANGED <<buckets, net, evict, wait, hist>>

NewTokens == Rate * Min({refill.elapsed, ClampTicks})

\* Slip: the sum is not clamped at the capacity.
RefillCreditUnclamped ==
  /\ refill.pc = "credit"
  /\ buckets' = [buckets EXCEPT ![refill.idx].tokens = @ + NewTokens]
  /\ refill' = [refill EXCEPT !.pc = "stamp"]
  /\ UNCHANGED <<net, evict, wait, hist>>
\* The compare-and-swap loop on tokens.
RefillCredit ==
  /\ refill.pc = "credit"
  /\ buckets' = [buckets EXCEPT ![refill.idx].tokens = Min({@ + NewTokens, Burst})]
  /\ refill' = [refill EXCEPT !.pc = "stamp"]
  /\ UNCHANGED <<net, evict, wait, hist>>

\* Slip: the time stamp is taken afresh, so what passed during the pass is lost.
RefillStampLate ==
  /\ refill.pc = "stamp"
  /\ buckets' = [buckets EXCEPT ![refill.idx].refillAge = 0]
  /\ refill' = NextBucket(refill)
  /\ UNCHANGED <<net, evict, wait, hist>>
\* Slip: the time stamp is forgotten, so the same time is credited again.
RefillStampForgotten ==
  /\ refill.pc = "stamp"
  /\ refill' = NextBucket(refill)
  /\ UNCHANGED <<buckets, net, evict, wait, hist>>
\* lastRefillMs.store(nowMs)
RefillStamp ==
  /\ refill.pc = "stamp"
  /\ buckets' = [buckets EXCEPT ![refill.idx].refillAge = refill.lag]
  /\ refill' = NextBucket(refill)
  /\ UNCHANGED <<net, evict, wait, hist>>

-----------------------------------------------------------------------------
(* The maintenance task: EvictIdle().                                      *)

EvictIdle == /\ evict.pc = "idle"
             /\ evict' = [pc |-> "look", idx |-> 0, lag |-> 0]
             /\ UNCHANGED <<buckets, net, refill, wait, hist>>

\* active and lastSeenMs are loaded.
EvictLook ==
  /\ evict.pc = "look"
  /\ evict' = IF /\ buckets[evict.idx].active
                 /\ buckets[evict.idx].idle - evict.lag > EvictAfter
              THEN [evict EXCEPT !.pc = "reset"] ELSE NextBucket(evict)
  /\ UNCHANGED <<buckets, net, refill, wait, hist>>

EvictReset ==
  /\ evict.pc = "reset"
  /\ buckets' = [buckets EXCEPT ![evict.idx] =
       [@ EXCEPT !.sourceId = kInvalidSourceId, !.tokens = Burst]]
  /\ evict' = [evict EXCEPT !.pc = "release"]
  /\ UNCHANGED <<net, refill, wait, hist>>

\* active.store(false)
EvictRelease ==
  /\ evict.pc = "release"
  /\ buckets' = [buckets EXCEPT ![evict.idx].active = FALSE]
  /\ evict' = NextBucket(evict)
  /\ UNCHANGED <<net, refill, wait, hist>>

-----------------------------------------------------------------------------
Next == \/ Tick
        \/ \E s \in Source : Admit(s)
        \/ Allocate \/ Fill \/ Charge
        \/ RefillAll \/ RefillLook \/ RefillCredit \/ RefillStamp
        \/ EvictIdle \/ EvictLook \/ EvictReset \/ EvictRelease

Spec == Init /\ [][Next]_vars

-----------------------------------------------------------------------------
(* Properties.                                                             *)

\* However refills, charges and evictions overlap, a bucket never holds more
\* than its capacity and is never overdrawn.
LimiterTypeOK ==
  /\ buckets \in [Bucket -> [active : BOOLEAN, sourceId : Source \cup {kInvalidSourceId},
                             tokens : 0 .. Burst, refillAge : 0 .. MaxRefillAge,
                             idle : 0 .. MaxIdle]]
  /\ net = Idle \/ net \in [pc : {"allocate", "fill", "charge"}, src : Source, idx : Bucket]
  /\ refill = Idle \/ refill \in [pc : {"look", "credit", "stamp"}, idx : Bucket,
                                  lag : 0 .. RefillLag, elapsed : 0 .. MaxRefillAge]
  /\ evict = Idle \/ evict \in [pc : {"look", "reset", "release"}, idx : Bucket,
                                lag : 0 .. EvictLag]
  /\ wait \in 0 .. Period
  /\ meter \in (IF promise = "limit" THEN -1 ELSE -Rate * RefillDelay) .. Full

\* A source has one bucket.  A slot that Admit() has claimed and not yet filled
\* may still carry the name an overtaken eviction left in it.
OneBucketPerSource ==
  \A s \in Source, a, b \in Bucket : Holds(a, s) /\ Holds(b, s) =>
    a = b \/ net \in [pc : {"fill"}, src : Source, idx : {a, b}]

\* The limit: for as long as it is given no new bucket, a source is admitted no
\* more often than the ideal bucket of that promise allows, however refills and
\* charges overlap and although a refill may credit it with the time of the
\* bucket's last owner.  Each new bucket allows it one Full more.  One that was
\* evicted in silence had that coming: 5000 ms at 5 tokens a ms fill its ideal
\* bucket.  One that lost its bucket to an eviction its own packet overtook had
\* not, and is admitted up to Full above its rate for every such eviction.
RateLimited == promise = "limit" => meter >= 0

\* The service: a source that keeps within the promised rate and has a bucket
\* never finds it empty.  (A full table turns a source away before that.)
ConformingAdmitted ==
  /\ promise = "service" /\ meter > 0
  /\ net.pc = "charge" /\ net.src = Tracked
  => Admitted
=============================================================================
