----------------------- MODULE DeadSubscriberMonitor ------------------------
(***************************************************************************)
(* The liveness table of DeadSubscriberMonitor.cpp.                        *)
(*                                                                         *)
(* The maintenance task owns the table: it calls ScanAndEvict() and,       *)
(* between scans or from the on-death callback, Register() and             *)
(* Deregister().  RecordHeartbeat() is called by other threads at any      *)
(* time.  Only what such a thread can interleave with is split into steps: *)
(* its own look at each entry and its two stores, and in a scan the load   *)
(* of lastBeatMs, the eviction that follows from it and the callback.      *)
(* Register(), Deregister() and the freeing of an entry are single steps:  *)
(* a heartbeat writes lastBeatMs and health only, and leaves the same      *)
(* values whether it comes before, between or after their stores.          *)
(*                                                                         *)
(* Time is relative: age[i] is now - lastBeatMs of entry i, lag is         *)
(* now - nowMs of the scan in progress.  The statistics (evictedTotal_,    *)
(* evictedThisCycle) count callbacks and decide nothing; they are left     *)
(* out.                                                                    *)
(***************************************************************************)
EXTENDS Integers, FiniteSets

CONSTANTS Key,        \* (serviceId, eventId) of a subscriber
          NoKey,      \* (kInvalidServiceId, 0)
          MaxSubs,    \* kMaxMonitoredSubs
          Interval,   \* kHeartbeatIntervalMs, in ticks
          Dead,       \* kDeadTimeoutMs, in ticks
          Period,     \* kMonitorPeriodMs: ticks between two scans
          MaxLag,     \* ticks a scan can last, its callbacks included
          Beater      \* threads that call RecordHeartbeat()

ASSUME KeyAssumption == NoKey \notin Key
ASSUME TableAssumption == MaxSubs \in Nat /\ MaxSubs > 0
ASSUME TimeAssumption == /\ {Interval, Dead, Period, MaxLag} \subseteq Nat
                         /\ Interval < Dead /\ Period > 0

VARIABLES
  key, onDead, age, health, active,   \* LivenessEntry; onDead: is it set?
  initialised,
  spc, pos, lag, wait,    \* the task: control, loop variable, nowMs, last scan
  victim, cb,             \* sid and eid, and cb, of the entry being evicted
  bpc, arg, idx,          \* the heartbeat threads: control, argument, loop variable
  \* History, for the properties alone:
  subscribed,             \* registered, and neither deregistered nor called back
  since                   \* per key: ticks since a heartbeat reached its entry

entryVars == <<key, onDead, age, health, active>>
scanVars  == <<spc, pos, lag, victim, cb>>
beatVars  == <<bpc, arg, idx>>
ghostVars == <<subscribed, since>>
vars      == <<entryVars, initialised, scanVars, wait, beatVars, ghostVars>>

Index  == 0 .. MaxSubs - 1
Health == {"kAlive", "kWarning", "kDead"}
\* Ages above this are not told apart.
MaxAge == Dead + Period + MaxLag + 1

\* FindIndex(): an entry holds a key only while it is active.
Holds(i, k) == active[i] /\ key[i] = k
Known(k) == \E i \in Index : Holds(i, k)

\* The constructor: lastBeatMs is 0, that is, when the machine started.
Init == /\ key = [i \in Index |-> NoKey]
        /\ onDead = [i \in Index |-> FALSE]
        /\ age = [i \in Index |-> MaxAge]
        /\ health = [i \in Index |-> "kAlive"]
        /\ active = [i \in Index |-> FALSE]
        /\ initialised = FALSE
        /\ spc = "idle" /\ pos = 0 /\ lag = 0 /\ wait = 0
        /\ victim = NoKey /\ cb = FALSE
        /\ bpc = [b \in Beater |-> "idle"]
        /\ arg = [b \in Beater |-> NoKey]
        /\ idx = [b \in Beater |-> 0]
        /\ subscribed = {}
        /\ since = [k \in Key |-> Dead + 1]

\* Init(), the first time; every other call is refused before it and every
\* other Init() after it.
InitMonitor == /\ ~initialised
               /\ initialised' = TRUE
               /\ key' = [i \in Index |-> NoKey]
               /\ onDead' = [i \in Index |-> FALSE]
               /\ age' = [i \in Index |-> 0]
               /\ health' = [i \in Index |-> "kAlive"]
               /\ active' = [i \in Index |-> FALSE]
               /\ UNCHANGED <<scanVars, wait, beatVars, ghostVars>>

Older(n, limit) == IF n < limit THEN n + 1 ELSE limit

\* CLOCK_MONOTONIC.  The task keeps its period and a scan its time.
Tick == /\ initialised
        /\ wait < Period
        /\ spc # "idle" => lag < MaxLag
        /\ wait' = wait + 1
        /\ lag' = IF spc = "idle" THEN lag ELSE lag + 1
        /\ age' = [i \in Index |-> Older(age[i], MaxAge)]
        /\ since' = [k \in Key |-> Older(since[k], Dead + 1)]
        /\ UNCHANGED <<key, onDead, health, active, initialised, spc, pos, victim, cb,
                       beatVars, subscribed>>

-----------------------------------------------------------------------------
(* The maintenance task: the table.                                        *)

\* The task is not scanning, or it is inside an on-death callback.
TaskMayCall == initialised /\ spc \in {"idle", "callback"}

\* The first entry whose active flag the compare-and-swap takes.
Free(i) == ~active[i] /\ \A j \in Index : j < i => active[j]

\* Register().  A null callback, a known key and a full table are refused.
Register(k) ==
  /\ TaskMayCall
  /\ ~Known(k)
  /\ \E i \in Index :
       /\ Free(i)
       /\ active' = [active EXCEPT ![i] = TRUE]
       /\ key' = [key EXCEPT ![i] = k]
       /\ onDead' = [onDead EXCEPT ![i] = TRUE]
       /\ age' = [age EXCEPT ![i] = 0]
       /\ health' = [health EXCEPT ![i] = "kAlive"]
  /\ subscribed' = subscribed \cup {k}
  /\ since' = [since EXCEPT ![k] = 0]
  /\ UNCHANGED <<initialised, scanVars, wait, beatVars>>

\* The stores that give entry i back.
Release(i) == /\ key' = [key EXCEPT ![i] = NoKey]
              /\ onDead' = [onDead EXCEPT ![i] = FALSE]
              /\ active' = [active EXCEPT ![i] = FALSE]

Deregister(k) ==
  /\ TaskMayCall
  /\ \E i \in Index : Holds(i, k) /\ Release(i)
  /\ subscribed' = subscribed \ {k}
  /\ UNCHANGED <<age, health, initialised, scanVars, wait, beatVars, since>>

-----------------------------------------------------------------------------
(* The maintenance task: ScanAndEvict().                                   *)

\* nowMs is read once.
ScanBegin == /\ initialised
             /\ spc = "idle"
             /\ spc' = "look"
             /\ pos' = 0
             /\ lag' = 0
             /\ wait' = 0
             /\ UNCHANGED <<entryVars, initialised, victim, cb, beatVars, ghostVars>>

\* Slip: no test for a heartbeat newer than nowMs; the unsigned difference
\* wraps to a huge age.
TooOldUnguarded(i, limit) == age[i] < lag \/ age[i] - lag > limit
\* lastBeatMs.load(): older than limit at nowMs.
TooOld(i, limit) == age[i] >= lag /\ age[i] - lag > limit

\* On to the next entry.
Advance == spc' = "look" /\ pos' = pos + 1

\* The entry is free or fresh.
ScanSkip == /\ spc = "look" /\ pos \in Index
            /\ ~(active[pos] /\ TooOld(pos, Interval))
            /\ Advance
            /\ UNCHANGED <<entryVars, initialised, lag, wait, victim, cb, beatVars, ghostVars>>

\* What lastBeatMs said: the subscriber is dead, or late.
ScanDecide == /\ spc = "look" /\ pos \in Index
              /\ active[pos] /\ TooOld(pos, Interval)
              /\ spc' = IF TooOld(pos, Dead) THEN "evict" ELSE "warn"
              /\ UNCHANGED <<entryVars, initialised, pos, lag, wait, victim, cb, beatVars,
                             ghostVars>>

ScanWarn == /\ spc = "warn"
            /\ health' = [health EXCEPT ![pos] = "kWarning"]
            /\ Advance
            /\ UNCHANGED <<key, onDead, age, active, initialised, lag, wait, victim, cb,
                           beatVars, ghostVars>>

\* Slip: the entry is cleared before the callback is copied.
ScanEvictClearFirst == /\ spc = "evict"
                       /\ health' = [health EXCEPT ![pos] = "kDead"]
                       /\ victim' = NoKey
                       /\ cb' = FALSE
                       /\ Release(pos)
                       /\ spc' = "call"
                       /\ UNCHANGED <<age, initialised, pos, lag, wait, beatVars, ghostVars>>
\* Slip: a dead subscriber is marked, its entry is not given back.
ScanEvictKeeps == /\ spc = "evict"
                  /\ health' = [health EXCEPT ![pos] = "kDead"]
                  /\ Advance
                  /\ UNCHANGED <<key, onDead, age, active, initialised, lag, wait, victim,
                                 cb, beatVars, ghostVars>>
\* The entry is marked, copied and given back before the callback runs.
ScanEvict == /\ spc = "evict"
             /\ health' = [health EXCEPT ![pos] = "kDead"]
             /\ victim' = key[pos]
             /\ cb' = onDead[pos]
             /\ Release(pos)
             /\ spc' = "call"
             /\ UNCHANGED <<age, initialised, pos, lag, wait, beatVars, ghostVars>>

\* cb(sid, eid), unless it is null.  While it runs it may use the table.
ScanCall == /\ spc = "call"
            /\ spc' = "callback"
            /\ subscribed' = IF cb THEN subscribed \ {victim} ELSE subscribed
            /\ UNCHANGED <<entryVars, initialised, pos, lag, wait, victim, cb, beatVars, since>>

ScanReturn == /\ spc = "callback"
              /\ Advance
              /\ victim' = NoKey
              /\ cb' = FALSE
              /\ UNCHANGED <<entryVars, initialised, lag, wait, beatVars, ghostVars>>

ScanEnd == /\ spc = "look" /\ pos = MaxSubs
           /\ spc' = "idle"
           /\ pos' = 0
           /\ lag' = 0
           /\ UNCHANGED <<entryVars, initialised, wait, victim, cb, beatVars, ghostVars>>

ScanAndEvict == \/ ScanBegin \/ ScanSkip \/ ScanDecide \/ ScanWarn \/ ScanEvict
                \/ ScanCall \/ ScanReturn \/ ScanEnd

-----------------------------------------------------------------------------
(* The heartbeat threads.                                                  *)

RecordHeartbeat(b, k) == /\ initialised
                         /\ bpc[b] = "idle"
                         /\ bpc' = [bpc EXCEPT ![b] = "find"]
                         /\ arg' = [arg EXCEPT ![b] = k]
                         /\ UNCHANGED <<entryVars, initialised, scanVars, wait, idx, ghostVars>>

Leave(b) == /\ bpc' = [bpc EXCEPT ![b] = "idle"]
            /\ arg' = [arg EXCEPT ![b] = NoKey]
            /\ idx' = [idx EXCEPT ![b] = 0]

\* FindIndex() looks at one entry after the other.
BeatFind(b) == /\ bpc[b] = "find" /\ idx[b] \in Index
               /\ IF Holds(idx[b], arg[b])
                  THEN bpc' = [bpc EXCEPT ![b] = "beat"] /\ UNCHANGED idx
                  ELSE idx' = [idx EXCEPT ![b] = @ + 1] /\ UNCHANGED bpc
               /\ UNCHANGED <<entryVars, initialised, scanVars, wait, arg, ghostVars>>

\* Slip: FindIndex()'s failure goes unnoticed and the walk wraps to entry 0.
BeatNotFoundIgnored(b) == /\ bpc[b] = "find" /\ idx[b] = MaxSubs
                          /\ bpc' = [bpc EXCEPT ![b] = "beat"]
                          /\ UNCHANGED <<entryVars, initialised, scanVars, wait, arg, idx,
                                         ghostVars>>
\* kServiceNotFound
BeatNotFound(b) == /\ bpc[b] = "find" /\ idx[b] = MaxSubs
                   /\ Leave(b)
                   /\ UNCHANGED <<entryVars, initialised, scanVars, wait, ghostVars>>

\* lastBeatMs.store(): the entry may meanwhile be free, or somebody else's.
\* A subscriber that was late once stays so until it registers again.
BeatStore(b) ==
  /\ bpc[b] = "beat"
  /\ age' = [age EXCEPT ![idx[b]] = 0]
  /\ since' = [k \in Key |->
       IF k = arg[b] /\ Holds(idx[b], k) /\ since[k] <= Dead THEN 0 ELSE since[k]]
  /\ bpc' = [bpc EXCEPT ![b] = "alive"]
  /\ UNCHANGED <<key, onDead, health, active, initialised, scanVars, wait, arg, idx,
                 subscribed>>

\* health.store(kAlive)
BeatAlive(b) == /\ bpc[b] = "alive"
                /\ health' = [health EXCEPT ![idx[b]] = "kAlive"]
                /\ Leave(b)
                /\ UNCHANGED <<key, onDead, age, active, initialised, scanVars, wait, ghostVars>>

Beat(b) == \/ \E k \in Key : RecordHeartbeat(b, k)
           \/ BeatFind(b) \/ BeatNotFound(b) \/ BeatStore(b) \/ BeatAlive(b)

-----------------------------------------------------------------------------
Next == \/ InitMonitor \/ Tick
        \/ \E k \in Key : Register(k) \/ Deregister(k)
        \/ ScanAndEvict
        \/ \E b \in Beater : Beat(b)

Spec == Init /\ [][Next]_vars

-----------------------------------------------------------------------------
(* Properties.                                                             *)

\* Entries and loop variables stay in range, and an entry has a key and a
\* callback exactly while it is active: no access is ever made to entry MaxSubs.
EntryTypeOK ==
  /\ key \in [Index -> Key \cup {NoKey}]
  /\ age \in [Index -> 0 .. MaxAge]
  /\ health \in [Index -> Health]
  /\ \A i \in Index : active[i] = (key[i] # NoKey) /\ onDead[i] = active[i]
  /\ pos \in 0 .. MaxSubs
  /\ \A b \in Beater : /\ idx[b] \in 0 .. MaxSubs
                       /\ bpc[b] \in {"beat", "alive"} => idx[b] \in Index
  /\ lag \in 0 .. MaxLag
  /\ wait \in 0 .. Period

\* ScanAndEvict() calls a subscriber dead only if more than kDeadTimeoutMs have
\* gone by, some time since it registered, without a heartbeat reaching its
\* entry: neither a reused entry's old time stamp nor a scan whose nowMs is
\* older than the heartbeat or the registration can cost it its place.
EvictedOnlyWhenDead == spc = "call" => since[victim] > Dead

\* Between scans the active entries are those of the subscribers that
\* registered and have neither been deregistered nor had their on-death
\* callback, one entry each: none is dropped without its callback and none
\* gets it and stays, even when callbacks register and deregister.
MonitoredExactly ==
  spc = "idle" =>
    /\ {key[i] : i \in {j \in Index : active[j]}} = subscribed
    /\ Cardinality({j \in Index : active[j]}) = Cardinality(subscribed)

\* An entry that no heartbeat refreshes is given back at the latest one period
\* and one scan after the timeout: the table cannot fill up with the dead.
SilentEvicted ==
  \A i \in Index : active[i] => age[i] <= Dead + Period + MaxLag

=============================================================================
