------------------------- MODULE SensorFaultMonitor -------------------------
(***************************************************************************)
(* The per-domain health records of the safety arbitrator                  *)
(* (SafetyArbitrator.cpp, domains_[]) and everything that writes them:     *)
(* IngestFault() and RecordHeartbeat(), run by reporting threads, and      *)
(* ScanTimeouts() and UpdateBitmasks(), run by the safety loop.            *)
(*                                                                         *)
(* Each load or store of an atomic that another thread can interleave with *)
(* is a step of its own.  Two loads or stores are one step only where no   *)
(* interleaving between them can be observed: the load and the store of    *)
(* health in ScanTimeouts(), the two stores of the bitmasks.               *)
(*                                                                         *)
(* Time is relative: age[d] is now - lastHeartbeat of domain d and lag is  *)
(* now - nowMs of the scan in progress, so the clock never has to stop.    *)
(* faultCount is only ever compared with 0 and with kFaultThreshold and    *)
(* stands still there.  What Arbitrate() does after "compute" is in         *)
(* SafetyArbitrator.                                                       *)
(***************************************************************************)
EXTENDS DegradationMatrix, Integers

CONSTANTS
  Domain,        \* the domains of domains_[] that are modelled
  Timeout,       \* kSensorTimeoutMs, in ticks
  Period,        \* ticks between two cycles of the safety loop
  MaxLag,        \* ticks a cycle can last
  Reportable,    \* the health values that reports carry
  Reporter,      \* threads that call IngestFault() and RecordHeartbeat()
  SameThread     \* TRUE: reports are made by the safety loop between cycles

ASSUME DomainAssumption == Domain \subseteq AllDomains
ASSUME TimeAssumption == /\ Timeout \in Nat /\ Period \in Nat /\ MaxLag \in Nat
                         /\ Period > 0
ASSUME ThreadAssumption == SameThread \in BOOLEAN

VARIABLES
  health, age, faultCount,       \* DomainState: health, lastHeartbeat, faultCount
  faultBitmask, activeBitmask,   \* as sets of domains
  lpc, todo, cur, lag,           \* the safety loop: control, loop variable, nowMs
  faults, actives,               \* the locals of UpdateBitmasks()
  wait,                          \* ticks since the last cycle began
  lost,                          \* history: the domains silent or failed in this cycle
  rpc, rdom                      \* the reporters: control and domain

domVars  == <<health, age, faultCount>>
maskVars == <<faultBitmask, activeBitmask>>
loopVars == <<lpc, todo, cur, lag, faults, actives>>
repVars  == <<rpc, rdom>>
monVars  == <<domVars, maskVars, loopVars, wait, lost, repVars>>

\* enum class SensorHealth
Health == {"kNominal", "kDegraded", "kFailed", "kUnknown"}

ASSUME ReportAssumption == Reportable \subseteq Health

\* Domains a report can name: index < kNumSensorDomains, so never kInvalid.
Sensor == {d \in Domain : d < kInvalid}
NoDomain == kInvalid + 1

\* Ages above this are not told apart: still too old when a whole cycle's lag
\* is taken off.
MaxAge == Timeout + MaxLag + Period + 1

CountUp(n) == IF n < kFaultThreshold THEN n + 1 ELSE n

\* The state after Init(): nothing heard of yet, all timestamps fresh.
MonInit == /\ health = [d \in Domain |-> "kUnknown"]
           /\ age = [d \in Domain |-> 0]
           /\ faultCount = [d \in Domain |-> 0]
           /\ faultBitmask = {}
           /\ activeBitmask = Domain
           /\ lpc = "idle"
           /\ todo = {}
           /\ cur = kInvalid
           /\ lag = 0
           /\ faults = {}
           /\ actives = {}
           /\ wait = 0
           /\ lost = {}
           /\ rpc = [r \in Reporter |-> "idle"]
           /\ rdom = [r \in Reporter |-> NoDomain]

\* CLOCK_MONOTONIC.  The safety loop keeps its period and its time budget.
Tick == /\ wait < Period
        /\ lpc # "idle" => lag < MaxLag
        /\ wait' = wait + 1
        /\ lag' = IF lpc = "idle" THEN lag ELSE lag + 1
        /\ age' = [d \in Domain |-> IF age[d] < MaxAge THEN age[d] + 1 ELSE MaxAge]
        /\ lost' = IF lpc = "idle" THEN lost ELSE lost \cup {d \in Domain : age'[d] > Timeout}
        /\ UNCHANGED <<health, faultCount, maskVars, lpc, todo, cur, faults, actives,
                       repVars>>

-----------------------------------------------------------------------------
(* Reporters.                                                              *)

\* On the safety loop's own thread, a report and a cycle exclude each other.
MayReport(r) == SameThread => lpc = "idle" /\ \A q \in Reporter : rpc[q] = "idle"

GoTo(r, place) == rpc' = [rpc EXCEPT ![r] = place]

Leave(r) == GoTo(r, "idle") /\ rdom' = [rdom EXCEPT ![r] = NoDomain]

\* Slip: the index kInvalid is let through.
IngestFaultUnchecked(r, d, h) ==
  /\ rpc[r] = "idle"
  /\ MayReport(r)
  /\ health' = [health EXCEPT ![d] = h]
  /\ GoTo(r, IF h = "kNominal" THEN "clear" ELSE "accumulate")
  /\ rdom' = [rdom EXCEPT ![r] = d]
  /\ lost' = IF lpc # "idle" /\ h = "kFailed" THEN lost \cup {d} ELSE lost
  /\ UNCHANGED <<age, faultCount, maskVars, loopVars, wait>>
\* IngestFault(), also reached through IngestSoaEvent() and InjectFault().
\* A domain outside Sensor is refused and changes nothing.
IngestFault(r, d, h) ==
  /\ rpc[r] = "idle"
  /\ MayReport(r)
  /\ d \in Sensor
  /\ health' = [health EXCEPT ![d] = h]
  /\ GoTo(r, IF h = "kNominal" THEN "clear" ELSE "accumulate")
  /\ rdom' = [rdom EXCEPT ![r] = d]
  /\ lost' = IF lpc # "idle" /\ h = "kFailed" THEN lost \cup {d} ELSE lost
  /\ UNCHANGED <<age, faultCount, maskVars, loopVars, wait>>

\* faultCount.store(0)
IngestClear(r) == /\ rpc[r] = "clear"
                  /\ faultCount' = [faultCount EXCEPT ![rdom[r]] = 0]
                  /\ GoTo(r, "refresh")
                  /\ UNCHANGED <<health, age, maskVars, loopVars, wait, lost, rdom>>

\* lastHeartbeat.store(GetMonotonicMs())
IngestRefresh(r) == /\ rpc[r] = "refresh"
                    /\ age' = [age EXCEPT ![rdom[r]] = 0]
                    /\ Leave(r)
                    /\ UNCHANGED <<health, faultCount, maskVars, loopVars, wait, lost>>

\* faultCount.fetch_add(1)
IngestAccumulate(r) == /\ rpc[r] = "accumulate"
                       /\ faultCount' = [faultCount EXCEPT ![rdom[r]] = CountUp(@)]
                       /\ Leave(r)
                       /\ UNCHANGED <<health, age, maskVars, loopVars, wait, lost>>

RecordHeartbeat(r, d) ==
  /\ rpc[r] = "idle"
  /\ MayReport(r)
  /\ d \in Sensor
  /\ age' = [age EXCEPT ![d] = 0]
  /\ GoTo(r, "look")
  /\ rdom' = [rdom EXCEPT ![r] = d]
  /\ UNCHANGED <<health, faultCount, maskVars, loopVars, wait, lost>>

\* Slip: the domain recovers whatever its fault count.
HeartbeatAlwaysRecovers(r) ==
  /\ rpc[r] = "look"
  /\ GoTo(r, "recover")
  /\ UNCHANGED <<domVars, maskVars, loopVars, wait, lost, rdom>>
\* faultCount.load(): only a domain without a counted fault recovers.
HeartbeatLook(r) == /\ rpc[r] = "look"
                    /\ IF faultCount[rdom[r]] = 0
                       THEN GoTo(r, "recover") /\ UNCHANGED rdom
                       ELSE Leave(r)
                    /\ UNCHANGED <<domVars, maskVars, loopVars, wait, lost>>

\* health.store(kNominal)
HeartbeatRecover(r) == /\ rpc[r] = "recover"
                       /\ health' = [health EXCEPT ![rdom[r]] = "kNominal"]
                       /\ Leave(r)
                       /\ UNCHANGED <<age, faultCount, maskVars, loopVars, wait, lost>>

ReportStep(r) == \/ IngestClear(r) \/ IngestRefresh(r) \/ IngestAccumulate(r)
                 \/ HeartbeatLook(r) \/ HeartbeatRecover(r)

Report(r) == \/ \E d \in Domain, h \in Reportable : IngestFault(r, d, h)
             \/ \E d \in Domain : RecordHeartbeat(r, d)
             \/ ReportStep(r)

-----------------------------------------------------------------------------
(* The safety loop: the first two steps of Arbitrate().                    *)

\* The for loops visit the domains in ascending order.
First(d) == d \in todo /\ \A e \in todo : d <= e

\* ScanTimeouts(): nowMs is read once.
ScanBegin == /\ lpc = "idle"
             /\ SameThread => \A r \in Reporter : rpc[r] = "idle"
             /\ lpc' = "scan"
             /\ todo' = Domain
             /\ lag' = 0
             /\ wait' = 0
             /\ lost' = {d \in Domain : age[d] > Timeout \/ health[d] = "kFailed"}
             /\ UNCHANGED <<domVars, maskVars, cur, faults, actives, repVars>>

\* Slip: without the guard against a heartbeat newer than nowMs, the unsigned age
\* of such a domain is enormous.
ExpiredUnguarded(d) == age[d] < lag \/ age[d] - lag > Timeout
\* nowMs >= lastBeat and nowMs - lastBeat > kSensorTimeoutMs
Expired(d) == age[d] >= lag /\ age[d] - lag > Timeout

\* lastHeartbeat.load(), and what follows from it.
ScanDomain(d) == /\ lpc = "scan"
                 /\ First(d)
                 /\ IF Expired(d)
                    THEN lpc' = "promote" /\ cur' = d /\ UNCHANGED todo
                    ELSE todo' = todo \ {d} /\ UNCHANGED <<lpc, cur>>
                 /\ UNCHANGED <<domVars, maskVars, lag, faults, actives, wait, lost, repVars>>

\* Slip: only a nominal domain can time out.
ScanPromoteNominal ==
  /\ lpc = "promote"
  /\ IF health[cur] = "kNominal"
     THEN health' = [health EXCEPT ![cur] = "kFailed"] /\ lpc' = "count" /\ UNCHANGED todo
     ELSE lpc' = "scan" /\ todo' = todo \ {cur} /\ UNCHANGED health
  /\ UNCHANGED <<age, faultCount, maskVars, cur, lag, faults, actives, wait, lost, repVars>>
\* health.load() and, unless it is kFailed, health.store(kFailed).
ScanPromote == /\ lpc = "promote"
               /\ health' = [health EXCEPT ![cur] = "kFailed"]
               /\ IF health[cur] # "kFailed"
                  THEN lpc' = "count" /\ UNCHANGED todo
                  ELSE lpc' = "scan" /\ todo' = todo \ {cur}
               /\ UNCHANGED <<age, faultCount, maskVars, cur, lag, faults, actives, wait, lost,
                              repVars>>

\* faultCount.fetch_add(1)
ScanCount == /\ lpc = "count"
             /\ faultCount' = [faultCount EXCEPT ![cur] = CountUp(@)]
             /\ lpc' = "scan"
             /\ todo' = todo \ {cur}
             /\ UNCHANGED <<health, age, maskVars, cur, lag, faults, actives, wait, lost,
                            repVars>>

\* UpdateBitmasks() begins.
MaskBegin == /\ lpc = "scan"
             /\ todo = {}
             /\ lpc' = "mask"
             /\ todo' = Domain
             /\ faults' = {}
             /\ actives' = {}
             /\ cur' = kInvalid
             /\ UNCHANGED <<domVars, maskVars, lag, wait, lost, repVars>>

\* health.load() of one domain.
MaskDomain(d) == /\ lpc = "mask"
                 /\ First(d)
                 /\ faults' = IF health[d] = "kFailed" THEN faults \cup {d} ELSE faults
                 /\ actives' = IF health[d] = "kNominal" THEN actives \cup {d} ELSE actives
                 /\ todo' = todo \ {d}
                 /\ UNCHANGED <<domVars, maskVars, lpc, cur, lag, wait, lost, repVars>>

\* Slip: faults are only ever added to the published mask.
MaskSticky == /\ lpc = "mask"
              /\ todo = {}
              /\ faultBitmask' = faultBitmask \cup faults
              /\ activeBitmask' = actives
              /\ lpc' = "compute"
              /\ UNCHANGED <<domVars, todo, cur, lag, faults, actives, wait, lost, repVars>>
\* faultBitmask_.store(), activeBitmask_.store()
MaskStore == /\ lpc = "mask"
             /\ todo = {}
             /\ faultBitmask' = faults
             /\ activeBitmask' = actives
             /\ lpc' = "compute"
             /\ UNCHANGED <<domVars, todo, cur, lag, faults, actives, wait, lost, repVars>>

LoopStep == \/ ScanBegin
            \/ \E d \in Domain : ScanDomain(d) \/ MaskDomain(d)
            \/ ScanPromote \/ ScanCount \/ MaskBegin \/ MaskStore

-----------------------------------------------------------------------------
(* Properties.                                                             *)

\* Every record stays within its type; no report ever reaches the entry
\* kInvalid of domains_[], which IngestFault() and RecordHeartbeat() refuse.
MonTypeOK ==
  /\ health \in [Domain -> Health]
  /\ age \in [Domain -> 0 .. MaxAge]
  /\ faultCount \in [Domain -> 0 .. kFaultThreshold]
  /\ faultBitmask \subseteq Domain /\ activeBitmask \subseteq Domain
  /\ lpc \in {"idle", "scan", "promote", "count", "mask", "compute", "counts", "send",
              "commit"}
  /\ todo \subseteq Domain
  /\ cur \in Domain \cup {kInvalid}
  /\ lag \in 0 .. MaxLag
  /\ faults \subseteq Domain /\ actives \subseteq Domain
  /\ wait \in 0 .. Period /\ lost \subseteq Domain
  /\ rpc \in [Reporter -> {"idle", "clear", "refresh", "accumulate", "look", "recover"}]
  /\ rdom \in [Reporter -> Sensor \cup {NoDomain}]

\* Nobody is in the middle of writing the record of d.
Settled(d) == /\ d \notin {rdom[r] : r \in Reporter}
              /\ ~(lpc = "count" /\ cur = d)

\* A domain is nominal only without counted faults, and a domain known to be
\* degraded or failed has at least one: the pair of atomics that
\* RecordHeartbeat() relies on to decide about recovery tells one story.
HealthMatchesCount ==
  \A d \in Domain : Settled(d) =>
    /\ health[d] = "kNominal" => faultCount[d] = 0
    /\ health[d] \in {"kDegraded", "kFailed"} => faultCount[d] > 0

\* A silent domain is in the published fault mask at the latest one cycle and
\* one period after its heartbeat timed out.
SilenceDetected ==
  \A d \in Domain : age[d] > Timeout + Period + MaxLag => d \in faultBitmask

\* The degradation matrix decides on the present: the published fault mask is
\* the set of domains that are failed at that moment.
MaskIsCurrent ==
  lpc \in {"compute", "counts"} => faultBitmask = {d \in Domain : health[d] = "kFailed"}

\* A domain that is alive throughout a cycle is not in the fault mask on which
\* the cycle decides, although its heartbeats race the scan and may be newer than
\* the clock the scan has read: who is in the mask was failed or silent when the
\* cycle began, or has fallen silent or been reported failed since.
MaskJustified ==
  lpc \in {"compute", "counts"} => faultBitmask \subseteq lost

\* A domain that falls silent for good, with no further report about it, is in
\* the end in the fault mask and stays there.
SilenceEventuallyFails ==
  \A d \in Domain :
    <>[](age[d] > Timeout /\ Settled(d)) => <>[](d \in faultBitmask)

=============================================================================
