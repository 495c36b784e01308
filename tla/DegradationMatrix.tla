-------------------------- MODULE DegradationMatrix -------------------------
(***************************************************************************)
(* The pure part of the safety arbitrator (SafetyArbitrator.cpp): which    *)
(* safe state a set of failed sensor domains calls for, the limits that go *)
(* with it and the domain a transition is attributed to.                   *)
(*                                                                         *)
(* A bitmask of domains is the set of the domains whose bit is set; safe   *)
(* states and domains are the numbers of their enumerators.                *)
(***************************************************************************)
EXTENDS Naturals

\* enum class SensorDomain
kLidar   == 0
kRadar   == 1
kCamera  == 2
kGnss    == 3
kImu     == 4
kInvalid == 7

AllDomains == 0 .. kInvalid

\* enum class SafeState, in order of severity
kFullOperation        == 0
kRadarCameraFallback  == 1
kLidarCameraFallback  == 2
kLidarRadarFallback   == 3
kDeadReckoningMode    == 4
kReducedDynamics      == 5
kMinimalRiskCondition == 6
kEmergencyStop        == 7

SafeState == kFullOperation .. kEmergencyStop

\* static constexpr std::uint8_t kFaultThreshold
kFaultThreshold == 3

\* A mandatory domain is lost and a mandatory domain, not necessarily the same
\* one, has reached the threshold.
MandatoryLoss(faults, mandatory, faultCount) ==
  /\ faults \cap mandatory # {}
  /\ \E d \in mandatory : faultCount[d] >= kFaultThreshold

\* The states are tried in this order; the first that applies is required.
ComputeRequiredState(faults, mandatory, faultCount) ==
  IF {kLidar, kRadar} \subseteq faults \/ MandatoryLoss(faults, mandatory, faultCount)
    THEN kMinimalRiskCondition ELSE
  IF kLidar \in faults  THEN kRadarCameraFallback ELSE
  IF kRadar \in faults  THEN kLidarCameraFallback ELSE
  IF kCamera \in faults THEN kLidarRadarFallback ELSE
  IF kGnss \in faults /\ kImu \notin faults THEN kDeadReckoningMode ELSE
  IF kImu \in faults    THEN kReducedDynamics
                        ELSE kFullOperation

\* The switch of ExecuteTransition(): the speed limit sent with a state ...
MaxSpeedKph(state) ==
  CASE state = kFullOperation -> 130
    [] state \in {kRadarCameraFallback, kLidarCameraFallback} -> 100
    [] state \in {kLidarRadarFallback, kDeadReckoningMode, kReducedDynamics} -> 30
    [] state = kMinimalRiskCondition -> 20
    [] OTHER -> 0

\* ... and the deceleration limit, in percent of kMaxLongitudinalDecelMps2.
MaxDecelPercent(state) ==
  CASE state = kDeadReckoningMode -> 70
    [] state = kReducedDynamics -> 50
    [] state = kMinimalRiskCondition -> 30
    [] OTHER -> 100

\* The domain of the lowest fault bit, kInvalid if there is none.
Trigger(faults) ==
  IF faults = {} THEN kInvalid
  ELSE CHOOSE d \in faults : \A e \in faults : d <= e
=============================================================================
