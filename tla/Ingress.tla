------------------------------ MODULE Ingress -------------------------------
(***************************************************************************)
(* The security gates of the inbound pipeline (docs/architecture.md,       *)
(* section 4) as the network thread runs them: HseAdapter::VerifyMac(),    *)
(* then IamSecurityController::Authorise(), then the event is published.   *)
(* The code that calls the gates one after the other is not in this        *)
(* repository and is external; the gates and their state are the modules   *)
(* this one extends.  The HSE, the diagnostic task that drains the audit   *)
(* log and the configuration of roles and policies run beside it.          *)
(***************************************************************************)
EXTENDS HseAdapter, IamSecurityController

VARIABLES
  stage,    \* where the network thread is: idle, verify, authorise, audit
  frame,    \* the frame it holds: what it demands
  passed    \* what the last frame that passed all gates demanded, if any

gateVars == <<stage, frame, passed>>
vars == <<hseVars, iamVars, gateVars>>

Frame == [demand : Demand]
NoFrame == [none |-> TRUE]

Init == HseInit /\ IamInit /\ stage = "idle" /\ frame = NoFrame /\ passed = {}

Receive(f) == /\ stage = "idle"
              /\ VerifyMac
              /\ stage' = "verify" /\ frame' = f
              /\ UNCHANGED <<iamVars, passed>>

\* The other operations of the adapter, between two frames.
OtherCall == /\ stage = "idle"
             /\ GenerateMac \/ GenerateRandom \/ VerifyCertificate
             /\ UNCHANGED <<iamVars, gateVars>>

\* VerifyMac() has returned; anything but Ok drops the frame.
Verified == /\ stage = "verify" /\ call.pc = "idle"
            /\ IF result.code = "Ok" THEN stage' = "authorise" /\ UNCHANGED frame
                                     ELSE stage' = "idle" /\ frame' = NoFrame
            /\ UNCHANGED <<hseVars, iamVars, passed>>

Authorised == /\ stage = "authorise"
              /\ Authorise(frame.demand)
              /\ stage' = "audit"
              /\ UNCHANGED <<hseVars, frame, passed>>

\* Authorise() returns; a grant sends the frame on.
Audited == /\ stage = "audit"
           /\ AuditPublish
           /\ stage' = "idle" /\ frame' = NoFrame
           /\ passed' = IF auditLog[auditHead].result = "kGranted"
                        THEN {frame.demand} ELSE passed
           /\ UNCHANGED hseVars

NetworkStep == \/ AdapterStep /\ UNCHANGED <<iamVars, gateVars>>
               \/ Verified \/ Authorised \/ Audited

Hse == HseBoot \/ HseAnswer

Next == \/ NetworkStep
        \/ InitBegin /\ UNCHANGED <<iamVars, gateVars>>
        \/ \E f \in Frame : Receive(f)
        \/ OtherCall
        \/ Hse /\ UNCHANGED <<iamVars, gateVars>>
        \/ ((\E r \in Role : RegisterRole(r)) \/ (\E p \in Policy : AddPolicy(p))
              \/ DrainCopy \/ DrainAdvance) /\ UNCHANGED <<hseVars, gateVars>>

\* The network thread runs; nothing is assumed of the HSE.
Spec == Init /\ [][Next]_vars /\ WF_vars(NetworkStep)

-----------------------------------------------------------------------------
(* Properties.                                                             *)

\* Both components' types, and the thread is where their states say it is.
IngressTypeOK ==
  /\ HseTypeOK /\ IamTypeOK
  /\ stage \in {"idle", "verify", "authorise", "audit"}
  /\ frame \in Frame \cup {NoFrame}
  /\ passed \subseteq Demand
  /\ frame = NoFrame <=> stage = "idle"
  /\ writing <=> stage = "audit"
  /\ stage \in {"authorise", "audit"} => call.pc = "idle"

\* A frame comes to the access check only when the HSE answered kOk to the
\* request to verify this frame (with the exception OkMeansAnswered names), and
\* what a frame that went through demanded is allowed by the policies of that
\* time and of any later time: the table only grows at its end and the first
\* match decides.
PassedLegitimately ==
  /\ stage \in {"authorise", "audit"} =>
       result.op = "kMacVerify" /\ (result.verdict = "kOk" \/ result.behind)
  /\ \A q \in passed : Decision(q) = "kGranted"
=============================================================================
