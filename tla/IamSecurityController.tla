----------------------- MODULE IamSecurityController -----------------------
(***************************************************************************)
(* IamSecurityController.cpp: a table of policies that only grows, a       *)
(* decision by the first policy that matches, and the ring in which every  *)
(* decision waits for the diagnostic task.  Authorise() runs on one thread *)
(* here, DrainAuditLog() on another.                                       *)
(***************************************************************************)
EXTENDS Naturals, Sequences, SequencesExt

CONSTANTS
  Demand,        \* what is asked for: records of principalId, serviceId, methodId
                 \* and action, a set of the bits of AccessAction
  Policy,        \* policies that are added: the same with allowed for action
  kAnyMethod,    \* the method 0xFFFF of a policy
  MaxPolicies,   \* kMaxPolicies
  Role,          \* roleIds that are registered
  MaxRoles,      \* kMaxRoles
  AuditSlots     \* kMaxAuditLogEntries

ASSUME IamAssumption == /\ {MaxPolicies, MaxRoles} \subseteq Nat
                        /\ AuditSlots \in Nat \ {0, 1}

VARIABLES
  roles,                 \* roles_[], up to roleCount_
  policies,              \* policies_[], up to policyCount_
  auditLog,              \* auditLog_[]
  auditHead, auditTail,  \* auditHead_, auditTail_
  writing,               \* an entry is in its slot and auditHead_ not yet moved
  drain,                 \* DrainAuditLog(): pc and the entry copied last
  undrained,             \* history: decisions made and not drained
  overrun                \* history: AuditSlots of them at once, ever

iamVars == <<roles, policies, auditLog, auditHead, auditTail, writing, drain,
             undrained, overrun>>

Blank == [result |-> "kDenied"]
Entry == [demand : Demand, result : {"kGranted", "kDenied"}]

\* The state after Init().
IamInit == /\ roles = {} /\ policies = <<>>
           /\ auditLog = [s \in 0 .. AuditSlots - 1 |-> Blank]
           /\ auditHead = 0 /\ auditTail = 0
           /\ writing = FALSE
           /\ drain = [pc |-> "idle", entry |-> Blank]
           /\ undrained = <<>> /\ overrun = FALSE

\* Slip: the last slot is never used, although the reader counts on it.
AuditNextShort(i) == (i + 1) % (AuditSlots - 1)
AuditNext(i) == (i + 1) % AuditSlots

\* A role that is registered and a full table are refused.  No decision looks at
\* the roles.
RegisterRole(r) ==
  /\ Cardinality(roles) < MaxRoles
  /\ roles' = roles \cup {r}
  /\ UNCHANGED <<policies, auditLog, auditHead, auditTail, writing, drain, undrained,
                 overrun>>

\* Slip: a new policy goes before the others.
AddPolicyFirst(p) ==
  /\ Len(policies) < MaxPolicies
  /\ policies' = <<p>> \o policies
  /\ UNCHANGED <<roles, auditLog, auditHead, auditTail, writing, drain, undrained, overrun>>
AddPolicy(p) ==
  /\ Len(policies) < MaxPolicies
  /\ policies' = Append(policies, p)
  /\ UNCHANGED <<roles, auditLog, auditHead, auditTail, writing, drain, undrained, overrun>>

\* The policies that match a demand.
Matching(q) == {i \in DOMAIN policies :
  /\ policies[i].principalId = q.principalId
  /\ policies[i].serviceId = q.serviceId
  /\ policies[i].methodId \in {kAnyMethod, q.methodId}}

\* The first match decides; HasAction() is true of any bit in common.
Decision(q) ==
  IF Matching(q) # {} /\ policies[Min(Matching(q))].allowed \cap q.action # {}
  THEN "kGranted" ELSE "kDenied"

\* Authorise() to the point where AppendAuditEntry() has filled the slot at
\* auditHead_, which it does without asking whether there is room.
Authorise(q) ==
  /\ ~writing
  /\ LET entry == [demand |-> q, result |-> Decision(q)] IN
     /\ auditLog' = [auditLog EXCEPT ![auditHead] = entry]
     /\ undrained' = IF overrun THEN <<>> ELSE Append(undrained, entry)
  /\ writing' = TRUE
  /\ UNCHANGED <<roles, policies, auditHead, auditTail, drain, overrun>>

\* auditHead_.store(nextHead)
AuditPublish ==
  /\ writing
  /\ writing' = FALSE
  /\ auditHead' = AuditNext(auditHead)
  /\ overrun' = (overrun \/ Len(undrained) = AuditSlots)
  /\ undrained' = IF overrun' THEN <<>> ELSE undrained
  /\ UNCHANGED <<roles, policies, auditLog, auditTail, drain>>

\* DrainAuditLog(), one entry: nothing is there when the indices agree.
DrainCopy == /\ drain.pc = "idle" /\ auditTail # auditHead
             /\ drain' = [pc |-> "advance", entry |-> auditLog[auditTail]]
             /\ UNCHANGED <<roles, policies, auditLog, auditHead, auditTail, writing,
                            undrained, overrun>>

\* auditTail_.store(nextTail)
DrainAdvance == /\ drain.pc = "advance"
                /\ drain' = [pc |-> "idle", entry |-> Blank]
                /\ auditTail' = AuditNext(auditTail)
                /\ undrained' = IF undrained = <<>> THEN <<>> ELSE Tail(undrained)
                /\ UNCHANGED <<roles, policies, auditLog, auditHead, writing, overrun>>

IamTypeOK ==
  /\ roles \subseteq Role /\ Cardinality(roles) <= MaxRoles
  /\ policies \in SeqOf(Policy, MaxPolicies)
  /\ auditLog \in [0 .. AuditSlots - 1 -> Entry \cup {Blank}]
  /\ {auditHead, auditTail} \subseteq 0 .. AuditSlots - 1
  /\ writing \in BOOLEAN /\ overrun \in BOOLEAN
  /\ drain \in [pc : {"idle", "advance"}, entry : Entry \cup {Blank}]
  /\ undrained \in SeqOf(Entry, AuditSlots)

\* The trail is complete: what the diagnostic task copies is the oldest decision
\* not yet drained, and none is lost or torn, until AuditSlots decisions wait at
\* once; from then on the ring, which has no test for room, has lost some.
AuditExact ==
  ~overrun => /\ drain.pc = "advance" => drain.entry = Head(undrained)
              /\ \A i \in DOMAIN undrained :
                   auditLog[(auditTail + i - 1) % AuditSlots] = undrained[i]
              /\ auditHead = (auditTail + Len(undrained) - (IF writing THEN 1 ELSE 0))
                               % AuditSlots
=============================================================================
