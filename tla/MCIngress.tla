------------------------------ MODULE MCIngress -----------------------------
(* A demand, and policies that forbid it, allow it and do not concern it.   *)
EXTENDS Ingress

Ask(method, action) ==
  [principalId |-> "orin", serviceId |-> "brake", methodId |-> method, action |-> action]
Demands == {Ask(1, {"kRead", "kWrite"})}

Allow(who, method, bits) ==
  [principalId |-> who, serviceId |-> "brake", methodId |-> method, allowed |-> bits]
Policies == {Allow("orin", 1, {}), Allow("orin", kAnyMethod, {"kRead"}),
             Allow("other", 1, {"kRead", "kWrite"})}
=============================================================================
