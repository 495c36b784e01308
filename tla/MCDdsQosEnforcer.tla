-------------------------- MODULE MCDdsQosEnforcer --------------------------
(* More topics than rows, deadlines of zero and one tick and none at all.    *)
EXTENDS DdsQosEnforcer

\* Only their order of registration distinguishes topics.
Topics == Permutations(Topic)
=============================================================================
