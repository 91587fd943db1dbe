---------------------------- MODULE MCAgentLease ----------------------------
(* Two INVOKE jobs and a step command over a pool of one or two slots. *)
EXTENDS AgentLease

CONSTANTS i1, i2, c1

MCAttempts == {i1, i2, c1}
MCInvokes == {i1, i2}
MCCaps == {1, 2}
=============================================================================
