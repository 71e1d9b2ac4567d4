---------------------------- MODULE MCAgentJobs ----------------------------
(* Instances of AgentJobs for TLC. *)
EXTENDS AgentJobs
=============================================================================
