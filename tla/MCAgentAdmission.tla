--------------------------- MODULE MCAgentAdmission ---------------------------
(* A small instance of AgentAdmission: two requesters of one tenant. *)
EXTENDS AgentAdmission

CONSTANTS q1, q2, n1, j1, j2

MCTenantOf == [q \in Requester |-> n1]
MCOwnerOf == [j \in Job |-> IF j = j1 THEN q1 ELSE q2]
=============================================================================
