----------------------------- MODULE MCAgentRpc -----------------------------
(***************************************************************************)
(* Requests for AgentRpc: a request with replies goes to one group whose   *)
(* first node forwards it, a request without goes to every node directly.  *)
(***************************************************************************)
EXTENDS AgentRpc

CONSTANTS n1, n2, n3, n4

Ask(type, retries, groups) == [msg_type |-> type, retry |-> retries, nodelist |-> groups]

MCNodes == {n1, n2, n3, n4}

MCRequests ==
    {Ask("REQUEST_PING", 0, <<{n1, n2}>>),
     Ask("REQUEST_TERMINATE_JOB", 0, <<{n1, n2}>>),
     Ask("REQUEST_SIGNAL_TASKS", 1, <<{n1, n2}>>),
     Ask("REQUEST_BATCH_JOB_LAUNCH", 0, <<{n1}>>),
     Ask("REQUEST_RECONFIGURE", 0, <<{n1}, {n2}, {n3}, {n4}>>),
     Ask("SRUN_PING", 0, <<{n1}>>),
     Ask("SRUN_TIMEOUT", 0, <<{n1}>>),
     Ask("RESPONSE_RESOURCE_ALLOCATION", 0, <<{n1}>>)}
=============================================================================
