------------------------------ MODULE MCLocks ------------------------------
EXTENDS Locks, TLC

\* Three of the five classes: CONFIG_LOCK, JOB_LOCK, NODE_LOCK.
MCEntity == 0..2

Levels(config, job, node) == 0 :> config @@ 1 :> job @@ 2 :> node

\* lock_slurmctld_t values of the agent, the job manager and the node manager.
MCRequests ==
    {Levels("READ_LOCK", "WRITE_LOCK", "WRITE_LOCK"),
     Levels("NO_LOCK", "WRITE_LOCK", "NO_LOCK"),
     Levels("NO_LOCK", "READ_LOCK", "READ_LOCK"),
     Levels("NO_LOCK", "NO_LOCK", "WRITE_LOCK")}
=============================================================================
