--------------------------- MODULE MCDeployTrigger ---------------------------
(* DeployTrigger with two overlapping calls by two users for TLC.          *)
EXTENDS DeployTrigger

CONSTANTS r1, r2

\* One restriction of the run besides EXECUTION and SERVICE_FROM.
MCBodies == {[LIMIT |-> "web"]}
\* Three of the five statuses of _ACTIVE_STATUSES.
MCLifecycle == <<"created", "pending", "running">>
MCSymmetry == Permutations(Requests)
=============================================================================
