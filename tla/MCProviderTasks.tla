--------------------------- MODULE MCProviderTasks ---------------------------
(* Small instances of ProviderTasks. *)
EXTENDS ProviderTasks, TLC

CONSTANTS w1, w2, t1, t2

\* A rolling deploy, and replicas of one release.
RollingDeploy == [w \in Workers |-> IF w = w1 THEN 1 ELSE 2]
OneRelease == [w \in Workers |-> 1]

NoWake == {{}}
MayWake == {{}, {t2}}
=============================================================================
