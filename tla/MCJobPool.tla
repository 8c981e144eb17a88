----------------------------- MODULE MCJobPool -----------------------------
(* Instances of JobPool: one or two replicas, agent and pipeline jobs.      *)
EXTENDS JobPool, TLC

CONSTANTS j1, j2, j3, w1, w2, r1, r2

OneJob == {j1}
TwoJobs == {j1, j2}
ThreeJobs == {j1, j2, j3}
OneWorker == {w1}
TwoWorkers == {w1, w2}

\* The first job runs a pipeline, the others an agent.
OnePipeline == [j \in Jobs |-> IF j = j1 THEN "pipeline" ELSE "agent"]
AllAgents == [j \in Jobs |-> "agent"]

OneReplica == {r1}
TwoReplicas == {r1, r2}
HomeOne == [w \in Workers |-> r1]
HomeTwo == [w \in Workers |-> IF w = w1 THEN r1 ELSE r2]
=============================================================================
