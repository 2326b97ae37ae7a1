----------------------------- MODULE MCGateway -----------------------------
(* A small instance of the processes around the scaler. *)
EXTENDS Gateway, TLC

CONSTANT HighCPU  \* the jobs that Classify gives the profile "high-cpu"

MCProfiles == {"high-cpu", "low-cpu"}

MCProfileOf == [j \in Jobs |-> IF j \in HighCPU THEN "high-cpu" ELSE "low-cpu"]

MCRunnerNames ==
  {<<MCProfileOf[j], j>> : j \in Jobs}
    \cup {<<DefaultProfile, <<"reconcile", i>>>> : i \in 0..Cardinality(Jobs)}

IPSymmetry == Permutations(IPs)
=============================================================================
