---------------------------- MODULE MCRunnerQueue ----------------------------
(* RunnerQueue on two keys, one of which gets two jobs. *)
EXTENDS RunnerQueue

CONSTANTS kA, kB, j1, j2, j3

MCKeys  == {kA, kB}
MCJobs  == {j1, j2, j3}
MCKeyOf == [j \in MCJobs |-> IF j = j3 THEN kB ELSE kA]
===============================================================================
