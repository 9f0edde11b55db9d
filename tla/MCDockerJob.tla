---------------------------- MODULE MCDockerJob ----------------------------
(* Instance of DockerJob for TLC; the configurations give the job's spec.   *)
EXTENDS DockerJob
=============================================================================
