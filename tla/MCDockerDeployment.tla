------------------------- MODULE MCDockerDeployment -------------------------
(* Instance of DockerDeployment for TLC.                                    *)
EXTENDS DockerDeployment, TLC

CONSTANTS n1, n2, n3, n4

MCThree == {n1, n2, n3}
MCFour == {n1, n2, n3, n4}
MCAnyReplicas == {-1, 1, 2}
MCLiveReplicas == {-1, 0, 1}

\* Names are interchangeable where no temporal property is checked.
NameSymmetry == Permutations(Names)
=============================================================================
