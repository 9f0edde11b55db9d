-------------------------- MODULE MCDockerContainer --------------------------
(* Instance of DockerContainer: specs that differ in the image or in the      *)
(* Secrets they mount, and one configuration somebody else may run under the  *)
(* container's name.                                                          *)
EXTENDS DockerContainer

MCImageCmd == [i \in {"v1", "v2"} |-> <<>>]
MCImageEnv == [i \in {"v1", "v2"} |-> {}]

SpecOf(image, volumes) ==
  [image |-> image, command |-> <<>>, env |-> {}, envVars |-> {},
   restartPolicy |-> "always", resources |-> None, ports |-> <<>>, rest |-> None,
   secretVolumes |-> volumes]

MCSpecs == {SpecOf("v1", {}), SpecOf("v2", {})}
MCSecretSpecs == {SpecOf("v1", {}), SpecOf("v1", {"tls", "key"}), SpecOf("v2", {"tls"})}
MCVault == <<>>
MCFound == {createConfig(SpecOf("v2", {}), MCVault)}
=============================================================================
