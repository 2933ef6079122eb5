--------------------------- MODULE MC_DockerGraph ---------------------------
(* The DockerApps of MC_Docker in a graph: s -> P -> x -> R -> z and       *)
(* s -> Q -> y.  Q's command names P's address and R's names Q's and P's,  *)
(* so every waited-for peer is started by the DROPs before or beside the   *)
(* app that waits.                                                         *)
EXTENDS DockerGraph

CONSTANTS P, Q, R, idP, idQ, idR, ip1, ip2, ip3, s, x, y, z

MCDockerApps == {P, Q, R}
MCIps == {ip1, ip2, ip3}
MCIp == [a \in MCDockerApps |-> CASE a = P -> ip1 [] a = Q -> ip2 [] OTHER -> ip3]
MCOid == [a \in MCDockerApps |-> CASE a = P -> idP [] a = Q -> idQ [] OTHER -> idR]
MCPlaceholders == [a \in MCDockerApps |->
                     CASE a = Q -> {idP} [] a = R -> {idQ, idP} [] OTHER -> {}]
MCInterestOrder == [a \in MCDockerApps |->
                      CASE a = P -> <<Q, R>> [] a = Q -> <<P, R>> [] OTHER -> <<Q, P>>]
MCRemoveContainer == [a \in MCDockerApps |-> a # Q]
MCInputs  == [a \in MCDockerApps |-> CASE a = R -> {x} [] OTHER -> {s}]
MCOutputs == [a \in MCDockerApps |-> CASE a = P -> {x} [] a = Q -> {y} [] OTHER -> {z}]
=============================================================================
