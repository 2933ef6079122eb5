----------------------------- MODULE MC_Docker -----------------------------
(* Three DockerApps: Q's command names P's address, R's names Q's and P's.  *)
(* MC_DockerLeak.cfg gives every app its uid as oid, as the tests construct *)
(* them; MC_DockerOid.cfg gives them distinct oids and uids.                *)
EXTENDS DockerApp

CONSTANTS P, Q, R, idP, idQ, idR, uidP, uidQ, uidR, ip1, ip2, ip3

MCDockerApps == {P, Q, R}
MCIps == {ip1, ip2, ip3}
MCIp == [a \in MCDockerApps |-> CASE a = P -> ip1 [] a = Q -> ip2 [] OTHER -> ip3]
MCOid == [a \in MCDockerApps |-> CASE a = P -> idP [] a = Q -> idQ [] OTHER -> idR]
SameUid == MCOid
OtherUid == [a \in MCDockerApps |-> CASE a = P -> uidP [] a = Q -> uidQ [] OTHER -> uidR]
\* commands written with oids, as the class documentation asks
MCPlaceholders == [a \in MCDockerApps |->
                     CASE a = Q -> {idP} [] a = R -> {idQ, idP} [] OTHER -> {}]
\* the deployment calls handleInterest of every app for every other app
MCInterestOrder == [a \in MCDockerApps |->
                      CASE a = P -> <<Q, R>> [] a = Q -> <<P, R>> [] OTHER -> <<Q, P>>]
MCRemoveContainer == [a \in MCDockerApps |-> a # Q]
=============================================================================
