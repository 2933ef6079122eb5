CONSTANTS
    P = P  Q = Q  R = R
    idP = idP  idQ = idQ  idR = idR  uidP = uidP  uidQ = uidQ  uidR = uidR
    ip1 = ip1  ip2 = ip2  ip3 = ip3
    NoIp = NoIp  NoAttr = NoAttr
    DockerApps <- MCDockerApps
    Ids = {idP, idQ, idR, uidP, uidQ, uidR}
    Uid <- OtherUid
    Oid <- MCOid
    Placeholders <- MCPlaceholders
    InterestOrder <- MCInterestOrder
    Ip <- MCIp
    Ips <- MCIps
    DockerErrors = {"create", "start", "inspect", "wait"}
    ExitCodes = {0, 1}
    RemoveContainer <- MCRemoveContainer
SPECIFICATION Spec
INVARIANT IpResolvedBeforeCreate
