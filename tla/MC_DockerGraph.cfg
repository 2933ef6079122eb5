CONSTANTS
    P = P  Q = Q  R = R
    idP = idP  idQ = idQ  idR = idR
    ip1 = ip1  ip2 = ip2  ip3 = ip3
    s = s  x = x  y = y  z = z
    NoIp = NoIp  NoAttr = NoAttr
    DockerApps <- MCDockerApps
    Ids = {idP, idQ, idR}
    Uid <- MCOid
    Oid <- MCOid
    Placeholders <- MCPlaceholders
    InterestOrder <- MCInterestOrder
    Ip <- MCIp
    Ips <- MCIps
    DockerErrors = {"create", "start", "inspect", "wait"}
    ExitCodes = {0, 1}
    RemoveContainer <- MCRemoveContainer
    Drops = {s, x, y, z}
    Inputs <- MCInputs
    Outputs <- MCOutputs
SPECIFICATION GraphSpec
INVARIANT GraphTypeOK IpResolvedBeforeCreate
PROPERTY AppsEnd
