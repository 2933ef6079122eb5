CONSTANTS
    r1 = r1  r2 = r2  r3 = r3  w1 = w1  c1 = c1  s1 = s1  s2 = s2  s3 = s3  userChecksum = userChecksum
    NoThread = NoThread
    Readers = {r1, r2}
    Writers = {w1}
    Completers = {}
    MaxReads = 1
    Setters = {s1, s2, s3}
    SetterAttr <- MCSetterAttr
    ChunkLen = 2
    UserSize = 5
    UserChecksum = userChecksum
    UserChecksumType = "md5"
    NoValue = NoValue
SPECIFICATION Spec
INVARIANT TypeOK CountsOpenReaders
PROPERTY CountReturnsToZero
