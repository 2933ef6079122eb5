CONSTANTS
    A = A  B = B  C = C  E = E  F = F  X = X  Y = Y  Z = Z  main = main
    Drops <- MCDrops
    Apps <- MCApps
    StreamApps <- MCStreamApps
    StreamingConsumers <- MCStreamingConsumers
    Drivers <- MCDrivers
    Inputs <- MCInputs
    Outputs <- MCOutputs
    External = {}
    ExpectedSize <- MCExpectedSize
    ChunkSizes = {1}
    MaxWrites = 1
    MaxRunWrites <- MCRunWrites
    MaxExecs = 2
SPECIFICATION Spec
INVARIANT ExecOnce
