CONSTANTS
    A = A  B = B  C = C  X = X  S = S  writer = writer  completer = completer
    Drops <- MCDrops
    Apps <- MCApps
    StreamApps <- MCStreamApps
    StreamingConsumers <- MCStreamingConsumers
    Drivers <- MCDrivers
    Inputs <- MCInputs
    Outputs <- MCOutputs
    External = {}
    ExpectedSize <- MCExpectedSize
    ChunkSizes = {1}
    MaxWrites = 1
    MaxRunWrites <- MCRunWrites
    MaxExecs = 2
SPECIFICATION Spec
INVARIANT RunsAfterInputs
