CONSTANTS
    A = A  B = B  C = C  X = X  W = W  S = S  main = main
    Drops <- MCDrops
    Apps <- MCApps
    StreamApps <- MCStreamApps
    StreamingConsumers <- MCStreamingConsumers
    Drivers <- MCDrivers
    Inputs <- MCInputs
    Outputs <- MCOutputs
    External = {}
    ExpectedSize <- MCExpectedSize
    ChunkSizes = {2}
    MaxWrites = 1
    MaxRunWrites <- MCRunWrites
    MaxExecs = 2
SPECIFICATION Spec
INVARIANT TypeOK StreamEndsLast ExecOnce RunsAfterInputs CompletesAfterProducers
PROPERTY DataflowRefined
