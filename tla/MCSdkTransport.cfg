CONSTANTS
    BatchMax = 2
    QueueMax = 3
    MaxRetries = 2
    MaxSubmits = 6
SPECIFICATION SdkFairSpec
INVARIANTS Conservation
PROPERTIES FirstPostInOrder CloseDrains CloseTerminates BufferedLeaves ImplementsQueue
