\* A reader in the middle of Feed when the workers stop.
SPECIFICATION Spec
CONSTANTS
    s1 = s1
    s2 = s2
    s3 = s3
    NumWorkers = 1
    QueueSize = 1
    Streams <- OneStream
    StreamID <- OneStreamID
    MaxPackets = 4
CHECK_DEADLOCK FALSE
PROPERTY ReaderStops
