\* Packets from the reader to their verdicts, the shutdown and the end of a file.
SPECIFICATION Spec
CONSTANTS
    s1 = s1
    s2 = s2
    s3 = s3
    NumWorkers = 2
    QueueSize = 1
    Streams <- FlowStreams
    StreamID <- FlowStreamID
    MaxPackets = 4
CHECK_DEADLOCK FALSE
PROPERTIES
    FlowSpec
    Shutdown
    ReplayEnds
