SPECIFICATION Spec
CONSTANTS
    LowerCase <- MCLowerCase
    Numbers <- MCNumbers
    RandomLen = 1
    IsDNS <- MCIsDNS
    DNSUDPInvalidCountThreshold = 2
    OpenVPNMinPktLen = 2
    PktLimit = 3
    RememberedIndexCount = 4
    WireGuardInvalidCountThreshold = 2
    LongLivedThreshold = 30
    IsTrojanSeq <- MCIsTrojanSeq
    QUICInvalidCountThreshold = 3
    Hello <- MCHello
    Conversations <- MCConversations
    ChunkSizes <- MCChunkSizes
    PacketsOf <- MCPacketsOf
    MaxPackets <- MCMaxPackets
INVARIANTS ReportsTrue CutsDecideNothing CountsTrue
CHECK_DEADLOCK FALSE
