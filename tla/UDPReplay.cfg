\* Drop and modify answers on streams that need no more inspection.
SPECIFICATION Spec
CONSTANTS
    f1 = f1
    f2 = f2
    f3 = f3
    f4 = f4
    i1 = i1
    i2 = i2
    i3 = i3
    dns = dns
    quic = quic
    rOld = rOld
    rNew = rNew
    NoStream = NoStream
    Flows <- MCFlows
    StreamIDs <- MCIDs
    IDOf <- MCIDOf
    MaxStreams = 2
    Analyzers <- MCAnalyzers
    Limit <- MCLimit
    Rulesets <- MCRulesets
    RsAnalyzers <- MCRsAnalyzers
    RsActions <- ReplayRsActions
    MaxPayload = 1
INVARIANT PerPacketVerdict
