\* One connection: order, limits, flushes, reloads and its end.
SPECIFICATION Spec
CONSTANTS
    http = http
    trojan = trojan
    rOld = rOld
    rNew = rNew
    NoStream = NoStream
    Analyzers <- MCAnalyzers
    Limit <- MCLimit
    Rulesets <- MCRulesets
    RsAnalyzers <- MCRsAnalyzers
    RsActions <- MCRsActions
    MaxData = 3
    MaxPages = 3
INVARIANTS
    AnalyzersTold
    StreamConsistent
    PagesConsistent
PROPERTIES
    VerdictsReach
    OnlyFlushOverturns
