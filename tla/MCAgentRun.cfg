\* Two attempts for each call, two tool rounds.
SPECIFICATION FairSpec
CONSTANTS
    tooled = tooled  plain = plain  blank = blank  v1 = v1  v2 = v2  local = local
    NoURL = NoURL
    Runs <- MCRuns
    URLs <- MCURLs
    Hosts <- MCHosts
    HostPort <- MCHostPort
    BaseURL <- MCBaseURL
    DefaultURL = v1
    EnvConcurrency <- MCEnvConcurrency
    Override <- MCOverride
    RateOverride <- MCRateOverride
    EnvRate <- MCEnvRate
    DefaultRate <- MCDefaultRate
    Format <- MCFormat
    HasSchema <- MCHasSchema
    UsesTools <- MCUsesTools
    HasTimeout <- MCHasTimeout
    InPipeline <- MCInPipeline
    MaxAttempts = 2
    maxToolRounds = 2
INVARIANTS BackendBound CallsBounded CancelStops AgentInv
PROPERTIES RunEnds
CHECK_DEADLOCK FALSE
