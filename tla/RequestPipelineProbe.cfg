SPECIFICATION PipelineSpec
CONSTANTS
    Requests = {r1, r2}
    RateLimitMax = 1
    WindowMs = 5
    MsPerSecond = 2
    CountCap = 3
    Faults = {}
PROPERTIES LivenessAnswers
