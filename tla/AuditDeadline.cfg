SPECIFICATION DeadlineSpec
CONSTANTS
    Timeout = 4
    MaxRetries = 2
    BaseDelay = 1
    Statuses = {200, 503}
    Buffer = 7
    MinPoll = 2
    MaxPoll = 3
    CommandTime = 1
INVARIANTS DeadlineTypeOK ElapsedBounded AnsweredInTime EarlyResultServed FirstAttemptServed
PROPERTIES FetchEnds ResultTellsCause WaitEnds
