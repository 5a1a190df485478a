SPECIFICATION LifeFairSpec
CONSTANTS
    MaxTries = 2
    Slots = {w1, w2}
INVARIANTS LifeTypeOK GivesUpOnLongOutage BlindIsDown JobsFinishFirst
PROPERTIES StartsWithRedis ProbeAnswered ReadyAgain StopEnds KeptUntilClosed
