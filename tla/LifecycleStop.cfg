SPECIFICATION LifeFairSpec
CONSTANTS
    MaxTries = 2
    Slots = {w1}
PROPERTIES KeptToTheEnd
