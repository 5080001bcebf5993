SPECIFICATION BurstFairSpec
CONSTANTS
    COUNT = 2
PROPERTY BothFinish
CHECK_DEADLOCK FALSE
