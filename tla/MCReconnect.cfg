SPECIFICATION ReconnectSpec
CONSTANTS
    ReconnectBase = 2
    ReconnectMax = 12
    MaxAttempt = 3
INVARIANTS
    BackWithinCap
PROPERTIES
    NeverHammers
