SPECIFICATION FairE2eSpec
CONSTANTS
    MaxConfidence = 2
    Numbers <- MCNumbers
    DetectPolls = 2
INVARIANTS
    ResultFollowsVotes
    SettledAsVoted
    ReportedTruth
PROPERTIES
    ScriptEnds
CHECK_DEADLOCK FALSE
