SPECIFICATION FairSpec
CONSTANTS
    MaxRuns = 2
INVARIANTS
    TimedRunIsRecorded
PROPERTIES
    RunsLiveAsPromised
    RunsAreFinished
