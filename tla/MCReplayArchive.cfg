SPECIFICATION SpecArchive
CONSTANTS
    Fast = Fast
    Medium = Medium
    Slow = Slow
    Fancy = Fancy
    Old = Old
    Recent = Recent
    Latest = Latest
    Caught = Caught
    Ann = Ann
    Replays = {Fast, Medium, Slow, Fancy, Old, Recent, Latest, Caught}
    AtFirst = {Slow, Fancy, Old, Caught}
    Cheater = {Caught}
    Run = {Fast, Medium, Slow, Fancy}
    Manual = {Old, Recent, Latest}
    Reported = {Caught}
    Styled = {Fancy}
    Group <- MCGroup
    Time <- MCTime
    Position <- MCPosition
    MaxRunReplays = 0
    MaxManualReplays = 2
    Retention = 1
    NotArchived = NotArchived
    Word = 8
    MaxTime = 2
    MaxCrashes = 1
INVARIANTS
    BestAreKept
PROPERTIES
    KeptForRetention
CHECK_DEADLOCK FALSE
