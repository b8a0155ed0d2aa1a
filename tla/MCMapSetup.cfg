SPECIFICATION SpecSetup
CONSTANTS
    Summit = Summit
    Valley = Valley
    Main = Main
    Bonus = Bonus
    Extra = Extra
    Maps = {Summit, Valley}
    Courses = {Main, Bonus, Extra}
    CoursesOf <- MCCoursesOf
    Number <- MCNumber
    Checkpoints <- MCCheckpoints
    MaxCheckpoint = 3
    None = None
    MaxLoads = 3
    MaxRequests = 3
    Map = {A, B}
    Steam = {s, t}
    Nobody = Nobody
    NoMap = NoMap
    Levels = {3}
    GlobalTimes = {1}
    OldBests <- MCOldBests
    MaxRunTime = 2
    MaxChanges = 1
    MaxSaves = 1
    MaxUsers = 2
    MaxQueries = 2
INVARIANTS
    IDsAreOfThisMap
    SplitsHaveTheirZones
    MissedTimesAreMissed
    KnownTimesAreBest
SYMMETRY Alike
CHECK_DEADLOCK FALSE
