SPECIFICATION Spec
VIEW MCView
CONSTANTS
    Main = Main
    Bonus = Bonus
    FirstStage = 2
    LastStage = 3
    Course = {Main, Bonus}
    NoCourse = NoCourse
    CheckpointCount <- MCCheckpointCount
    StageCount <- MCStageCount
    StageZones <- MCStageZones
    MaxZones = 2
    Overlaps <- MCOverlaps
    MaxTime = 3
INVARIANTS
    FinishCoversCourse
    DeadRunIsResumable
    MoveTypeFits
    SplitsFitTheRun
PROPERTIES
    CompletedRunEnds
