SPECIFICATION SpecLoads
CONSTANTS
    MaxLoads = 3
    Maps = {m1, m2}
INVARIANTS
    ReplayIsTheOneAsked
    ReplaysAreOwnedOnce
    PlaybackIsOfThisMap
PROPERTIES
    LoadsAreAnswered
