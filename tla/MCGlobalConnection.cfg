SPECIFICATION Spec
CONSTANTS
    Players = {p1}
    MaxLinks = 3
    MaxMaps = 2
    MaxAuthorized = 2
INVARIANTS
    StateIsTrue
    AnswersAreAwaited
PROPERTIES
    MapInfoMovesForward
