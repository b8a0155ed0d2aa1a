SPECIFICATION Spec
CONSTANTS
    Asks <- MCAsks
    MaxRequests = 2
    Timeout = 1
PROPERTIES
    AnsweredOnceWithAll
    EveryoneIsAnswered
CHECK_DEADLOCK FALSE
