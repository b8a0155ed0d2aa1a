SPECIFICATION SpecTriggers
CONSTANTS
    p = p
    z = z
    w = w
    Triggers <- MCTriggers
    Plain <- MCPlain
    TimerZones <- MCTimerZones
    Pushes <- MCPushes
    CancelOnTeleport <- MCPushes
    Conditions = {"touch", "end", "jump"}
    Delay = 1
    Cooldown = 3
INVARIANTS
    StartsAndEndsMatch
    PushesAreGiven
PROPERTIES
    OutOfReach
