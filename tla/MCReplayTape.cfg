\* Five ticks.  The circular buffers hold two, a run's replay starts one before
\* the run and ends one after it, a chunk is two.  Two inputs of the player.
CONSTANTS
    a = a
    b = b
    knife = knife
    usp = usp
    Modes = {"64tick", "102t"}
    DefaultMode = "64tick"
    Weapons <- AnyWeapon
    Places <- AnyPlace
    Nowhere = "zero"
    CircularTicks = 2
    BreatherTicks = 1
    TailTicks = 1
    FlushTicks = 2
    Reads <- SomeReads
    MaxTicks = 5
    MaxInputs = 2
SPECIFICATION SpecTape
SYMMETRY Interchangeable
VIEW View
INVARIANTS
    TicksAreKept
    RunIsReproduced
\* The recording ends with the bounds, and a replay need not be saved.
CHECK_DEADLOCK FALSE
