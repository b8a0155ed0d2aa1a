SPECIFICATION Spec
CONSTANTS
    Ann = Ann
    Bob = Bob
    Hud = Hud
    AnnOld = AnnOld
    AnnNew = AnnNew
    BobOld = BobOld
    Future = 9
    Players = {Ann, Bob}
    NoPlayer = NoPlayer
    OtherKeys = {Hud}
    ValuesOf <- MCValuesOf
    Absent = Absent
    DefaultMode = DefaultMode
    DefaultStyles = NoStyles
    NoStyles = NoStyles
    FirstStored <- MCFirstStored
    FirstGlobal <- MCFirstGlobal
    Broken = Broken
    MaxSkew = 2
    MaxSessions = 2
    MaxTime = 2
    MaxChoices = 1
    MaxLosses = 1
INVARIANTS
    NewestWins
    ChoicesSurvive
    OwnPreferences
CHECK_DEADLOCK FALSE
