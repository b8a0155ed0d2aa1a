SPECIFICATION SpecPlayer
CONSTANTS
  Main = Main
  Bonus = Bonus
  T64 = T64
  T85 = T85
  Mode = {T64, T85}
  DefaultMode = T64
  DefaultStyles <- MCDefaultStyles
  Loadouts <- MCLoadouts
  Preferred <- MCPreferred
  Course = {Main, Bonus}
  NoCourse = NoCourse
  MaxVelOf <- MCMaxVelOf
  Commands <- MCCommands
  MaxReloads = 2
  MaxMoves = 1
  Ramp = Ramp
  Stage = Stage
  Place = {Ramp, Stage}
  Ladder = {Stage}
  StartZone = {Ramp}
  NoLocation = NoLocation
  MaxCheckpoints = 2
  MaxTeleports = 1
  MaxTime = 1
  BuiltIn <- MCBuiltIn
  PluginFiles <- MCPluginFiles
  TablesBefore <- MCTablesBefore
  LastMigration = 2
  MaxPluginMoves = 3
  MaxFailures = 1
INVARIANTS PluginsHaveTheirIDs RightPhysics HalvesAreSimulated GroundIsHeard TeleportSticks TimesAreOfThisRun
PROPERTIES RunKeepsItsRules
