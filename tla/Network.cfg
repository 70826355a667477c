SPECIFICATION FairSpec
CONSTANTS
  StartNodes = 2
  MaxNodes = 3
  MaxRepos = 3
INVARIANTS
  TypeOK
  UniqueRepos
  NoStrayDaemon
  MinerShare
  MissedOnlyByFailure
PROPERTIES
  BootEnds
  SpawnerStops
CHECK_DEADLOCK FALSE
