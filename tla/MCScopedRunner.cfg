SPECIFICATION ScopedSpec
CONSTANTS
  Slot = {runner, worker}
  Runner = runner
  Roots <- MCRoots
  Signs <- MCSigns
  Listings <- MCListings
  RankRows <- MCRankRows
  MaxListed = 3
  ChunkSize = 2
  RANK_STREAM_CONCURRENCY = 2
  MaxAttempts = 2
  MaxBroken = 1
  MaxTrouble <- MCMaxTrouble
  MaxPauses = 1
  Idle = Idle
  NoCode = NoCode
  RootJob = RootJob
CHECK_DEADLOCK FALSE
INVARIANTS
  ReportsFair
  GivenUpRightly
  RankRowsSound
  LineageFollowed
PROPERTIES
  RunnerReturns
