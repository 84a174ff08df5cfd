SPECIFICATION MCSpec
CONSTANTS
  Threads = {t1, t2}
  Targets = {1}
  MaxPosts = 3
  MaxSec = 1
  MaxToggles = 1
  MaxKills = 1
  MaxFailures = 1
  None = None
INVARIANT TypeOK
INVARIANT ReplaysAreExplained
INVARIANT LatestCommandWins
INVARIANT NothingVanishes
PROPERTY QueueDrains
