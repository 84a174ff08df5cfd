SPECIFICATION ConfigSpec
CONSTANTS
  Handlers = {h1, h2}
  Longest = 2
  Installs = {TRUE}
  MaxRequests = 3
  MaxRestarts = 0
INVARIANT SeedOnFirstRunOnly
