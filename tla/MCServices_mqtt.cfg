SPECIFICATION Spec
CONSTANTS
  Viewers = {v1, v2}
  DayLength = 2
  LastDay = 2
  Windows = {0}
  DefaultDays = 1
  MaxSaves = 1
  MaxBoots = 2
  MaxRequests = 2
  Savers = {s1, s2}
  host1 = host1
  host2 = host2
  root1 = root1
  root2 = root2
  password1 = password1
  Forms <- SomeForms
  DefaultRoot = apsbridge
  NoHost = NoHost
  NoPassword = NoPassword
  Masked = Masked
  MaxSaved = 2
  Requested = {30, 50, 100, 700, 800, 2300}
  Offsets <- SomeOffsets
  MaxEdits = 2
CHECK_DEADLOCK FALSE
INVARIANT ReconnectsOnChange
