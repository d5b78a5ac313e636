SPECIFICATION MCSpec
CONSTANTS
  Parts <- MCParts
  MaxCatchup = 3
  FieldBeats = 5
  Gaps <- MCGaps
  Surfaces <- MCSurfaces
  Shown <- MCShown
  Policies <- MCPolicies
  CapBase = 2
  LastHour = 6
  MaxBeats = 1
  MaxRaises = 1
  MaxKills = 1
  Lifespan = 2
  Wear <- MCWear
  MinSamples = 1
  Ways <- MCWays
  Lived <- MCLived
  LastDay = 2
  MaxTroubles = 1
  Models <- MCModels
  Intensities <- MCIntensities
  Calendar = 2
  MinSample = 1
  PerEpoch = 1
  WordOrder <- MCWordOrder
  LastPage = 2
  MaxWords = 2
  MaxGens = 2
  MaxSlips = 1
  MaxEditions = 2
  Buckets <- MCBuckets
  WindowMax = 2
  SegmentMax = 2
  L2Cap = 1
  MinForVectors = 2
  LastNight = 1
  MaxEvents = 3
  MaxFaults = 1
  MinGroup = 1
  SplitMin = 2
  BlockMin = 1
  MinMembers = 2
  MinDays = 1
  DormantDays = 1
  DeadDays = 1
  RequiredNights = 2
  MaxEntries = 3
  MaxTopics = 3
  LastDusk = 2
  Keywords <- MCKeywords
  Learned <- MCLearned
  Queries <- MCQueries
  Retention <- Faded
  MinHistory = 2
  ReunionDays = 2
  Skews <- MCSkews
  MaxPool = 4
  LastAsked = 1
  MaxAsked = 2
  Runs <- MCRuns
  MaxLines = 4
  MaxBreaks = 1
  Beat = 2
  DayLength = 3
  Tiers <- MCTiers
  LastIndex = 1
  MaxRecords = 6
  Hours <- MCHours
  MaxEdits = 2
INVARIANTS TypeOK Wishes Aged Memory Words Tools
PROPERTIES MindSteps
CHECK_DEADLOCK FALSE
