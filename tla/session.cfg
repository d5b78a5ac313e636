SPECIFICATION Spec
CONSTANTS
  Policies <- MCPolicies
  Levels <- MCLevels
  Drafts <- MCDrafts
  DayLength = 2
  MinGap = 1
  Budget = 1
  Stride = 25
  MaxNow = 2
  MaxCrashes = 1
  MaxVerdicts = 2
  Surfaces <- MCSurfaces
  MaxDay = 2
  MaxFaults = 1
  K = K
  Kinds <- MCKinds
  Strengths <- MCStrengths
  Qs <- MCQs
  Hypotheses = 2
  Quota = 2
  MinN = 1
  Rows = 1
  HalfDays = 4
  MaxFires = 3
  MaxKills = 1
  Values <- MCValues
  Betas <- MCBetas
  MaxTicks = 4
  MaxPushed = 3
  Texts <- MCTexts
  FirstMode = "steward"
  Silence = 1
  Window = 1
  MaxTurns = 3
  MaxFeeds = 2
  MaxResets = 1
  MaxLives = 2
  MaxMoment = 2
  MaxTrouble = 1
INVARIANTS TypeOK Spaced Remembered Gentle ShadowKept BaselinesRight
PROPERTIES ShadowSteps
CHECK_DEADLOCK FALSE
