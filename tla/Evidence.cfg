CONSTANTS
  Workflow <- ASecurityReview
  rc1 = rc1
  odd = odd
  Rc <- TwoIds
  SafeId <- OneRecord
  Run = {k1, k2}
  Bundler = {b1, b2}
  MaxSecond = 2
  MaxRuns = 2
  Env <- AllHazards
  None = None
  Torn = Torn
SPECIFICATION Spec
SYMMETRY Symmetric
INVARIANTS EvTypeOK DoctorBlamesMishapsOnly ReviewsAreRecorded ReadyIsBacked
PROPERTY PrunedIsBundled
CHECK_DEADLOCK FALSE
