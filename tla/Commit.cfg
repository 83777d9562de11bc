CONSTANTS
  Path <- ThreeNames
  FileOf <- LeadsTo
  Mutating <- TwoFiles
  Task <- TwoTasks
  WriteSet <- WriteSets
  Drafts <- ThreeDrafts
  Release = {r1, r2}
  Session = {s1, s2}
  None = None
SPECIFICATION Spec
INVARIANTS CommitTypeOK PatchedPathsInside
PROPERTIES CommitWasCovered OneTaskPerCommit CoveredWorkIsCommitted
