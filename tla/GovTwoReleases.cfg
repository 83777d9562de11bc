SPECIFICATION GovSpec
CONSTANTS
  r1 = r1
  r2 = r2
  o1 = o1
  o2 = o2
  Release = {r1, r2}
  Operator = {o1, o2}
  Workflow <- EarlyWorkflows
  Verdict = {TRUE}
  Scaffolded = {r1}
  Tasked = {}
  RepoIsContext = TRUE
  None = None
SYMMETRY Symmetric
INVARIANTS GovTypeOK EvidenceChain DoctorFindsEvidence
PROPERTY PhaseOrder
