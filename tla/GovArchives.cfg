SPECIFICATION GovFairSpec
CONSTANTS
  r1 = r1
  o1 = o1
  Release = {r1}
  Operator = {o1}
  Workflow <- AllWorkflows
  Verdict = {TRUE}
  Scaffolded = {r1}
  Tasked = {r1}
  RepoIsContext = TRUE
  None = None
INVARIANTS EvidenceChain
PROPERTIES PhaseOrder Archived
