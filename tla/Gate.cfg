SPECIFICATION GateSpec
CONSTANTS
  app = app
  web = web
  s1 = s1
  s2 = s2
  p1 = p1
  p2 = p2
  k1 = k1
  k2 = k2
  Session = {s1, s2}
  Context = {app, web}
  Pid = {p1, p2}
  Call = {k1, k2}
  Ttl = 0
  Env <- Quiet
  None = None
  SlugOf <- SameNames
  Requests <- OneRepo
INVARIANTS GateTypeOK RepoExclusion ClearedIsCommittable
PROPERTIES ReadNeverAcquires
SYMMETRY Symmetric
