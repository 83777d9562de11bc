SPECIFICATION Spec
CONSTANTS
  s1 = s1
  s2 = s2
  c1 = c1
  p1 = p1
  p2 = p2
  k1 = k1
  k2 = k2
  Session = {s1, s2}
  Context = {c1}
  Pid = {p1, p2}
  Call = {k1, k2}
  Ttl = 1
  Env <- OnlyContextOverlap
  None = None
INVARIANTS Exclusion
