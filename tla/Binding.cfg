CONSTANTS
  Session = {s1, s2}
  Name = {n1, n2}
  None = None
SPECIFICATION BindSpec
SYMMETRY Symmetric
INVARIANTS BindTypeOK PointersAgree NoDanglingPointer NewestKeepsPointer

