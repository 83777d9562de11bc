CONSTANTS
  MaxCommit = 3
  Rc = {rc1}
  Review = {v1, v2}
  Sensitive <- TheFirst
  Claims <- SomePaths
  Signable <- TheLast
  Env <- Recreated
  Moving = Moving
  None = None
SPECIFICATION Spec
SYMMETRY Symmetric
INVARIANTS PushTypeOK PushedTipsWereReviewed OutsideIsStale 
