CONSTANTS
  MaxCommit = 3
  Rc = {rc1}
  Review = {v1}
  Sensitive <- TheFirst
  Claims <- SomePaths
  Signable <- TheLast
  Env <- FollowsHead
  Moving = Moving
  None = None
SPECIFICATION Spec
INVARIANT PushedTipsWereReviewed
