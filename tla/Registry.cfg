CONSTANTS
  Name = {n1, n2}
  Slug = {r1, r2}
  Url = {u1}
  Call = {k1, k2}
  None = None
  Leftover <- WithOrigin
  Env <- OwnSlugs
SPECIFICATION RegSpec
SYMMETRY Symmetric
INVARIANTS RegTypeOK BootstrapFindsClone
PROPERTIES OriginOutlivesClone LossNeedsAStaleSave
