\* Two concurrent callers that may call again, one key, two identities, a right and a wrong content.
CONSTANTS
  i1 = i1
  i2 = i2
  Call = {c1, c2}
  Key = {k1}
  Identity = {i1, i2}
  Content = {x1, x2}
  None = None
  UploadTTL = 1
  TokenExpires <- MCTokenExpires
  MaxGrantAttempts = 2
  MaxTime = 2
  MaxFaults = 1
SPECIFICATION Spec
SYMMETRY Symmetry
INVARIANT MediaInv
PROPERTY SessionLiveAtCommit
