\* A revocation reads the clock before it waits for the session of a token being issued.
CONSTANTS
  Call = {c1, c2}
  Session = {s1, s2}
  NoSession = NoSession
  Token = {k1, k2}
  NoToken = NoToken
  TTL = 1
  MaxIssueAttempts = 2
  MaxTime = 2
  MaxFaults = 0
SPECIFICATION Spec
SYMMETRY Symmetry
INVARIANT ActiveTargetRevoked
