\* Two concurrent callers that may call again, two sessions, two token ids, two instants.
CONSTANTS
  Call = {c1, c2}
  Session = {s1, s2}
  NoSession = NoSession
  Token = {k1, k2}
  NoToken = NoToken
  TTL = 1
  MaxIssueAttempts = 2
  MaxTime = 2
  MaxFaults = 1
SPECIFICATION Spec
SYMMETRY Symmetry
INVARIANT RevocationInv
PROPERTY NeverOvertaken
