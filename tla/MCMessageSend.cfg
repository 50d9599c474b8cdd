\* Three requests of one sender, two client ids, two conversations and one that is missing; a
\* client pages through one of them.
CONSTANTS
  Request = {r1, r2, r3}
  Sender = {s1}
  ClientId = {k1, k2}
  Conversation = {c1, c2, c3}
  Known = {c1, c2}
  Body = {b1}
  ServerId = {i1, i2}
  NoRequest = NoRequest
  NoId = NoId
  NoRow = NoRow
  NoIntent = NoIntent
  MaxSeq = 2
  Followed = {c1}
  PageLimits = {0, 1, 3}
  MaxPageItems = 2
SPECIFICATION ReadSpec
SYMMETRY Symmetry
INVARIANTS LedgerInv AnswersTrue NoWaitCycle ReaderInv
PROPERTIES MemberAtCommit CommitNeverDenied LogImplemented
CHECK_DEADLOCK FALSE
