---------------------------- MODULE AccountProofs ----------------------------
(***************************************************************************)
(* An account, on the server and on the device: proofs about AuthSession   *)
(* and StoreRecovery.                                                      *)
(*                                                                         *)
(* Sessions.  A revoked session has no active token, log-outs are answered *)
(* truly, and no authentication overtakes a revocation.  The calls that    *)
(* hold a session's lock are either one call or authentications only       *)
(* (Apart).  So whatever a call has read under the lock (CallRows) is      *)
(* still true when it commits.  The steps that leave the rows alone come   *)
(* first, then the commits.                                                *)
(*                                                                         *)
(* Store.  Opening, quarantining and rebuilding lose no database and mix   *)
(* up no accounts.  The invariant says where every database is, that a     *)
(* directory in which there ever was a database does not look new, and     *)
(* what the running call has found out, place by place.                    *)
(***************************************************************************)
EXTENDS AuthSession, StoreRecovery, TLAPS

------------------------------------------------------------------------------
(* The sessions on the server: the inductive invariant. *)

TokenCall == {"authenticate", "revoke_token", "revoke_bearer"}
Revocation == {"revoke_session", "revoke_token", "revoke_bearer"}
Live == Locked \cup {"find", "session"}
Ending == {"commit", "unknown"}
Granted == {"AUTH_REVOKE_OK", "AUTH_REVOKE_NOOP"}

Code ==
  Granted \cup {"none", "AUTH_ISSUE_OK", "AUTH_AUTHENTICATE_OK", "AUTH_INVALID_INPUT", "AUTH_TOKEN_MALFORMED",
   "AUTH_TOKEN_UNKNOWN", "AUTH_TOKEN_EXPIRED", "AUTH_TOKEN_REVOKED", "AUTH_TOKEN_COLLISION",
   "AUTH_SESSION_NOT_FOUND", "AUTH_SESSION_REVOKED", "AUTH_FORBIDDEN", "AUTH_ENTROPY_UNAVAILABLE",
   "AUTH_STORAGE_UNAVAILABLE"}

TokenRow == [session : Session \cup {NoSession}, created : Nat, expires : Nat, revoked : Nat]
CallRecord ==
  [op : Operation \cup {"none"}, pc : {"idle", "done"} \cup Live, session : Session \cup {NoSession},
   token : Token \cup {NoToken}, proof : Proof, at : Nat, tries : Nat, answer : Code]

\* What the step a call has reached says of the call alone.
CallShape(k) ==
  /\ k.at <= now /\ k.tries <= MaxIssueAttempts
  /\ k.pc \in Live => k.op # "none" /\ k.proof # "malformed"
  /\ k.pc \in Locked => k.session \in Session
  /\ k.pc = "find" => k.op \in TokenCall
  /\ k.pc \in {"generate", "insert"} => k.op = "issue"
  /\ k.pc = "verify" => k.op = "authenticate"
  /\ k.pc = "write" => k.op \in Revocation
  /\ k.pc \in Live /\ k.op \in TokenCall => k.token \in Token
  /\ k.pc \in Live /\ k.op \in Revocation => k.at # 0
  /\ k.pc \in {"insert"} \cup Ending /\ k.op = "issue" => k.token \in Token /\ k.at # 0

\* What a call is, or will be, answered.
CallAnswer(k) ==
  /\ k.op = "authenticate" /\ k.pc = "unknown" => k.answer = "AUTH_STORAGE_UNAVAILABLE"
  /\ k.op = "revoke_bearer" /\ k.proof = "match" =>
       /\ k.pc = "commit" => k.answer \in Granted
       /\ k.pc = "unknown" => k.answer = "AUTH_STORAGE_UNAVAILABLE"
       /\ k.pc = "done" => k.answer \in Granted \cup {"AUTH_STORAGE_UNAVAILABLE"}

\* What a call has read, and the rows still say.
CallRows(k) ==
  /\ k.op \in TokenCall /\ k.pc \in Locked \cup {"session"} =>
       Exists(k.token) /\ tokens[k.token].session = k.session
  /\ k.op = "revoke_bearer" /\ k.proof = "match" /\ k.pc = "find" => Exists(k.token)
  /\ k.op = "issue" /\ k.pc \in Locked => sessions[k.session] = 0
  /\ k.op = "issue" /\ k.pc \in Ending => ~Exists(k.token)
  /\ k.op \in Revocation /\ k.pc \in Ending =>
       \A t \in Token : tokens[t].session = k.session /\ tokens[t].revoked = 0
                          /\ (k.op = "revoke_session" \/ t = k.token) => tokens[t].created <= k.at
  /\ k.op = "authenticate" /\ k.pc = "commit" /\ k.answer = "AUTH_AUTHENTICATE_OK" =>
       tokens[k.token].revoked = 0 /\ sessions[k.session] = 0
  /\ k.op = "revoke_bearer" /\ k.proof = "match" /\ k.pc = "done" /\ k.answer \in Granted =>
       k.token \in Token /\ tokens[k.token].revoked # 0

\* FOR UPDATE excludes every other lock on the row, and an uncommitted token id every other one.
Apart(k, m) ==
  /\ k.pc \in Locked /\ m.pc \in Locked /\ k.session = m.session =>
       k.op = "authenticate" /\ m.op = "authenticate"
  /\ k.op = "issue" /\ m.op = "issue" /\ k.pc \in Ending /\ m.pc \in Ending => k.token # m.token

TokenRowOK(row) ==
  row # NoRow =>
    /\ row.session \in Session
    /\ row.created \in Time /\ row.expires = row.created + TTL
    /\ row.revoked = 0 \/ row.revoked \in row.created .. MaxTime

RowsInv ==
  /\ sessions \in [Session -> 0 .. MaxTime]
  /\ tokens \in [Token -> TokenRow]
  /\ \A t \in Token : TokenRowOK(tokens[t])
  /\ NoTokenLeft

ClockInv == now \in Time /\ faults \in 0 .. MaxFaults

CallInv(k) == k \in CallRecord /\ CallShape(k) /\ CallAnswer(k) /\ CallRows(k)

AuthInv ==
  /\ ClockInv
  /\ RowsInv
  /\ call \in [Call -> CallRecord]
  /\ \A c \in Call : CallInv(call[c])
  /\ \A c, d \in Call : c # d => Apart(call[c], call[d])

------------------------------------------------------------------------------
(* The initial state, and the frame of a step *)

\* No call runs, no session is revoked and no token exists.
LEMMA InitAuth == Init => AuthInv
<1> SUFFICES ASSUME Init PROVE AuthInv
  OBVIOUS
<1>1. ClockInv
  BY AuthAssumption DEF Init, ClockInv, Time
<1>2. RowsInv
  BY AuthAssumption DEF Init, RowsInv, NoRow, TokenRow, TokenRowOK, NoTokenLeft
<1>3. NoCall \in CallRecord
  BY DEF NoCall, CallRecord, Proof, Code
<1>4. CallInv(NoCall)
  <2>1. CallShape(NoCall)
    BY AuthAssumption DEF NoCall, CallShape, Init, Locked, Live, Ending
  <2>2. CallAnswer(NoCall) /\ CallRows(NoCall)
    BY DEF NoCall, CallAnswer, CallRows, Locked, Ending, TokenCall, Revocation
  <2> QED
    BY <1>3, <2>1, <2>2 DEF CallInv
<1>5. Apart(NoCall, NoCall)
  BY DEF NoCall, Apart, Locked, Ending
<1>6. call = [c \in Call |-> NoCall]
  BY DEF Init
<1> QED
  BY <1>1, <1>2, <1>3, <1>4, <1>5, <1>6 DEF AuthInv

\* Two calls keep apart from each other.
LEMMA ApartSymmetric == ASSUME NEW k, NEW m, Apart(k, m) PROVE Apart(m, k)
  BY DEF Apart

\* A step that gives call c the record k, and leaves the rows alone, need only look at k.
LEMMA PutPreserves ==
  ASSUME AuthInv, NEW c \in Call, NEW k, Set(c, k), UNCHANGED <<Rows, now>>, faults' \in 0 .. MaxFaults,
         CallInv(k), \A d \in Call \ {c} : Apart(k, call[d])
  PROVE  AuthInv'
<1>1. /\ sessions' = sessions /\ tokens' = tokens /\ now' = now
      /\ call' = [call EXCEPT ![c] = k] /\ k \in CallRecord /\ call \in [Call -> CallRecord]
  BY DEF Rows, Set, CallInv, AuthInv
<1>2. /\ call' \in [Call -> CallRecord] /\ call'[c] = k
      /\ \A d \in Call \ {c} : call'[d] = call[d]
  BY <1>1
<1>3. ClockInv' /\ RowsInv'
  BY <1>1, Zenon DEF AuthInv, ClockInv, RowsInv, NoTokenLeft, ActiveTokens
<1>4. ASSUME NEW d \in Call PROVE CallInv(call[d])'
  <2>1. CallInv(call'[d])
    BY <1>2 DEF AuthInv
  <2> QED
    BY <1>1, <2>1 DEF CallInv, CallShape, CallAnswer, CallRows, Exists
<1>5. ASSUME NEW d \in Call, NEW e \in Call, d # e PROVE Apart(call[d], call[e])'
  <2>1. Apart(call'[d], call'[e])
    BY <1>2, <1>5, ApartSymmetric DEF AuthInv
  <2> QED
    BY <2>1 DEF Apart
<1> QED
  BY <1>2, <1>3, <1>4, <1>5 DEF AuthInv

\* A call that returns releases its locks.
LEMMA ReturnPreserves ==
  ASSUME AuthInv, NEW c \in Call, NEW code \in Code, Return(c, code), UNCHANGED <<Rows, now>>,
         faults' \in 0 .. MaxFaults,
         call[c].op = "revoke_bearer" /\ call[c].proof = "match" => code = "AUTH_STORAGE_UNAVAILABLE"
  PROVE  AuthInv'
<1> DEFINE k == call[c]
           n == [k EXCEPT !.pc = "done", !.answer = code]
<1>1. k \in CallRecord /\ CallInv(k)
  BY DEF AuthInv
<1>2. /\ n \in CallRecord /\ n.op = k.op /\ n.proof = k.proof /\ n.pc = "done" /\ n.at = k.at
      /\ n.tries = k.tries /\ n.answer = code
  BY <1>1, Zenon DEF CallRecord
<1>3. Set(c, n)
  BY DEF Return
<1> HIDE DEF n
<1>4. CallShape(n)
  BY <1>1, <1>2 DEF CallInv, CallShape, Locked, Live, Ending
<1>5. CallAnswer(n) /\ CallRows(n)
  BY <1>2 DEF CallAnswer, CallRows, Locked, Ending, Granted
<1>6. \A d \in Call \ {c} : Apart(n, call[d])
  BY <1>2 DEF Apart, Locked, Ending
<1> QED
  BY <1>2, <1>3, <1>4, <1>5, <1>6, PutPreserves DEF CallInv

------------------------------------------------------------------------------
(* The steps that leave the rows alone *)

\* A call of either kind starts with a record that has read nothing yet.
LEMMA BeginPreserves ==
  ASSUME AuthInv, NEW c \in Call, NEW op \in Operation, NEW s \in Session \cup {NoSession},
         NEW t \in Token \cup {NoToken}, NEW p \in Proof, NEW pc \in {"find", "session"},
         Begin(c, op, s, t, p, pc), UNCHANGED <<Rows, now, faults>>,
         op \in TokenCall => pc = "find" /\ t \in Token,
         op \notin TokenCall => pc = "session",
         op = "revoke_bearer" /\ p = "match" => Exists(t)
  PROVE  AuthInv'
<1>1. /\ now \in Nat /\ now # 0 /\ MaxIssueAttempts \in Nat /\ 1 <= MaxIssueAttempts
      /\ faults' \in 0 .. MaxFaults /\ UNCHANGED <<Rows, now>>
  BY AuthAssumption DEF AuthInv, ClockInv, Time
<1>2. CASE p = "malformed"
  <2> DEFINE n == [NoCall EXCEPT !.op = op, !.pc = "done", !.proof = p, !.answer = Refusal(op)]
  <2>1. Refusal(op) \in Code
    BY DEF Refusal, Code
  <2>2. n \in CallRecord /\ n.op = op /\ n.pc = "done" /\ n.proof = p /\ n.at = 0 /\ n.tries = 0
    BY <2>1, Zenon DEF NoCall, CallRecord
  <2>3. Set(c, n)
    BY <1>2 DEF Begin
  <2> HIDE DEF n
  <2>4. CallShape(n)
    BY <1>1, <1>2, <2>2 DEF CallShape, Locked, Live, Ending
  <2>5. CallAnswer(n) /\ CallRows(n)
    BY <1>2, <2>2 DEF CallAnswer, CallRows, Locked, Ending
  <2>6. \A d \in Call \ {c} : Apart(n, call[d])
    BY <2>2 DEF Apart, Locked, Ending
  <2> QED
    BY <1>1, <2>2, <2>3, <2>4, <2>5, <2>6, PutPreserves DEF CallInv
<1>3. CASE p # "malformed"
  <2> DEFINE at == IF op \in {"issue", "authenticate"} THEN 0 ELSE now
             n == [NoCall EXCEPT !.op = op, !.pc = pc, !.session = s, !.token = t, !.proof = p,
                                 !.at = at, !.tries = 1]
  <2>1. at \in Nat /\ at <= now /\ (op \in Revocation => at # 0)
    BY <1>1 DEF Revocation
  <2>3. Set(c, n)
    BY <1>3 DEF Begin
  <2> HIDE DEF at
  <2>2. /\ n \in CallRecord /\ n.op = op /\ n.pc = pc /\ n.proof = p /\ n.at = at /\ n.tries = 1
        /\ n.session = s /\ n.token = t
    BY <2>1 DEF NoCall, CallRecord, Live, Code
  <2> HIDE DEF n
  <2>4. CallShape(n)
    BY <1>1, <1>3, <2>1, <2>2 DEF CallShape, Locked, Live, Ending, Operation, TokenCall
  <2>5. CallAnswer(n) /\ CallRows(n)
    BY <2>2 DEF CallAnswer, CallRows, Locked, Ending
  <2>6. \A d \in Call \ {c} : Apart(n, call[d])
    BY <2>2 DEF Apart, Locked, Ending
  <2> QED
    BY <1>1, <2>2, <2>3, <2>4, <2>5, <2>6, PutPreserves DEF CallInv
<1> QED
  BY <1>2, <1>3

\* Calls on a session and calls on a token.
LEMMA CallsPreserve == ASSUME AuthInv, NEW c \in Call, CallSession(c) \/ CallToken(c) PROVE AuthInv'
<1>1. CASE CallSession(c)
  <2>1. PICK op \in {"issue", "revoke_session"}, s \in Session \cup {NoSession}, p \in Proof :
          Begin(c, op, s, NoToken, p, "session")
    BY <1>1 DEF CallSession
  <2> QED
    BY <1>1, <2>1, BeginPreserves, Zenon DEF CallSession, Operation, TokenCall
<1>2. CASE CallToken(c)
  <2>1. PICK op \in {"authenticate", "revoke_token", "revoke_bearer"}, t \in Token, p \in Proof :
          /\ op # "revoke_token" /\ p = "match" => Exists(t)
          /\ Begin(c, op, NoSession, t, p, "find")
    BY <1>2 DEF CallToken
  <2> QED
    BY <1>2, <2>1, BeginPreserves DEF CallToken, Operation, TokenCall
<1> QED
  BY <1>1, <1>2

\* The session of a token that exists never changes, so it may be read without a lock.
LEMMA FindPreserves == ASSUME AuthInv, NEW c \in Call, Find(c) PROVE AuthInv'
<1> DEFINE k == call[c]
           session == tokens[k.token].session
           n == [k EXCEPT !.pc = "session", !.session = session]
<1>1. k \in CallRecord /\ CallInv(k) /\ k.pc = "find" /\ k.op \in TokenCall /\ k.token \in Token
  BY DEF AuthInv, CallInv, CallShape, Find, Live
<1>2. UNCHANGED <<Rows, now>> /\ faults' \in 0 .. MaxFaults
  BY Zenon DEF Find, AuthInv, ClockInv
<1>3. CASE Exists(k.token)
  <2>1. session \in Session
    BY <1>1, <1>3 DEF AuthInv, RowsInv, TokenRowOK, Exists
  <2>2. Set(c, n)
    BY <1>3 DEF Find
  <2> HIDE DEF session
  <2>3. /\ n \in CallRecord /\ n.op = k.op /\ n.pc = "session" /\ n.proof = k.proof /\ n.at = k.at
        /\ n.tries = k.tries /\ n.session = session /\ n.token = k.token
    BY <1>1, <2>1, Zenon DEF CallRecord, Live
  <2> HIDE DEF n
  <2>4. CallShape(n)
    BY <1>1, <2>3 DEF CallInv, CallShape, Locked, Live, Ending
  <2>5. CallAnswer(n) /\ CallRows(n)
    BY <1>1, <1>3, <2>3 DEF CallAnswer, CallRows, Locked, Ending, TokenCall, session
  <2>6. \A d \in Call \ {c} : Apart(n, call[d])
    BY <2>3 DEF Apart, Locked, Ending
  <2> QED
    BY <1>2, <2>2, <2>3, <2>4, <2>5, <2>6, PutPreserves, Zenon DEF CallInv
<1>4. CASE ~Exists(k.token)
  <2>1. Return(c, "AUTH_TOKEN_UNKNOWN") /\ "AUTH_TOKEN_UNKNOWN" \in Code
    BY <1>4, Zenon DEF Find, Code
  <2>2. ~(k.op = "revoke_bearer" /\ k.proof = "match")
    BY <1>1, <1>4, Zenon DEF CallInv, CallRows
  <2> QED
    BY <1>2, <2>1, <2>2, ReturnPreserves
<1> QED
  BY <1>3, <1>4
\* The lock is granted only when no holder conflicts, and what is read next is read under it.
LEMMA LockPreserves == ASSUME AuthInv, NEW c \in Call, LockSession(c) PROVE AuthInv'
<1> DEFINE k == call[c]
           refused == k.op \in {"issue", "revoke_session", "revoke_token"} /\ k.proof = "mismatch"
           pc == CASE k.op = "issue" -> "generate" [] k.op = "authenticate" -> "verify" [] OTHER -> "write"
           n == [k EXCEPT !.pc = pc]
<1>1. k \in CallRecord /\ CallInv(k) /\ k.pc = "session" /\ LockFree(c)
  BY DEF AuthInv, LockSession
<1>2. UNCHANGED <<Rows, now>> /\ faults' \in 0 .. MaxFaults
  BY DEF LockSession, AuthInv, ClockInv
<1>3. CASE k.session = NoSession
  <2>1. Return(c, "AUTH_SESSION_NOT_FOUND") /\ "AUTH_SESSION_NOT_FOUND" \in Code
    BY <1>3, SMTT(30) DEF LockSession, Code
  <2>2. k.op # "revoke_bearer"
    BY <1>1, <1>3, AuthAssumption, Zenon
    DEF AuthInv, RowsInv, TokenRowOK, CallInv, CallRows, CallShape, Exists, TokenCall, Live
  <2> QED
    BY <1>2, <2>1, <2>2, ReturnPreserves
<1>4. CASE k.session # NoSession /\ refused
  <2>1. Return(c, "AUTH_FORBIDDEN") /\ "AUTH_FORBIDDEN" \in Code
    BY <1>4 DEF LockSession, Code
  <2> QED
    BY <1>2, <1>4, <2>1, ReturnPreserves
<1>5. CASE k.session # NoSession /\ ~refused /\ k.op = "issue" /\ sessions[k.session] # 0
  <2>1. Return(c, "AUTH_SESSION_REVOKED") /\ "AUTH_SESSION_REVOKED" \in Code
    BY <1>5 DEF LockSession, Code
  <2> QED
    BY <1>2, <1>5, <2>1, ReturnPreserves
<1>6. CASE k.session # NoSession /\ ~refused /\ ~(k.op = "issue" /\ sessions[k.session] # 0)
  <2>1. Goto(c, pc)
    BY <1>6 DEF LockSession
  <2>2. Set(c, n)
    BY <2>1, Zenon DEF Goto
  <2>3. k.session \in Session /\ k.op \in Operation
    BY <1>1, <1>6 DEF CallRecord, CallInv, CallShape, Live
  <2>4. /\ k.op = "issue" => pc = "generate"
        /\ k.op = "authenticate" => pc = "verify"
        /\ k.op \in Revocation => pc = "write"
        /\ pc \in {"generate", "verify", "write"}
    BY <2>3 DEF Operation, Revocation
  <2>5. k.op \in Revocation \/ k.op \in {"issue", "authenticate"}
    BY <2>3 DEF Operation, Revocation
  <2> HIDE DEF pc
  <2>6. /\ n \in CallRecord /\ n.op = k.op /\ n.pc = pc /\ n.proof = k.proof /\ n.at = k.at
        /\ n.tries = k.tries /\ n.session = k.session /\ n.token = k.token
    BY <1>1, <2>4, Zenon DEF CallRecord, Live, Locked
  <2> HIDE DEF n
  <2>7. CallShape(n)
    BY <1>1, <2>3, <2>4, <2>5, <2>6 DEF CallInv, CallShape, Locked, Live, Ending, Revocation
  <2>8. CallAnswer(n)
    BY <2>4, <2>6, Zenon DEF CallAnswer
  <2>9. CallRows(n)
    BY <1>1, <1>6, <2>4, <2>6, Zenon DEF CallInv, CallRows, Ending
  <2>10. \A d \in Call \ {c} : Apart(n, call[d])
    BY <1>1, <2>4, <2>6, Zenon DEF Apart, LockFree, Ending
  <2> QED
    BY <1>2, <2>2, <2>6, <2>7, <2>8, <2>9, <2>10, PutPreserves DEF CallInv
<1> QED
  BY <1>3, <1>4, <1>5, <1>6

\* A call that holds a lock, and keeps its operation and its session, keeps apart from the others;
\* if it is about to store a token, then no other call is about to store the same one.
LEMMA HolderApart ==
  ASSUME AuthInv, NEW c \in Call, NEW n, call[c].pc \in Locked,
         n.op = call[c].op, n.session = call[c].session,
         \/ n.op # "issue" \/ n.pc \notin Ending
         \/ \A d \in Call \ {c} : call[d].op = "issue" /\ call[d].pc \in Ending => call[d].token # n.token
  PROVE  \A d \in Call \ {c} : Apart(n, call[d])
<1> SUFFICES ASSUME NEW d \in Call \ {c} PROVE Apart(n, call[d])
  OBVIOUS
<1>1. Apart(call[c], call[d])
  BY DEF AuthInv
<1> QED
  BY <1>1, Zenon DEF Apart

\* An id is drawn: it is not known yet whether it is free.
LEMMA GeneratePreserves == ASSUME AuthInv, NEW c \in Call, Generate(c) PROVE AuthInv'
<1>0. PICK t \in Token : Set(c, [call[c] EXCEPT !.pc = "insert", !.token = t, !.at = now])
  BY Zenon DEF Generate
<1> DEFINE k == call[c]
           n == [k EXCEPT !.pc = "insert", !.token = t, !.at = now]
<1>1. k \in CallRecord /\ CallInv(k) /\ k.pc = "generate" /\ k.op = "issue" /\ k.pc \in Locked
  BY DEF AuthInv, Generate, CallInv, CallShape, Locked
<1>2. UNCHANGED <<Rows, now>> /\ faults' \in 0 .. MaxFaults /\ now \in Nat /\ now # 0
  BY DEF Generate, AuthInv, ClockInv, Time
<1>3. /\ n \in CallRecord /\ n.op = "issue" /\ n.pc = "insert" /\ n.proof = k.proof /\ n.at = now
      /\ n.tries = k.tries /\ n.session = k.session /\ n.token = t
  BY <1>1, <1>2, Zenon DEF CallRecord, Live, Locked
<1> HIDE DEF n
<1>4. CallShape(n)
  BY <1>1, <1>2, <1>3 DEF CallInv, CallShape, Locked, Live, Ending, Revocation, TokenCall
<1>5. CallAnswer(n) /\ CallRows(n)
  BY <1>1, <1>3, Zenon DEF CallInv, CallAnswer, CallRows, Ending, Revocation, TokenCall
<1>6. \A d \in Call \ {c} : Apart(n, call[d])
  BY <1>1, <1>3, HolderApart DEF Ending
<1> QED
  BY <1>0, <1>2, <1>3, <1>4, <1>5, <1>6, PutPreserves DEF CallInv, n

\* The row is free and nobody is about to store it; or the attempt is given up, with its lock.
LEMMA InsertPreserves == ASSUME AuthInv, NEW c \in Call, Insert(c) PROVE AuthInv'
<1> DEFINE k == call[c]
<1>1. /\ k \in CallRecord /\ CallInv(k) /\ k.pc = "insert" /\ k.op = "issue" /\ k.pc \in Locked
      /\ k.token \in Token /\ k.tries \in Nat
  BY DEF AuthInv, Insert, CallInv, CallShape, Locked, CallRecord
<1>2. UNCHANGED <<Rows, now>> /\ faults' \in 0 .. MaxFaults /\ now \in Nat /\ MaxIssueAttempts \in Nat
  BY AuthAssumption DEF Insert, AuthInv, ClockInv, Time
<1>3. CASE ~Exists(k.token)
  <2> DEFINE n == [k EXCEPT !.pc = "commit"]
  <2>1. Set(c, n)
    BY <1>3 DEF Insert, Goto
  <2>2. /\ n \in CallRecord /\ n.op = "issue" /\ n.pc = "commit" /\ n.proof = k.proof /\ n.at = k.at
        /\ n.tries = k.tries /\ n.session = k.session /\ n.token = k.token
    BY <1>1, Zenon DEF CallRecord, Live, Locked
  <2> HIDE DEF n
  <2>3. CallShape(n)
    BY <1>1, <2>2, Zenon DEF CallInv, CallShape, Locked, Live, Ending, Revocation, TokenCall
  <2>4. CallAnswer(n) /\ CallRows(n)
    BY <1>1, <1>3, <2>2 DEF CallInv, CallAnswer, CallRows, Revocation, TokenCall
  <2>5. \A d \in Call \ {c} : call[d].op = "issue" /\ call[d].pc \in Ending => call[d].token # n.token
    BY <2>2, Zenon DEF Insert, Ending
  <2>6. \A d \in Call \ {c} : Apart(n, call[d])
    BY <1>1, <2>2, <2>5, HolderApart, Zenon
  <2> QED
    BY <1>2, <2>1, <2>2, <2>3, <2>4, <2>6, PutPreserves DEF CallInv
<1>4. CASE Exists(k.token) /\ k.tries < MaxIssueAttempts
  <2> DEFINE tries == k.tries + 1
             n == [k EXCEPT !.pc = "session", !.tries = tries, !.token = NoToken, !.at = 0]
  <2>1. Set(c, n)
    BY <1>4 DEF Insert
  <2>5. tries \in Nat /\ tries <= MaxIssueAttempts
    BY <1>1, <1>2, <1>4
  <2> HIDE DEF tries
  <2>2. /\ n \in CallRecord /\ n.op = "issue" /\ n.pc = "session" /\ n.proof = k.proof /\ n.at = 0
        /\ n.tries = tries
    BY <1>1, <2>5, Zenon DEF CallRecord, Live
  <2> HIDE DEF n
  <2>3. CallShape(n)
    BY <1>1, <1>2, <2>5, <2>2 DEF CallInv, CallShape, Locked, Live, Ending, Revocation, TokenCall
  <2>4. CallAnswer(n) /\ CallRows(n)
    BY <2>2 DEF CallAnswer, CallRows, Revocation, TokenCall, Locked, Ending
  <2>6. \A d \in Call \ {c} : Apart(n, call[d])
    BY <2>2 DEF Apart, Locked, Ending
  <2> QED
    BY <1>2, <2>1, <2>2, <2>3, <2>4, <2>6, PutPreserves DEF CallInv
<1>5. CASE Exists(k.token) /\ ~(k.tries < MaxIssueAttempts)
  <2>1. Return(c, "AUTH_TOKEN_COLLISION") /\ "AUTH_TOKEN_COLLISION" \in Code
    BY <1>5, Zenon DEF Insert, Code
  <2> QED
    BY <1>1, <1>2, <2>1, ReturnPreserves
<1> QED
  BY <1>3, <1>4, <1>5
\* The verification accepts a token only when neither it nor its session is revoked.
LEMMA VerifyPreserves == ASSUME AuthInv, NEW c \in Call, Verify(c) PROVE AuthInv'
<1> DEFINE k == call[c]
<1>1. /\ k \in CallRecord /\ CallInv(k) /\ k.pc = "verify" /\ k.op = "authenticate" /\ k.pc \in Locked
      /\ k.token \in Token /\ tokens[k.token].session = k.session
  BY DEF AuthInv, Verify, CallInv, CallShape, CallRows, Locked, Live, TokenCall
<1>2. UNCHANGED <<Rows, now>> /\ faults' \in 0 .. MaxFaults
  BY DEF Verify, AuthInv, ClockInv
<1>3. PICK code \in IF k.proof = "mismatch" THEN {"AUTH_TOKEN_UNKNOWN", "AUTH_FORBIDDEN"} ELSE {Verdict(c)} :
        Set(c, [k EXCEPT !.pc = "commit", !.answer = code])
  BY Zenon DEF Verify
<1>4. /\ Verdict(c) \in Code
      /\ Verdict(c) = "AUTH_AUTHENTICATE_OK" => tokens[k.token].revoked = 0 /\ sessions[k.session] = 0
  BY <1>1 DEF Verdict, Code
<1>5. /\ code \in Code
      /\ code = "AUTH_AUTHENTICATE_OK" => tokens[k.token].revoked = 0 /\ sessions[k.session] = 0
  BY <1>4 DEF Code
<1> DEFINE n == [k EXCEPT !.pc = "commit", !.answer = code]
<1>6. /\ n \in CallRecord /\ n.op = "authenticate" /\ n.pc = "commit" /\ n.proof = k.proof /\ n.at = k.at
      /\ n.tries = k.tries /\ n.session = k.session /\ n.token = k.token /\ n.answer = code
  BY <1>1, <1>5, Zenon DEF CallRecord, Live, Locked
<1>7. Set(c, n)
  BY <1>3, Zenon
<1> HIDE DEF n
<1>8. CallShape(n)
  BY <1>1, <1>6, SMTT(30) DEF CallInv, CallShape, Locked, Live, Ending, Revocation
<1>9. CallAnswer(n) /\ CallRows(n)
  BY <1>1, <1>5, <1>6, Zenon DEF CallInv, CallAnswer, CallRows, Revocation, TokenCall
<1>10. \A d \in Call \ {c} : Apart(n, call[d])
  BY <1>1, <1>6, HolderApart, Zenon
<1> QED
  BY <1>2, <1>6, <1>7, <1>8, <1>9, <1>10, PutPreserves, Zenon DEF CallInv

\* The rows a call is to revoke: Targets, of a call that holds its session.
LEMMA TargetRows ==
  ASSUME NEW c \in Call, call[c].op = "revoke_session" \/ call[c].token \in Token
  PROVE  \A t \in Token : t \in Targets(c) <=>
           /\ tokens[t].session = call[c].session /\ tokens[t].revoked = 0
           /\ call[c].op = "revoke_session" \/ t = call[c].token
  BY Zenon DEF Targets, ActiveTokens

\* A revocation goes on to its commit only when no row was created after its time.
LEMMA WritePreserves == ASSUME AuthInv, NEW c \in Call, Write(c) PROVE AuthInv'
<1> DEFINE k == call[c]
           mismatch == k.op = "revoke_bearer" /\ k.proof = "mismatch"
<1>1. /\ k \in CallRecord /\ CallInv(k) /\ k.pc = "write" /\ k.op \in Revocation /\ k.pc \in Locked
      /\ k.op = "revoke_session" \/ k.token \in Token
  BY DEF AuthInv, Write, CallInv, CallShape, Locked, Live, TokenCall, Revocation
<1>2. UNCHANGED <<Rows, now>> /\ faults' \in 0 .. MaxFaults
  BY DEF Write, AuthInv, ClockInv
<1>3. CASE mismatch
  <2>1. Return(c, "AUTH_TOKEN_UNKNOWN") /\ "AUTH_TOKEN_UNKNOWN" \in Code
    BY <1>3 DEF Write, Code
  <2> QED
    BY <1>2, <1>3, <2>1, ReturnPreserves
<1>4. CASE ~mismatch /\ ~CheckHolds(c)
  <2>1. Return(c, "AUTH_STORAGE_UNAVAILABLE") /\ "AUTH_STORAGE_UNAVAILABLE" \in Code
    BY <1>4, Zenon DEF Write, Code
  <2> QED
    BY <1>2, <2>1, ReturnPreserves
<1>5. CASE ~mismatch /\ CheckHolds(c)
  <2> DEFINE code == IF AlreadyRevoked(c) THEN "AUTH_REVOKE_NOOP" ELSE "AUTH_REVOKE_OK"
             n == [k EXCEPT !.pc = "commit", !.answer = code]
  <2>1. Set(c, n)
    BY <1>5 DEF Write
  <2>2. code \in Granted /\ code \in Code /\ code # "AUTH_AUTHENTICATE_OK"
    BY Zenon DEF Granted, Code
  <2>3. \A t \in Token : tokens[t].session = k.session /\ tokens[t].revoked = 0
                           /\ (k.op = "revoke_session" \/ t = k.token) => tokens[t].created <= k.at
    BY <1>1, <1>5, TargetRows DEF CheckHolds
  <2> HIDE DEF code
  <2>4. /\ n \in CallRecord /\ n.op = k.op /\ n.pc = "commit" /\ n.proof = k.proof /\ n.at = k.at
        /\ n.tries = k.tries /\ n.session = k.session /\ n.token = k.token /\ n.answer = code
    BY <1>1, <2>2, Zenon DEF CallRecord, Live, Locked
  <2> HIDE DEF n
  <2>5. CallShape(n)
    BY <1>1, <2>4 DEF CallInv, CallShape, Locked, Live, Ending, Revocation
  <2>6. CallAnswer(n)
    BY <2>2, <2>4, SMTT(30) DEF CallAnswer
  <2>7. CallRows(n)
    BY <1>1, <2>2, <2>3, <2>4, Zenon DEF CallInv, CallRows, Revocation, Ending
  <2>8. \A d \in Call \ {c} : Apart(n, call[d])
    BY <1>1, <2>4, HolderApart, Zenon DEF Revocation
  <2> QED
    BY <1>2, <2>1, <2>4, <2>5, <2>6, <2>7, <2>8, PutPreserves DEF CallInv
<1> QED
  BY <1>3, <1>4, <1>5

\* The caller of a commit of unknown outcome is told so; the transaction still has its locks.
LEMMA UnknownPreserves == ASSUME AuthInv, NEW c \in Call, CommitUnknown(c) PROVE AuthInv'
<1> DEFINE k == call[c]
           n == [k EXCEPT !.pc = "unknown", !.answer = "AUTH_STORAGE_UNAVAILABLE"]
<1>1. k \in CallRecord /\ CallInv(k) /\ k.pc = "commit" /\ k.pc \in Locked
  BY DEF AuthInv, CommitUnknown, Locked
<1>2. UNCHANGED <<Rows, now>> /\ faults' \in 0 .. MaxFaults
  BY AuthAssumption DEF CommitUnknown, Fault, AuthInv, ClockInv
<1>3. Set(c, n)
  BY DEF CommitUnknown
<1>4. /\ n \in CallRecord /\ n.op = k.op /\ n.pc = "unknown" /\ n.proof = k.proof /\ n.at = k.at
      /\ n.tries = k.tries /\ n.session = k.session /\ n.token = k.token
      /\ n.answer = "AUTH_STORAGE_UNAVAILABLE"
  BY <1>1, Zenon DEF CallRecord, Live, Locked, Code
<1> HIDE DEF n
<1>5. CallShape(n)
  BY <1>1, <1>4 DEF CallInv, CallShape, Locked, Live, Ending
<1>6. CallAnswer(n)
  BY <1>4, SMTT(30) DEF CallAnswer
<1>7. CallRows(n)
  BY <1>1, <1>4, Zenon DEF CallInv, CallRows, Locked, Ending
<1>8. \A d \in Call \ {c} : Apart(n, call[d])
  <2>1. \A d \in Call \ {c} : Apart(k, call[d])
    BY DEF AuthInv
  <2> QED
    BY <1>1, <1>4, <2>1 DEF Apart, Ending, Locked
<1> QED
  BY <1>2, <1>3, <1>4, <1>5, <1>6, <1>7, <1>8, PutPreserves DEF CallInv

\* A call that fails has changed nothing.
LEMMA FailPreserves == ASSUME AuthInv, NEW c \in Call, Fail(c) PROVE AuthInv'
<1> DEFINE code == IF call[c].pc = "generate" THEN "AUTH_ENTROPY_UNAVAILABLE" ELSE "AUTH_STORAGE_UNAVAILABLE"
<1>1. Return(c, code) /\ code \in Code
  BY DEF Fail, Code
<1>2. UNCHANGED <<Rows, now>> /\ faults' \in 0 .. MaxFaults
  BY AuthAssumption DEF Fail, Fault, AuthInv, ClockInv
<1>3. call[c].op = "revoke_bearer" => code = "AUTH_STORAGE_UNAVAILABLE"
  BY DEF AuthInv, CallInv, CallShape
<1> QED
  BY <1>1, <1>2, <1>3, ReturnPreserves

\* An answer that has been received is forgotten.
LEMMA ForgetPreserves == ASSUME AuthInv, NEW c \in Call, Forget(c) PROVE AuthInv'
<1>1. Set(c, NoCall) /\ UNCHANGED <<Rows, now>> /\ faults' \in 0 .. MaxFaults
  BY DEF Forget, AuthInv, ClockInv
<1>2. NoCall \in CallRecord
  BY Zenon DEF NoCall, CallRecord, Proof, Code
<1>3. CallShape(NoCall)
  BY AuthAssumption DEF NoCall, CallShape, AuthInv, ClockInv, Time, Locked, Live, Ending
<1>4. CallAnswer(NoCall) /\ CallRows(NoCall)
  BY Zenon DEF NoCall, CallAnswer, CallRows, Locked, Ending, TokenCall, Revocation
<1>5. \A d \in Call \ {c} : Apart(NoCall, call[d])
  BY Zenon DEF NoCall, Apart, Locked, Ending
<1> QED
  BY <1>1, <1>2, <1>3, <1>4, <1>5, PutPreserves DEF CallInv

------------------------------------------------------------------------------
(* Commits *)

\* What a commit does to the rows, said once for the three kinds of call.
PublishedRows(c) ==
  /\ \A s \in Session : sessions[s] # 0 \/ s # call[c].session => sessions'[s] = sessions[s]
  /\ \A t \in Token : tokens[t].revoked # 0 => tokens'[t] = tokens[t]
  /\ \A t \in Token : Exists(t) => tokens'[t] # NoRow /\ tokens'[t].session = tokens[t].session
  /\ \A t \in Token : tokens[t].session # call[c].session =>
       \/ tokens'[t] = tokens[t]
       \/ call[c].op = "issue" /\ t = call[c].token /\ ~Exists(t) /\ tokens'[t].session = call[c].session
  /\ call[c].op = "authenticate" => sessions' = sessions /\ tokens' = tokens
  /\ call[c].op = "revoke_bearer" => tokens'[call[c].token].revoked # 0

\* What a call that is about to commit is, and the rows it commits to.
LEMMA EndingCall ==
  ASSUME AuthInv, NEW c \in Call, call[c].pc \in Ending
  PROVE  /\ call[c] \in CallRecord /\ call[c].op \in Operation
         /\ call[c].session \in Session /\ call[c].at \in Nat /\ call[c].at <= now
         /\ call[c].op # "authenticate" => call[c].at \in Time
         /\ call[c].op # "revoke_session" => call[c].token \in Token
         /\ call[c].op \in TokenCall => Exists(call[c].token) /\ tokens[call[c].token].session = call[c].session
         /\ call[c].op = "issue" => ~Exists(call[c].token) /\ sessions[call[c].session] = 0
<1>1. call[c] \in CallRecord /\ CallShape(call[c]) /\ CallRows(call[c]) /\ call[c].pc \in Locked \cap Live
  BY Zenon DEF AuthInv, CallInv, Ending, Locked, Live
<1>2. call[c].op \in Operation /\ call[c].session \in Session /\ call[c].at \in Nat /\ call[c].at <= now
  BY <1>1, Zenon DEF CallShape, CallRecord
<1>3. now \in Time /\ MaxTime \in Nat
  BY AuthAssumption, Zenon DEF AuthInv, ClockInv
<1>4. call[c].op # "authenticate" => call[c].at \in Time
  BY <1>1, <1>2, <1>3 DEF CallShape, Operation, Revocation, Time
<1>5. call[c].op # "revoke_session" => call[c].token \in Token
  BY <1>1, <1>2, Zenon DEF CallShape, Operation, TokenCall
<1>6. /\ call[c].op \in TokenCall => Exists(call[c].token) /\ tokens[call[c].token].session = call[c].session
      /\ call[c].op = "issue" => ~Exists(call[c].token) /\ sessions[call[c].session] = 0
  BY <1>1, Zenon DEF CallRows
<1> QED
  BY <1>1, <1>2, <1>4, <1>5, <1>6

\* A token is stored: its session is not revoked, since the call has locked it.
LEMMA PublishIssue ==
  ASSUME AuthInv, NEW c \in Call, call[c].pc \in Ending, Publish(c), call[c].op = "issue"
  PROVE  RowsInv' /\ PublishedRows(c)
<1> DEFINE k == call[c]
           row == [session |-> k.session, created |-> k.at, expires |-> k.at + TTL, revoked |-> 0]
<1>1. /\ k.session \in Session /\ k.at \in Time /\ k.token \in Token /\ ~Exists(k.token)
      /\ sessions[k.session] = 0
  BY EndingCall
<1>2. sessions' = sessions /\ tokens' = [tokens EXCEPT ![k.token] = row]
  BY Zenon DEF Publish
<1>3. row \in TokenRow /\ row # NoRow /\ TokenRowOK(row) /\ row.session = k.session /\ row.revoked = 0
  BY <1>1, AuthAssumption DEF TokenRow, TokenRowOK, NoRow, Time
<1> HIDE DEF row
<1>4. /\ tokens \in [Token -> TokenRow] /\ \A t \in Token : TokenRowOK(tokens[t])
      /\ sessions \in [Session -> 0 .. MaxTime] /\ NoTokenLeft
  BY Zenon DEF AuthInv, RowsInv
<1>5. tokens'[k.token] = row /\ \A t \in Token \ {k.token} : tokens'[t] = tokens[t]
  BY <1>1, <1>2, <1>4
<1>6. tokens' \in [Token -> TokenRow] /\ \A t \in Token : TokenRowOK(tokens'[t])
  BY <1>2, <1>3, <1>4, <1>5, Zenon
<1>7. NoTokenLeft'
  BY <1>1, <1>2, <1>3, <1>4, <1>5, Zenon DEF NoTokenLeft, ActiveTokens
<1>8. tokens[k.token].revoked = 0
  BY <1>1 DEF Exists, NoRow
<1> QED
  BY <1>1, <1>2, <1>3, <1>4, <1>5, <1>6, <1>7, <1>8, Zenon DEF RowsInv, PublishedRows, Exists, TokenRowOK

\* Rows are revoked: none before it was created, and all of them when the session is revoked.
LEMMA PublishRevocation ==
  ASSUME AuthInv, NEW c \in Call, call[c].pc \in Ending, Publish(c), call[c].op \in Revocation
  PROVE  RowsInv' /\ PublishedRows(c)
<1> DEFINE k == call[c]
           hit(t) == /\ tokens[t].session = k.session /\ tokens[t].revoked = 0
                     /\ k.op = "revoke_session" \/ t = k.token
<1>1. /\ k.session \in Session /\ k.at \in Time /\ k.at <= now
      /\ k.op = "revoke_session" \/ k.token \in Token
      /\ k.op \in TokenCall => Exists(k.token) /\ tokens[k.token].session = k.session
  BY EndingCall DEF Revocation
<1>2. /\ sessions' = IF k.op = "revoke_session" /\ sessions[k.session] = 0
                     THEN [sessions EXCEPT ![k.session] = k.at] ELSE sessions
      /\ tokens' = [t \in Token |-> IF t \in Targets(c) THEN [tokens[t] EXCEPT !.revoked = k.at] ELSE tokens[t]]
  BY DEF Publish, Revocation
<1>3. /\ tokens \in [Token -> TokenRow] /\ \A t \in Token : TokenRowOK(tokens[t])
      /\ sessions \in [Session -> 0 .. MaxTime] /\ NoTokenLeft
  BY DEF AuthInv, RowsInv
<1>4. \A t \in Token : tokens'[t] = IF hit(t) THEN [tokens[t] EXCEPT !.revoked = k.at] ELSE tokens[t]
  BY <1>1, <1>2, TargetRows, Zenon
<1>5. \A t \in Token : hit(t) => tokens[t].created <= k.at
  BY Zenon DEF AuthInv, CallInv, CallRows
<1>6. k.at \in Nat /\ k.at # 0 /\ k.at \in 0 .. MaxTime /\ MaxTime \in Nat
  BY <1>1, AuthAssumption DEF Time
<1>7. ASSUME NEW t \in Token, hit(t)
      PROVE  /\ tokens'[t] \in TokenRow /\ tokens'[t] # NoRow /\ tokens'[t].session = k.session
             /\ tokens'[t].revoked = k.at /\ TokenRowOK(tokens'[t]) /\ Exists(t)
  <2>1. tokens'[t] = [tokens[t] EXCEPT !.revoked = k.at]
    BY <1>4, <1>7, Zenon
  <2>2. tokens[t] \in TokenRow /\ tokens[t].session = k.session /\ tokens[t].created <= k.at
    BY <1>3, <1>5, <1>7
  <2>3. /\ tokens'[t] \in TokenRow /\ tokens'[t].session = k.session /\ tokens'[t].revoked = k.at
        /\ tokens'[t].created = tokens[t].created /\ tokens'[t].expires = tokens[t].expires
    BY <1>6, <2>1, <2>2, Zenon DEF TokenRow
  <2>4. tokens[t] # NoRow /\ tokens'[t] # NoRow
    BY <1>1, <2>2, <2>3, AuthAssumption DEF NoRow
  <2>5. TokenRowOK(tokens'[t])
    BY <1>1, <1>3, <1>6, <2>2, <2>3, <2>4 DEF TokenRowOK, Time
  <2> QED
    BY <2>3, <2>4, <2>5 DEF Exists
<1>8. \A t \in Token : ~hit(t) => tokens'[t] = tokens[t]
  BY <1>4, Zenon
<1>9. tokens' \in [Token -> TokenRow] /\ \A t \in Token : TokenRowOK(tokens'[t])
  <2>1. \A t \in Token : tokens'[t] \in TokenRow /\ TokenRowOK(tokens'[t])
    BY <1>3, <1>7, <1>8
  <2> QED
    BY <1>2, <2>1, Zenon
<1>10. /\ sessions' \in [Session -> 0 .. MaxTime]
       /\ \A s \in Session : sessions[s] # 0 \/ s # k.session => sessions'[s] = sessions[s]
       /\ \A s \in Session : sessions'[s] # sessions[s] => s = k.session /\ k.op = "revoke_session"
  BY <1>1, <1>2, <1>3, <1>6
<1>11. NoTokenLeft'
  <2> SUFFICES ASSUME NEW s \in Session, sessions'[s] # 0, NEW t \in Token,
                      tokens'[t].session = s, tokens'[t].revoked = 0
               PROVE  FALSE
    BY Zenon DEF NoTokenLeft, ActiveTokens
  <2>1. ~hit(t) /\ tokens'[t] = tokens[t]
    BY <1>6, <1>7, <1>8, Zenon
  <2>2. CASE sessions[s] # 0
    BY <1>3, <2>1, <2>2, Zenon DEF NoTokenLeft, ActiveTokens
  <2>3. CASE sessions[s] = 0
    BY <1>10, <2>1, <2>3, Zenon
  <2> QED
    BY <2>2, <2>3, Zenon
<1>12. k.op = "revoke_bearer" => tokens'[k.token].revoked # 0
  <2> SUFFICES ASSUME k.op = "revoke_bearer" PROVE tokens'[k.token].revoked # 0
    BY Zenon
  <2>1. k.token \in Token /\ tokens[k.token].session = k.session
    BY <1>1 DEF TokenCall
  <2> QED
    BY <1>6, <1>7, <1>8, <2>1, Zenon
<1> HIDE DEF hit
<1>13. \A t \in Token : tokens[t].revoked # 0 \/ tokens[t].session # k.session => tokens'[t] = tokens[t]
  BY <1>8, Zenon DEF hit
<1>14. \A t \in Token : Exists(t) => tokens'[t] # NoRow /\ tokens'[t].session = tokens[t].session
  BY <1>7, <1>8, Zenon DEF Exists, hit
<1>15. RowsInv'
  BY <1>9, <1>10, <1>11, Zenon DEF RowsInv, TokenRowOK
<1> QED
  BY <1>10, <1>12, <1>13, <1>14, <1>15, Zenon DEF PublishedRows, Revocation

\* An authentication stores nothing.
LEMMA PublishAuthentication ==
  ASSUME AuthInv, NEW c \in Call, call[c].pc \in Ending, Publish(c), call[c].op = "authenticate"
  PROVE  RowsInv' /\ PublishedRows(c)
<1>1. sessions' = sessions /\ tokens' = tokens
  BY DEF Publish
<1>2. RowsInv'
  BY <1>1, Zenon DEF AuthInv, RowsInv, NoTokenLeft, ActiveTokens
<1> QED
  BY <1>1, <1>2 DEF PublishedRows, Exists
\* The three kinds of commit.
LEMMA PublishChanges ==
  ASSUME AuthInv, NEW c \in Call, call[c].pc \in Ending, Publish(c)
  PROVE  RowsInv' /\ PublishedRows(c)
<1>1. call[c].op \in {"issue", "authenticate"} \cup Revocation
  BY EndingCall, Zenon DEF Operation, Revocation
<1> QED
  BY <1>1, PublishIssue, PublishRevocation, PublishAuthentication, Zenon

\* Another call's record stays true of the rows: either it holds another session's lock, or
\* both are authentications and nothing has changed.
LEMMA OtherRows ==
  ASSUME AuthInv, NEW c \in Call, call[c].pc \in Ending, RowsInv', PublishedRows(c),
         NEW d \in Call \ {c}, call'[d] = call[d]
  PROVE  CallRows(call[d])'
<1> DEFINE m == call[d]
<1>1. m \in CallRecord /\ CallShape(m) /\ CallRows(m) /\ Apart(call[c], m) /\ call[c].pc \in Locked
  BY Zenon DEF AuthInv, CallInv, Ending, Locked
<1>2. /\ \A s \in Session : sessions[s] # 0 \/ s # call[c].session => sessions'[s] = sessions[s]
      /\ \A t \in Token : tokens[t].revoked # 0 => tokens'[t] = tokens[t]
      /\ \A t \in Token : Exists(t) => tokens'[t] # NoRow /\ tokens'[t].session = tokens[t].session
      /\ \A t \in Token : tokens[t].session # call[c].session =>
           \/ tokens'[t] = tokens[t]
           \/ call[c].op = "issue" /\ t = call[c].token /\ ~Exists(t) /\ tokens'[t].session = call[c].session
      /\ call[c].op = "authenticate" => sessions' = sessions /\ tokens' = tokens
  BY Zenon DEF PublishedRows
<1>3. ASSUME m.op \in TokenCall, m.pc \in Locked \cup {"session"}
      PROVE  tokens'[m.token] # NoRow /\ tokens'[m.token].session = m.session
  BY <1>1, <1>2, <1>3, Zenon DEF CallShape, CallRows, Live
<1>4. ASSUME m.op = "revoke_bearer", m.proof = "match", m.pc = "find"
      PROVE  tokens'[m.token] # NoRow
  BY <1>1, <1>2, <1>4, Zenon DEF CallShape, CallRows, Live, TokenCall
<1>5. ASSUME m.op = "revoke_bearer", m.proof = "match", m.pc = "done", m.answer \in Granted
      PROVE  m.token \in Token /\ tokens'[m.token].revoked # 0
  BY <1>1, <1>2, <1>5, Zenon DEF CallRows
<1>6. ASSUME m.pc \in Locked, m.session # call[c].session
      PROVE  /\ m.session \in Session /\ sessions'[m.session] = sessions[m.session]
             /\ \A t \in Token : tokens'[t].session = m.session => tokens'[t] = tokens[t]
             /\ \A t \in Token : tokens[t].session = m.session => tokens'[t] = tokens[t]
  <2>1. m.session \in Session /\ sessions'[m.session] = sessions[m.session]
    BY <1>1, <1>2, <1>6, Zenon DEF CallShape
  <2>2. call[c].session \in Session
    BY EndingCall, Zenon
  <2>3. ~Exists(call[c].token) => tokens[call[c].token].session = NoSession
    BY DEF Exists, NoRow
  <2>4. ASSUME NEW t \in Token, tokens'[t].session = m.session PROVE tokens'[t] = tokens[t]
    <3>1. CASE tokens[t].session # call[c].session
      BY <1>2, <1>6, <2>4, <3>1, Zenon
    <3>2. CASE tokens[t].session = call[c].session
      <4>1. Exists(t)
        BY <2>2, <3>2, AuthAssumption DEF Exists, NoRow
      <4> QED
        BY <1>2, <1>6, <2>4, <3>2, <4>1, Zenon
    <3> QED
      BY <3>1, <3>2, Zenon
  <2>5. ASSUME NEW t \in Token, tokens[t].session = m.session PROVE tokens'[t] = tokens[t]
    <3>1. Exists(t)
      BY <2>1, <2>5, AuthAssumption DEF Exists, NoRow
    <3> QED
      BY <1>2, <1>6, <2>5, <3>1, Zenon
  <2> QED
    BY <2>1, <2>4, <2>5, Zenon
<1>7. ASSUME m.pc \in Locked, m.session = call[c].session PROVE sessions' = sessions /\ tokens' = tokens
  BY <1>1, <1>2, <1>7, Zenon DEF Apart
<1>8. ASSUME m.op = "issue", m.pc \in Locked PROVE sessions'[m.session] = 0
  BY <1>1, <1>6, <1>7, <1>8, Zenon DEF CallRows
<1>9. ASSUME m.op = "issue", m.pc \in Ending PROVE tokens'[m.token] = NoRow
  <2>1. m.pc \in Locked /\ m.token \in Token /\ ~Exists(m.token)
    BY <1>1, <1>9, Zenon DEF CallShape, CallRows, Ending, Locked
  <2>2. CASE m.session = call[c].session
    BY <1>7, <2>1, <2>2, Zenon DEF Exists
  <2>3. CASE m.session # call[c].session
    <3>1. tokens[m.token].session # call[c].session
      BY <2>1, EndingCall, AuthAssumption DEF Exists, NoRow
    <3>2. ~(call[c].op = "issue" /\ m.token = call[c].token)
      BY <1>1, <1>9, Zenon DEF Apart
    <3> QED
      BY <1>2, <2>1, <3>1, <3>2, Zenon DEF Exists
  <2> QED
    BY <2>2, <2>3, Zenon
<1>10. ASSUME m.op \in Revocation, m.pc \in Ending, NEW t \in Token, tokens'[t].session = m.session,
              tokens'[t].revoked = 0, m.op = "revoke_session" \/ t = m.token
       PROVE  tokens'[t].created <= m.at
  <2>1. m.pc \in Locked
    BY <1>10, Zenon DEF Ending, Locked
  <2>2. tokens'[t] = tokens[t]
    BY <1>6, <1>7, <1>10, <2>1, Zenon
  <2> QED
    BY <1>1, <1>10, <2>2, Zenon DEF CallRows
<1>11. ASSUME m.op = "authenticate", m.pc = "commit", m.answer = "AUTH_AUTHENTICATE_OK"
       PROVE  tokens'[m.token].revoked = 0 /\ sessions'[m.session] = 0
  <2>1. m.pc \in Locked /\ m.token \in Token /\ tokens[m.token].session = m.session
    BY <1>1, <1>11, Zenon DEF CallShape, CallRows, Locked, Live, TokenCall
  <2>2. tokens[m.token].revoked = 0 /\ sessions[m.session] = 0
    BY <1>1, <1>11, Zenon DEF CallRows
  <2> QED
    BY <1>6, <1>7, <2>1, <2>2, Zenon
<1> QED
  BY <1>3, <1>4, <1>5, <1>8, <1>9, <1>10, <1>11, Zenon DEF CallRows, Exists

\* A commit, or the end of one whose outcome is unknown, is the last step of its call.
LEMMA EndPreserves ==
  ASSUME AuthInv, NEW c \in Call, call[c].pc \in Ending, NEW code \in Code, Publish(c), Return(c, code),
         UNCHANGED <<now, faults>>,
         call[c].op = "revoke_bearer" /\ call[c].proof = "match" => code \in Granted \cup {"AUTH_STORAGE_UNAVAILABLE"}
  PROVE  AuthInv'
<1> DEFINE k == call[c]
           n == [k EXCEPT !.pc = "done", !.answer = code]
<1>1. k \in CallRecord /\ CallInv(k) /\ call \in [Call -> CallRecord]
  BY DEF AuthInv
<1>2. /\ n \in CallRecord /\ n.op = k.op /\ n.proof = k.proof /\ n.pc = "done" /\ n.at = k.at
      /\ n.tries = k.tries /\ n.answer = code /\ n.token = k.token
  BY <1>1, Zenon DEF CallRecord
<1>3. call' = [call EXCEPT ![c] = n]
  BY Zenon DEF Return, Set
<1> HIDE DEF n
<1>4. call' \in [Call -> CallRecord] /\ call'[c] = n /\ \A d \in Call \ {c} : call'[d] = call[d]
  BY <1>1, <1>2, <1>3, Zenon
<1>5. RowsInv' /\ PublishedRows(c)
  BY PublishChanges
<1>6. ClockInv'
  BY Zenon DEF AuthInv, ClockInv
<1>7. CallInv(call[c])'
  <2>1. CallShape(n)
    BY <1>1, <1>2, Zenon DEF CallInv, CallShape, Locked, Live, Ending
  <2>2. CallShape(call[c])'
    BY <1>4, <2>1, Zenon DEF CallShape
  <2>3. CallAnswer(n)
    BY <1>2, Zenon DEF CallAnswer
  <2>4. CallAnswer(call[c])'
    BY <1>4, <2>3, Zenon DEF CallAnswer
  <2>5. k.op = "revoke_bearer" => k.token \in Token /\ tokens'[k.token].revoked # 0
    BY <1>5, EndingCall, Zenon DEF PublishedRows
  <2>6. CallRows(call[c])'
    BY <1>2, <1>4, <2>5, Zenon DEF CallRows, Locked, Ending
  <2> QED
    BY <1>4, <2>2, <2>4, <2>6, Zenon DEF CallInv
<1>8. ASSUME NEW d \in Call \ {c} PROVE CallInv(call[d])'
  <2>1. CallShape(call[d]) /\ CallAnswer(call[d])
    BY Zenon DEF AuthInv, CallInv
  <2>2. CallShape(call[d])' /\ CallAnswer(call[d])'
    BY <1>4, <2>1, Zenon DEF CallShape, CallAnswer
  <2>3. CallRows(call[d])'
    BY <1>4, <1>5, OtherRows, Zenon
  <2> QED
    BY <1>4, <2>2, <2>3, Zenon DEF CallInv
<1>9. ASSUME NEW d \in Call, NEW e \in Call, d # e PROVE Apart(call[d], call[e])'
  <2>1. \A m : Apart(n, m) /\ Apart(m, n)
    BY <1>2, Zenon DEF Apart, Locked, Ending
  <2>2. Apart(call'[d], call'[e])
    BY <1>4, <1>9, <2>1, Zenon DEF AuthInv
  <2> QED
    BY <2>2, Zenon DEF Apart
<1> QED
  BY <1>4, <1>5, <1>6, <1>7, <1>8, <1>9, Zenon DEF AuthInv

\* Commit and Settle.
LEMMA CommitPreserves == ASSUME AuthInv, NEW c \in Call, Commit(c) \/ Settle(c) PROVE AuthInv'
<1>1. call[c] \in CallRecord /\ CallAnswer(call[c]) /\ call[c].answer \in Code
  BY Zenon DEF AuthInv, CallInv, CallRecord
<1>2. CASE Commit(c)
  <2> DEFINE code == IF call[c].op = "issue" THEN "AUTH_ISSUE_OK" ELSE call[c].answer
  <2>1. code \in Code /\ Return(c, code) /\ Publish(c) /\ call[c].pc = "commit" /\ UNCHANGED <<now, faults>>
    BY <1>1, <1>2, Zenon DEF Commit, Code
  <2>2. call[c].op = "revoke_bearer" /\ call[c].proof = "match" => code \in Granted
    BY <1>1, <2>1, Zenon DEF CallAnswer
  <2> QED
    BY <2>1, <2>2, EndPreserves, Zenon DEF Ending
<1>3. CASE Settle(c)
  <2>1. [call[c] EXCEPT !.pc = "done"] = [call[c] EXCEPT !.pc = "done", !.answer = call[c].answer]
    BY <1>1, Zenon DEF CallRecord
  <2>2. Return(c, call[c].answer) /\ call[c].pc = "unknown" /\ UNCHANGED <<now, faults>>
    BY <1>3, <2>1, Zenon DEF Settle, Goto, Return
  <2>3. call[c].op = "revoke_bearer" /\ call[c].proof = "match" => call[c].answer = "AUTH_STORAGE_UNAVAILABLE"
    BY <1>1, <2>2, Zenon DEF CallAnswer
  <2>4. CASE Publish(c)
    BY <1>1, <2>2, <2>3, <2>4, EndPreserves, Zenon DEF Ending
  <2>5. CASE UNCHANGED Rows
    BY <1>1, <2>2, <2>3, <2>5, ReturnPreserves, Zenon DEF AuthInv, ClockInv
  <2> QED
    BY <1>3, <2>4, <2>5 DEF Settle
<1> QED
  BY <1>2, <1>3

------------------------------------------------------------------------------
(* The theorems *)

\* The clock only ever makes the times of the calls earlier.
LEMMA TickPreserves == ASSUME AuthInv, Tick PROVE AuthInv'
<1>1. /\ sessions' = sessions /\ tokens' = tokens /\ call' = call /\ faults' = faults
      /\ now' = now + 1 /\ now < MaxTime
  BY DEF Tick, Rows
<1>2. ClockInv' /\ RowsInv' /\ now <= now' /\ now \in Nat
  <2>1. ClockInv' /\ now <= now' /\ now \in Nat
    BY <1>1, AuthAssumption DEF AuthInv, ClockInv, Time
  <2>2. RowsInv'
    BY <1>1, Zenon DEF AuthInv, RowsInv, NoTokenLeft, ActiveTokens
  <2> QED
    BY <2>1, <2>2
<1>3. ASSUME NEW c \in Call PROVE CallInv(call[c])'
  <2>1. CallInv(call[c]) /\ call[c].at \in Nat
    BY DEF AuthInv, CallInv, CallRecord
  <2>2. CallShape(call[c])'
    BY <1>1, <1>2, <2>1 DEF CallInv, CallShape
  <2> QED
    BY <1>1, <2>1, <2>2, Zenon DEF CallInv, CallAnswer, CallRows, Exists
<1>4. \A c, d \in Call : c # d => Apart(call[c], call[d])'
  BY <1>1 DEF AuthInv, Apart
<1> QED
  BY <1>1, <1>2, <1>3, <1>4 DEF AuthInv

\* Every step keeps what the calls have read true.
LEMMA StepAuth == AuthInv /\ [Next]_vars => AuthInv'
<1> SUFFICES ASSUME AuthInv, [Next]_vars PROVE AuthInv'
  BY Zenon
<1>1. CASE UNCHANGED vars
  <2>1. /\ sessions' = sessions /\ tokens' = tokens /\ call' = call /\ faults' = faults /\ now' = now
    BY <1>1, Zenon DEF vars
  <2>2. ClockInv' /\ RowsInv'
    BY <2>1, Zenon DEF AuthInv, ClockInv, RowsInv, NoTokenLeft, ActiveTokens
  <2>3. ASSUME NEW c \in Call PROVE CallInv(call[c])'
    <3>1. CallInv(call[c])
      BY Zenon DEF AuthInv
    <3>2. CallShape(call[c])' /\ CallAnswer(call[c])'
      BY <2>1, <3>1, Zenon DEF CallInv, CallShape, CallAnswer
    <3>3. CallRows(call[c])'
      BY <2>1, <3>1, Zenon DEF CallInv, CallRows, Exists
    <3> QED
      BY <2>1, <3>1, <3>2, <3>3 DEF CallInv
  <2>4. \A c, d \in Call : c # d => Apart(call[c], call[d])'
    BY <2>1 DEF AuthInv, Apart
  <2> QED
    BY <2>1, <2>2, <2>3, <2>4 DEF AuthInv
<1>2. CASE Tick
  BY <1>2, TickPreserves, Zenon
<1>3. ASSUME NEW c \in Call, Step(c) PROVE AuthInv'
  BY <1>3, CallsPreserve, FindPreserves, LockPreserves, GeneratePreserves, InsertPreserves, VerifyPreserves,
     WritePreserves, CommitPreserves, UnknownPreserves, FailPreserves, ForgetPreserves
  DEF Step
<1> QED
  BY <1>1, <1>2, <1>3 DEF Next

\* The inductive invariant holds in every reachable state.
LEMMA AuthHolds == Spec => []AuthInv
  BY InitAuth, StepAuth, PTL DEF Spec

\* For any callers, sessions and tokens: a revoked session has no token that is not revoked, and
\* a log-out with a proven token is answered 204 only when it is revoked, and never 401
\* (RevokeSession, RevokeBearer).
THEOREM RevocationHolds == Spec => []RevocationInv
<1>1. AuthInv => RevocationInv
  <2> SUFFICES ASSUME AuthInv PROVE RevocationInv
    BY Zenon
  <2>1. TypeOK
    <3>1. \A t \in Token : Exists(t) =>
            /\ tokens[t].session \in Session
            /\ tokens[t].created \in Time /\ tokens[t].expires = tokens[t].created + TTL
            /\ tokens[t].revoked = 0 \/ tokens[t].revoked \in tokens[t].created .. MaxTime
      BY Zenon DEF AuthInv, RowsInv, TokenRowOK, Exists
    <3>2. ASSUME NEW c \in Call
          PROVE  /\ call[c].op \in Operation \cup {"none"}
                 /\ call[c].pc \in {"idle", "find", "session", "done"} \cup Locked
                 /\ call[c].at <= now /\ call[c].tries <= MaxIssueAttempts
      BY Zenon DEF AuthInv, CallInv, CallRecord, CallShape, Live
    <3> QED
      BY <3>1, <3>2, Zenon DEF AuthInv, ClockInv, RowsInv, TypeOK
  <2>2. LogoutConverges
    BY DEF AuthInv, CallInv, CallAnswer, CallRows, LogoutConverges, RevocationStatus, Granted
  <2> QED
    BY <2>1, <2>2 DEF RevocationInv, AuthInv, RowsInv
<1> QED
  BY <1>1, AuthHolds, PTL

\* A code that is answered 200 is the one of an accepted token.
LEMMA Accepted ==
  ASSUME NEW code \in Code, AuthenticationStatus(code) = 200 PROVE code = "AUTH_AUTHENTICATE_OK"
  BY SMTT(30) DEF AuthenticationStatus, Code, Granted

\* A step of a call touches no other call, and ends an authentication with that code only when it
\* commits the verdict of its verification.
LEMMA AcceptanceCommits ==
  ASSUME AuthInv, NEW c \in Call, Step(c), NEW d \in Call, call[d].op = "authenticate",
         call'[d].pc = "done", call[d].pc # "done", call'[d].answer = "AUTH_AUTHENTICATE_OK"
  PROVE  d = c /\ call[c].pc = "commit" /\ call[c].answer = "AUTH_AUTHENTICATE_OK"
<1>1. call \in [Call -> CallRecord] /\ call[c] \in CallRecord /\ CallShape(call[c]) /\ CallAnswer(call[c])
  BY DEF AuthInv, CallInv
<1>2. ASSUME NEW k, Set(c, k) PROVE d = c /\ call'[c] = k
  BY <1>1, <1>2 DEF Set
<1>3. ASSUME NEW code, Return(c, code) PROVE d = c /\ code = "AUTH_AUTHENTICATE_OK"
  <2> DEFINE n == [call[c] EXCEPT !.pc = "done", !.answer = code]
  <2>1. Set(c, n) /\ n.answer = code
    BY <1>1, <1>3 DEF Return, CallRecord
  <2> QED
    BY <1>2, <2>1, Zenon
<1>4. ASSUME NEW k, Set(c, k) PROVE k.pc = "done" /\ k.answer = "AUTH_AUTHENTICATE_OK"
  BY <1>2, <1>4, Zenon
<1>5. CASE Commit(c)
  BY <1>3, <1>5, Zenon DEF Commit
<1>6. ~CallSession(c) /\ ~CallToken(c)
  <2>1. ASSUME NEW op, NEW s, NEW t, NEW p, NEW pc \in {"find", "session"}, Begin(c, op, s, t, p, pc) PROVE FALSE
    <3>1. CASE p = "malformed"
      <4> DEFINE k == [NoCall EXCEPT !.op = op, !.pc = "done", !.proof = p, !.answer = Refusal(op)]
      <4>1. Set(c, k) /\ k.answer = Refusal(op)
        BY <2>1, <3>1, Zenon DEF Begin, NoCall
      <4>2. Refusal(op) # "AUTH_AUTHENTICATE_OK"
        BY DEF Refusal
      <4> HIDE DEF k
      <4> QED
        BY <1>4, <4>1, <4>2
    <3>2. CASE p # "malformed"
      <4> DEFINE k == [NoCall EXCEPT !.op = op, !.pc = pc, !.session = s, !.token = t, !.proof = p,
                                     !.at = IF op \in {"issue", "authenticate"} THEN 0 ELSE now, !.tries = 1]
      <4>1. Set(c, k) /\ k.pc = pc
        BY <2>1, <3>2 DEF Begin, NoCall
      <4> QED
        BY <1>4, <4>1, Zenon
    <3> QED
      BY <3>1, <3>2, Zenon
  <2> QED
    BY <2>1 DEF CallSession, CallToken
<1>7. ~Find(c)
  <2> DEFINE k == [call[c] EXCEPT !.pc = "session", !.session = tokens[call[c].token].session]
  <2>1. k.pc = "session"
    BY <1>1 DEF CallRecord
  <2>2. Find(c) => Set(c, k) \/ Return(c, "AUTH_TOKEN_UNKNOWN")
    BY DEF Find
  <2> HIDE DEF k
  <2> QED
    BY <1>3, <1>4, <2>1, <2>2
<1>8. \A pc : Goto(c, pc) => pc = "done"
  <2>1. \A pc : [call[c] EXCEPT !.pc = pc].pc = pc
    BY <1>1 DEF CallRecord
  <2> QED
    BY <1>4, <2>1, ZenonT(30) DEF Goto
<1>9. ~LockSession(c)
  BY <1>3, <1>8 DEF LockSession
<1>10. ~Generate(c)
  <2>1. \A t : [call[c] EXCEPT !.pc = "insert", !.token = t, !.at = now].pc = "insert"
    BY <1>1 DEF CallRecord
  <2> QED
    BY <1>4, <2>1, Zenon DEF Generate
<1>11. d = c
  BY <1>2, Zenon DEF Step, CallSession, CallToken, Begin, Find, LockSession, Generate, Insert, Verify, Write, Commit,
              CommitUnknown, Settle, Fail, Forget, Goto, Return
<1>12. ~Insert(c) /\ ~Write(c)
  BY <1>1, <1>11 DEF Insert, Write, CallShape, Revocation
<1>13. ~Verify(c) /\ ~CommitUnknown(c)
  <2>1. \A code : /\ [call[c] EXCEPT !.pc = "commit", !.answer = code].pc = "commit"
                  /\ [call[c] EXCEPT !.pc = "unknown", !.answer = code].pc = "unknown"
    BY <1>1 DEF CallRecord
  <2> QED
    BY <1>4, <2>1, Zenon DEF Verify, CommitUnknown
<1>14. ~Settle(c)
  <2>1. [call[c] EXCEPT !.pc = "done"].answer = call[c].answer
    BY <1>1, Zenon DEF CallRecord
  <2> QED
    BY <1>1, <1>4, <1>11, <2>1, Zenon DEF Settle, Goto, CallAnswer
<1>15. ~Fail(c)
  BY <1>3 DEF Fail
<1>16. ~Forget(c)
  BY <1>4 DEF Forget, NoCall
<1> QED
  BY <1>5, <1>6, <1>7, <1>9, <1>10, <1>11, <1>12, <1>13, <1>14, <1>15, <1>16, Zenon DEF Step

\* For any callers, sessions and tokens: a revocation is for ever, and no authentication that
\* ends after it accepts what it has revoked (Authenticate holds its locks until its commit).
THEOREM RevocationIsFinal == Spec => NeverOvertaken
<1> DEFINE Fine == /\ \A s \in Session : sessions[s] # 0 => sessions'[s] = sessions[s]
                   /\ \A t \in Token : tokens[t].revoked # 0 => tokens'[t] = tokens[t]
                   /\ \A c \in Call :
                        call[c].op = "authenticate" /\ call'[c].pc = "done" /\ call[c].pc # "done"
                          /\ AuthenticationStatus(call'[c].answer) = 200 =>
                        tokens[call[c].token].revoked = 0 /\ sessions[tokens[call[c].token].session] = 0
<1>1. ASSUME AuthInv, Next PROVE Fine
  <2>1. CASE Tick
    BY <2>1, Zenon DEF Tick, Rows
  <2>2. ASSUME NEW c \in Call, Step(c) PROVE Fine
    <3>1. /\ \A s \in Session : sessions[s] # 0 => sessions'[s] = sessions[s]
          /\ \A t \in Token : tokens[t].revoked # 0 => tokens'[t] = tokens[t]
      <4>1. CASE UNCHANGED Rows
        BY <4>1, Zenon DEF Rows
      <4>2. CASE call[c].pc \in Ending /\ Publish(c)
        BY <1>1, <4>2, PublishChanges DEF PublishedRows
      <4>3. UNCHANGED Rows \/ (call[c].pc \in Ending /\ Publish(c))
        BY <2>2, ZenonT(30)
        DEF Step, CallSession, CallToken, Find, LockSession, Generate, Insert, Verify, Write, Commit,
            CommitUnknown, Settle, Fail, Forget, Ending
      <4> QED
        BY <4>1, <4>2, <4>3, Zenon
    <3>2. ASSUME NEW d \in Call, call[d].op = "authenticate", call'[d].pc = "done", call[d].pc # "done",
                 AuthenticationStatus(call'[d].answer) = 200
          PROVE  tokens[call[d].token].revoked = 0 /\ sessions[tokens[call[d].token].session] = 0
      <4>1. AuthInv'
        BY <1>1, StepAuth
      <4>2. call'[d].answer = "AUTH_AUTHENTICATE_OK"
        BY <3>2, <4>1, Accepted, Zenon DEF AuthInv, CallInv, CallRecord
      <4>3. d = c /\ call[c].pc = "commit" /\ call[c].answer = "AUTH_AUTHENTICATE_OK"
        BY <1>1, <2>2, <3>2, <4>2, AcceptanceCommits, Zenon
      <4>4. CallRows(call[c])
        BY <1>1, Zenon DEF AuthInv, CallInv
      <4> QED
        BY <3>2, <4>3, <4>4 DEF CallRows, Locked, TokenCall
    <3> QED
      BY <3>1, <3>2, Zenon
  <2> QED
    BY <1>1, <2>1, <2>2, Zenon DEF Next
<1>2. AuthInv /\ [Next]_vars => [Fine]_vars
  BY <1>1
<1> QED
  BY <1>2, AuthHolds, PTL DEF Spec, NeverOvertaken

------------------------------------------------------------------------------
(* The store on the device: the inductive invariant. *)

Opening == {"prepare", "check", "migrate", "publish", "write_next", "bind", "opened", "open"}
Quarantining == {"mark", "write_marker", "rename_marker", "write_rnext", "remark", "move"}
Calls == [pc : {"idle", "open_root", "find"} \cup Opening \cup Quarantining,
          op : {"none", "open", "rebuild", "quarantine"}, arg : Account \cup Name \cup {Absent}]

Types ==
  /\ active \in Directory \cup {NoDir}
  /\ quarantined \in [Name -> Directory \cup {NoDir}]
  /\ initialized \in Instance \cup {Absent, Legacy}
  /\ recovery \in Name \cup {Absent, Torn}
  /\ owner \in [Instance -> Account \cup {NoAccount}]
  /\ flagged \subseteq Created /\ damaged \subseteq Created /\ lost \subseteq Created
  /\ cut \in Name \cup {Absent}
  /\ diskFaults \in 0 .. MaxDiskFaults
  /\ lock \in Calls

\* A database is in one place, and what is in a place was created.
Evidence ==
  /\ \A i \in Created \ lost : \E p \in Name \cup {Absent} : Places(i) = {p}
  /\ active # NoDir => active.db \in Created \cup {0}
  /\ \A n \in Name : quarantined[n] # NoDir => quarantined[n].db \in Created \cup {0}
  /\ Bound => initialized \in Created

\* Where there ever was a database, the directory does not look new.
NotNew == Created # {} => active # NoDir \/ initialized # Absent \/ recovery # Absent

\* What the running call has found out.
CallKnows ==
  /\ lock = Idle \/ lock.pc # "idle"
  /\ lock.pc \in Opening \cup {"open_root", "find"} => lock.op \in {"open", "rebuild"} /\ lock.arg \in Account
  /\ lock.pc = "open_root" => lock.op = "open"
  /\ lock.pc = "find" => lock.op = "rebuild"
  /\ lock.pc \in Quarantining => lock.op = "quarantine" /\ lock.arg \in Name
  /\ lock.pc \in Opening /\ lock.op = "open" => recovery = Absent
  /\ lock.pc = "prepare" /\ lock.op = "rebuild" => Bound \/ \E i \in Created : owner[i] = lock.arg
  /\ lock.pc \in Opening \ {"prepare"} => active # NoDir
  /\ lock.pc \in Opening \ {"prepare", "migrate"} => active.db \in Instance
  /\ lock.pc = "migrate" => /\ active.db = 0
                            /\ lock.op = "open" => Created = {}
                            /\ \A i \in Created : owner[i] = lock.arg
  /\ lock.pc = "bind" => active.next = active.db
  /\ lock.pc \in {"opened", "open"} => initialized = active.db
  /\ lock.pc = "open" => recovery = Absent
  /\ lock.pc \in {"write_rnext", "remark"} => active # NoDir
  /\ lock.pc = "remark" => active.rnext = lock.arg
  /\ lock.pc = "move" => recovery = lock.arg

IndInv == Types /\ Evidence /\ NotNew /\ ReplacementInv /\ CallKnows

------------------------------------------------------------------------------
(* The state after a step that leaves part of it alone. *)

\* A step that keeps the databases keeps the set of them, and what is said of replacements.
LEMMA SameStore ==
  ASSUME IndInv, UNCHANGED store
  PROVE  Created' = Created /\ ReplacementInv'
BY DEF IndInv, store, Created, ReplacementInv, ReplacementFlagged, AccountBound

\* A step that leaves every database where it is keeps the evidence: it may write markers in
\* the active directory, and bind or unbind the initialized marker.
LEMMA KeepEvidence ==
  ASSUME IndInv, UNCHANGED <<store, quarantined>>,
         \/ active' = active
         \/ active # NoDir /\ active' # NoDir /\ active'.db = active.db,
         initialized' = initialized \/ initialized' \in Created \cup {Absent, Legacy}
  PROVE  Evidence'
<1>1. Created' = Created /\ lost' = lost
  BY SameStore DEF store
<1>2. \A i : Places(i)' = Places(i)
  BY DEF Places
<1>3. (Bound => initialized \in Created)'
  BY <1>1 DEF IndInv, Evidence, Bound
<1>4. (active # NoDir => active.db \in Created \cup {0})'
  BY <1>1 DEF IndInv, Evidence
<1> QED
  BY <1>1, <1>2, <1>3, <1>4 DEF IndInv, Evidence

\* No call runs, and nothing is known of it.
LEMMA IdleKnows ==
  ASSUME lock' = Idle
  PROVE  CallKnows' /\ lock' \in Calls
BY DEF CallKnows, Idle, Calls, Opening, Quarantining

\* The step of a call that only reads: everything but the call stays, or it returns an error.
LEMMA ReadOnly ==
  ASSUME IndInv, UNCHANGED <<disk, store, diskFaults>>, cut' \in Name \cup {Absent},
         lock' \in Calls, CallKnows'
  PROVE  IndInv'
<1>1. Created' = Created /\ ReplacementInv'
  BY SameStore
<1>2. Evidence'
  BY KeepEvidence DEF disk
<1>3. NotNew' /\ Types'
  BY <1>1 DEF IndInv, NotNew, Types, disk, store
<1> QED
  BY <1>1, <1>2, <1>3 DEF IndInv

\* A call that returns an error leaves the disk alone.
LEMMA Refused ==
  ASSUME IndInv, UNCHANGED disk, NEW code, code # "ok", Answer(code)
  PROVE  IndInv'
<1>1. lock' = Idle /\ cut' = cut /\ UNCHANGED <<store, diskFaults>>
  BY DEF Answer
<1> QED
  BY <1>1, IdleKnows, ReadOnly DEF IndInv, Types

\* The step of a call from one place to the next: its operation and argument stay.
LEMMA GotoCall ==
  ASSUME IndInv, NEW p \in Opening \cup Quarantining, Proceed(p)
  PROVE  /\ lock' \in Calls
         /\ lock'.pc = p /\ lock'.op = lock.op /\ lock'.arg = lock.arg
         /\ lock' # Idle /\ lock'.pc # "idle"
BY DEF IndInv, Types, Calls, Proceed, Idle, Opening, Quarantining

\* What a call that opens a store has found out so far.
LEMMA OpeningCall ==
  ASSUME IndInv, lock.pc \in Opening \cup {"open_root", "find"}
  PROVE  /\ lock.op \in {"open", "rebuild"} /\ lock.arg \in Account
         /\ lock.pc = "open_root" => lock.op = "open"
         /\ lock.pc = "find" => lock.op = "rebuild"
         /\ lock.pc \in Opening /\ lock.op = "open" => recovery = Absent
         /\ lock.pc \in Opening \ {"prepare"} => active # NoDir
         /\ lock.pc \in Opening \ {"prepare", "migrate"} => active.db \in Instance
BY Zenon DEF IndInv, CallKnows

\* A call that quarantines has a name for it.
LEMMA QuarantineCall ==
  ASSUME IndInv, lock.pc \in Quarantining
  PROVE  lock.op = "quarantine" /\ lock.arg \in Name
BY Zenon DEF IndInv, CallKnows

\* The next place of a call that opens a store, other than the creation of a database.
LEMMA OpeningGoes ==
  ASSUME IndInv, NEW p \in Opening \ {"migrate", "open"}, Proceed(p),
         lock.op \in {"open", "rebuild"}, lock.arg \in Account,
         lock.op = "open" => recovery' = Absent,
         p = "prepare" /\ lock.op = "rebuild" => (Bound \/ \E i \in Created : owner[i] = lock.arg)',
         p # "prepare" => active' # NoDir /\ active'.db \in Instance,
         p = "bind" => active'.next = active'.db,
         p = "opened" => initialized' = active'.db
  PROVE  CallKnows' /\ lock' \in Calls
<1>1. /\ lock' \in Calls /\ lock'.pc = p /\ lock'.op = lock.op /\ lock'.arg = lock.arg
      /\ lock'.pc # "idle"
  BY GotoCall, Zenon
<1> QED
  BY <1>1 DEF CallKnows, Opening, Quarantining

\* The next place of a call that quarantines.
LEMMA QuarantineGoes ==
  ASSUME IndInv, NEW p \in Quarantining, Proceed(p),
         lock.op = "quarantine", lock.arg \in Name,
         p \in {"write_rnext", "remark"} => active' # NoDir,
         p = "remark" => active'.rnext = lock.arg,
         p = "move" => recovery' = lock.arg
  PROVE  CallKnows' /\ lock' \in Calls
<1>1. /\ lock' \in Calls /\ lock'.pc = p /\ lock'.op = lock.op /\ lock'.arg = lock.arg
      /\ lock'.pc # "idle"
  BY GotoCall, Zenon
<1> QED
  BY <1>1 DEF CallKnows, Opening, Quarantining

------------------------------------------------------------------------------
(* The initial state and the actions, one lemma each. *)

\* The empty directory satisfies the invariant.
LEMMA InitInd == StoreInit => IndInv
<1> SUFFICES ASSUME StoreInit PROVE IndInv
  OBVIOUS
<1>1. Created = {}
  BY DEF StoreInit, Created
<1>2. Types
  BY <1>1, RecoveryAssumption DEF StoreInit, Types, Idle, Calls
<1>3. Evidence
  BY <1>1, Zenon DEF StoreInit, Evidence, Bound
<1> QED
  BY <1>1, <1>2, <1>3 DEF IndInv, StoreInit, NotNew, ReplacementInv, ReplacementFlagged, AccountBound,
     CallKnows, Idle, Opening, Quarantining

\* open, quarantine and rebuild start.
LEMMA StartInd ==
  ASSUME IndInv, NEW op, NEW arg, NEW pc, Start(op, arg, pc),
         \/ op = "open" /\ arg \in Account /\ pc = "open_root"
         \/ op = "rebuild" /\ arg \in Account /\ pc = "find"
         \/ op = "quarantine" /\ arg \in Name /\ pc = "mark"
  PROVE  IndInv'
<1>1. lock' \in Calls
  BY Zenon DEF Start, Calls, Opening, Quarantining
<1>2. CallKnows'
  BY DEF Start, CallKnows, Opening, Quarantining
<1> QED
  BY <1>1, <1>2, ReadOnly DEF Start, IndInv, Types

\* open goes on only where no recovery is pending.
LEMMA OpenRootInd ==
  ASSUME IndInv, OpenRoot
  PROVE  IndInv'
<1>1. CASE recovery # Absent
  BY <1>1, Refused, Zenon DEF OpenRoot
<1>2. CASE recovery = Absent
  <2>1. Proceed("prepare") /\ UNCHANGED disk /\ Keep
    BY <1>2, Zenon DEF OpenRoot
  <2>2. CallKnows' /\ lock' \in Calls
    BY <1>2, <2>1, OpeningCall, OpeningGoes, Zenon DEF OpenRoot, Opening, disk
  <2> QED
    BY <2>1, <2>2, ReadOnly DEF Keep, IndInv, Types
<1> QED
  BY <1>1, <1>2

\* rebuild goes on with the account of the marker, or of the database in the quarantine.
LEMMA FindInd ==
  ASSUME IndInv, FindQuarantine
  PROVE  IndInv'
<1>1. CASE \E code \in {"RecoveryRequired", "StaleGeneration"} : Answer(code)
  BY <1>1, Refused, Zenon DEF FindQuarantine
<1>2. CASE ~\E code \in {"RecoveryRequired", "StaleGeneration"} : Answer(code)
  <2>1. /\ Proceed("prepare") /\ UNCHANGED disk /\ Keep
        /\ recovery \in Name /\ quarantined[recovery] # NoDir
        /\ Bound \/ QuarantinedAccount(recovery) = lock.arg
    BY <1>2 DEF FindQuarantine, IndInv, Types
  <2>2. Bound \/ \E i \in Created : owner[i] = lock.arg
    <3>1. lock.arg \in Account
      BY DEF FindQuarantine, IndInv, CallKnows
    <3> QED
      BY <2>1, <3>1, RecoveryAssumption, Zenon DEF QuarantinedAccount, IndInv, Evidence
  <2>3. (Bound \/ \E i \in Created : owner[i] = lock.arg)'
    BY <2>1, <2>2, GotoCall, SameStore, Zenon DEF Keep, Bound, disk, store, Opening
  <2>4. CallKnows' /\ lock' \in Calls
    BY <2>1, <2>3, OpeningCall, OpeningGoes, Zenon DEF FindQuarantine, Opening
  <2> QED
    BY <2>1, <2>4, ReadOnly DEF Keep, IndInv, Types
<1> QED
  BY <1>1, <1>2

\* prepare takes an existing database, or creates a directory that may be created: for open
\* there never was a database, for rebuild every earlier one is of the same account.
LEMMA PrepareInd ==
  ASSUME IndInv, Prepare
  PROVE  IndInv'
<1>1. CASE \E code \in {"RecoveryRequired", "StaleGeneration"} : Answer(code) /\ UNCHANGED disk
  BY <1>1, Refused, Zenon
<1>2. CASE active # NoDir /\ active.db # 0 /\ Proceed("check") /\ UNCHANGED disk /\ Keep
  <2>1. active.db \in Instance
    BY <1>2, Zenon DEF IndInv, Evidence, Created
  <2>2. CallKnows' /\ lock' \in Calls
    BY <1>2, <2>1, OpeningCall, OpeningGoes, Zenon DEF Prepare, Opening, disk
  <2> QED
    BY <1>2, <2>2, ReadOnly, Zenon DEF Keep, IndInv, Types
<1>3. CASE /\ ~(Bound /\ owner[initialized] # lock.arg) /\ active = NoDir /\ MayCreate
           /\ active' = [db |-> 0, next |-> Absent, rnext |-> Absent]
           /\ Proceed("migrate")
           /\ UNCHANGED <<quarantined, initialized, recovery>> /\ Keep
  <2>1. active' \in Directory /\ active' # NoDir /\ active'.db = 0
    BY <1>3, RecoveryAssumption DEF Directory
  <2>2. Created' = Created /\ ReplacementInv' /\ owner' = owner /\ lost' = lost
    BY <1>3, SameStore, Zenon DEF Keep, store
  <2>3. Types'
    BY <1>3, <2>1, <2>2, GotoCall, Zenon DEF IndInv, Types, Keep, store, Opening
  <2>4. Evidence'
    <3>1. \A i \in Created : Places(i)' = Places(i)
      BY <1>3, <2>1 DEF Places, Created, Instance
    <3> QED
      BY <1>3, <2>1, <2>2, <3>1, Zenon DEF IndInv, Evidence, Bound
  <2>5. lock.op = "open" => Created = {}
    BY <1>3, Zenon DEF Prepare, IndInv, NotNew, MayCreate, CallKnows, Opening
  <2>6. \A i \in Created : owner[i] = lock.arg
    <3>1. CASE lock.op = "open"
      BY <3>1, <2>5
    <3>2. CASE lock.op = "rebuild"
      <4>1. \E i \in Created : owner[i] = lock.arg
        BY <1>3, <3>2, Zenon DEF Prepare, IndInv, Evidence, CallKnows
      <4> QED
        BY <4>1, Zenon DEF IndInv, ReplacementInv, AccountBound
    <3> QED
      BY <3>1, <3>2 DEF Prepare, IndInv, CallKnows, Opening
  <2>7. CallKnows'
    <3>1. /\ lock'.pc = "migrate" /\ lock'.op = lock.op /\ lock'.arg = lock.arg
          /\ recovery' = recovery
      BY <1>3, GotoCall, Zenon DEF Opening
    <3>2. /\ lock.op \in {"open", "rebuild"} /\ lock.arg \in Account
          /\ lock.op = "open" => recovery = Absent
      BY OpeningCall, Zenon DEF Prepare, Opening
    <3> QED
      BY <2>1, <2>2, <2>5, <2>6, <3>1, <3>2 DEF CallKnows, Opening, Quarantining
  <2> QED
    BY <2>1, <2>2, <2>3, <2>4, <2>7, Zenon DEF IndInv, NotNew
<1> QED
  BY <1>1, <1>2, <1>3 DEF Prepare

\* The checks of an existing database.
LEMMA CheckInd ==
  ASSUME IndInv, Check
  PROVE  IndInv'
<1>1. CASE \E code \in {"Corrupt", "RecoveryRequired", "StaleGeneration"} : Answer(code)
  BY <1>1, Refused, Zenon DEF Check
<1>2. CASE Proceed("publish") /\ Keep
  <2>1. CallKnows' /\ lock' \in Calls
    BY <1>2, OpeningCall, OpeningGoes, Zenon DEF Check, Opening, disk
  <2> QED
    BY <1>2, <2>1, ReadOnly, Zenon DEF Check, Keep, IndInv, Types
<1> QED
  BY <1>1, <1>2 DEF Check

\* A new database is the first, or it is flagged; it belongs to the account of the others.
LEMMA MigrateInd ==
  ASSUME IndInv, Migrate
  PROVE  IndInv'
<1>1. PICK i \in Instance \ Created :
         /\ \A j \in Instance \ Created : i <= j
         /\ active' = [active EXCEPT !.db = i]
         /\ owner' = [owner EXCEPT ![i] = lock.arg]
         /\ flagged' = IF lock.op = "rebuild" THEN flagged \cup {i} ELSE flagged
  BY Zenon DEF Migrate
<1>2. /\ Proceed("publish")
      /\ UNCHANGED <<quarantined, initialized, recovery, damaged, lost, result, cut, diskFaults>>
  BY DEF Migrate
<1>3. /\ lock.arg \in Account /\ active \in Directory /\ active # NoDir /\ active.db = 0
      /\ lock.op \in {"open", "rebuild"}
      /\ lock.op = "open" => Created = {}
      /\ lock.op = "open" => recovery = Absent
      /\ \A j \in Created : owner[j] = lock.arg
  BY DEF Migrate, IndInv, CallKnows, Types, Opening
<1>4. active' \in Directory /\ active' # NoDir /\ active'.db = i
  BY <1>1, <1>3, RecoveryAssumption DEF Directory, Instance
<1>5. Created' = Created \cup {i}
  BY <1>1, <1>3, RecoveryAssumption, Zenon DEF IndInv, Types, Created
<1>6. Types'
  <2>1. owner' \in [Instance -> Account \cup {NoAccount}]
    BY <1>1, <1>3 DEF IndInv, Types
  <2>2. flagged' \subseteq Created' /\ damaged' \subseteq Created' /\ lost' \subseteq Created'
    BY <1>1, <1>2, <1>5, Zenon DEF IndInv, Types
  <2> QED
    BY <1>2, <1>4, <2>1, <2>2, GotoCall DEF IndInv, Types, Opening
<1>7. Evidence'
  <2>1. \A j \in Created : Places(j)' = Places(j)
    BY <1>1, <1>2, <1>3, <1>4 DEF Places, Created, Instance
  <2>2. Places(i)' = {Absent}
    BY <1>1, <1>2, <1>4 DEF Places, IndInv, Evidence, Instance
  <2>3. \A j \in Created' \ lost' : \E p \in Name \cup {Absent} : Places(j)' = {p}
    BY <1>2, <1>5, <2>1, <2>2, Zenon DEF IndInv, Evidence
  <2> QED
    BY <1>2, <1>4, <1>5, <2>3, Zenon DEF IndInv, Evidence, Bound
<1>8. ReplacementInv'
  <2>1. ReplacementFlagged'
    <3>1. CASE lock.op = "open"
      BY <3>1, <1>1, <1>3, <1>5, RecoveryAssumption DEF Instance, ReplacementFlagged
    <3>2. CASE lock.op = "rebuild"
      BY <3>2, <1>1, <1>5 DEF IndInv, ReplacementInv, ReplacementFlagged
    <3> QED
      BY <1>3, <3>1, <3>2
  <2>2. \A j \in Created' : owner'[j] = lock.arg
    BY <1>1, <1>3, <1>5 DEF IndInv, Types, Created
  <2> QED
    BY <2>1, <2>2 DEF ReplacementInv, AccountBound
<1>9. CallKnows'
  BY <1>1, <1>2, <1>3, <1>4, OpeningGoes, Zenon DEF Opening
<1> QED
  BY <1>4, <1>6, <1>7, <1>8, <1>9 DEF IndInv, NotNew

\* A step that writes a marker in the active directory, or moves one out of it: the
\* databases stay where they are.
LEMMA MarkerStep ==
  ASSUME IndInv, Keep, UNCHANGED quarantined, lock' \in Calls, CallKnows',
         active \in Directory, active' \in Directory, active'.db = active.db,
         initialized' = initialized \/ initialized' \in Created,
         recovery' \in Name \cup {Absent, Torn}
  PROVE  IndInv'
<1>1. active # NoDir /\ active' # NoDir
  BY RecoveryAssumption
<1>2. Created' = Created /\ ReplacementInv'
  BY SameStore DEF Keep
<1>3. Evidence'
  BY <1>1, KeepEvidence, Zenon DEF Keep
<1>4. Types'
  BY <1>2 DEF IndInv, Types, Keep, store, Created
<1> QED
  BY <1>1, <1>2, <1>3, <1>4 DEF IndInv, NotNew

\* publish: the marker binds the database already, or a candidate for it is written.
LEMMA PublishInd ==
  ASSUME IndInv, PublishMarker
  PROVE  IndInv'
<1>1. CASE Answer("RecoveryRequired") /\ UNCHANGED disk
  BY <1>1, Refused, Zenon
<1>2. CASE initialized = active.db /\ Proceed("opened") /\ UNCHANGED disk /\ Keep
  <2>1. CallKnows' /\ lock' \in Calls
    BY <1>2, OpeningCall, OpeningGoes, Zenon DEF PublishMarker, Opening, disk
  <2> QED
    BY <1>2, <2>1, ReadOnly, Zenon DEF Keep, IndInv, Types
<1>3. CASE active.next = active.db /\ Proceed("bind") /\ UNCHANGED disk /\ Keep
  <2>1. CallKnows' /\ lock' \in Calls
    BY <1>3, OpeningCall, OpeningGoes, Zenon DEF PublishMarker, Opening, disk
  <2> QED
    BY <1>3, <2>1, ReadOnly, Zenon DEF Keep, IndInv, Types
<1>4. CASE /\ active' = [active EXCEPT !.next = Torn]
           /\ Proceed("write_next")
           /\ UNCHANGED <<quarantined, initialized, recovery>> /\ Keep
  <2>1. active \in Directory
    BY DEF PublishMarker, IndInv, CallKnows, Types, Opening
  <2>2. active' \in Directory /\ active'.db = active.db
    BY <1>4, <2>1, Zenon DEF Directory
  <2>3. CallKnows' /\ lock' \in Calls
    <3>1. active' # NoDir
      BY <2>2, RecoveryAssumption
    <3> QED
      BY <1>4, <2>2, <3>1, OpeningCall, OpeningGoes, Zenon DEF PublishMarker, Opening
  <2> QED
    BY <1>4, <2>1, <2>2, <2>3, MarkerStep, Zenon DEF IndInv, Types
<1> QED
  BY <1>1, <1>2, <1>3, <1>4 DEF PublishMarker

\* The candidate names the active database.
LEMMA WriteNextInd ==
  ASSUME IndInv, WriteNext
  PROVE  IndInv'
<1>1. active \in Directory /\ active.db \in Instance
  BY DEF WriteNext, IndInv, CallKnows, Types, Opening
<1>2. active' \in Directory /\ active'.db = active.db /\ active'.next = active.db
  BY <1>1 DEF WriteNext, Directory
<1>3. CallKnows' /\ lock' \in Calls
  <2>1. active' # NoDir
    BY <1>2, RecoveryAssumption
  <2> QED
    BY <1>1, <1>2, <2>1, OpeningCall, OpeningGoes, Zenon DEF WriteNext, Opening
<1> QED
  BY <1>1, <1>2, <1>3, MarkerStep DEF WriteNext, IndInv, Types

\* The candidate becomes the initialized marker.
LEMMA BindInd ==
  ASSUME IndInv, Bind
  PROVE  IndInv'
<1>1. active \in Directory /\ active.db \in Instance /\ active.next = active.db
  BY DEF Bind, IndInv, CallKnows, Types, Opening
<1>2. active' \in Directory /\ active'.db = active.db /\ initialized' = active.db
  BY <1>1, Zenon DEF Bind, Directory
<1>3. active.db \in Created
  BY <1>1, RecoveryAssumption DEF IndInv, Evidence, Instance
<1>4. CallKnows' /\ lock' \in Calls
  <2>1. active' # NoDir
    BY <1>2, RecoveryAssumption
  <2> QED
    BY <1>1, <1>2, <2>1, OpeningCall, OpeningGoes, Zenon DEF Bind, Opening
<1> QED
  BY <1>1, <1>2, <1>3, <1>4, MarkerStep, Zenon DEF Bind, IndInv, Types

\* The store is in use: its marker binds it, and no recovery is pending any more.
LEMMA OpenedInd ==
  ASSUME IndInv, Opened
  PROVE  IndInv'
<1>1. CASE Answer("RecoveryRequired") /\ UNCHANGED disk
  BY <1>1, Refused
<1>2. CASE /\ Answer("ok") /\ UNCHANGED <<active, quarantined, initialized>>
           /\ recovery' = Absent
  <2>1. /\ active \in Directory /\ active # NoDir /\ active.db \in Instance
        /\ initialized = active.db
        /\ lock.op \in {"open", "rebuild"} /\ lock.arg \in Account
    BY DEF Opened, IndInv, CallKnows, Types, Opening
  <2>2. lock' = [lock EXCEPT !.pc = "open"] /\ cut' = cut /\ UNCHANGED <<store, diskFaults>>
    BY <1>2, <2>1, Zenon DEF Answer
  <2>3. lock' \in Calls /\ lock'.pc = "open" /\ lock'.op = lock.op /\ lock'.arg = lock.arg
    BY <2>2, Zenon DEF IndInv, Types, Calls, Opening
  <2>4. CallKnows'
    BY <1>2, <2>1, <2>3, Zenon DEF CallKnows, Opening, Quarantining
  <2>5. Created' = Created /\ ReplacementInv'
    BY <2>2, SameStore
  <2>6. Evidence'
    BY <1>2, <2>2, KeepEvidence, Zenon
  <2>7. Types'
    BY <1>2, <2>2, <2>3, <2>5, Zenon DEF IndInv, Types, store
  <2> QED
    BY <1>2, <2>1, <2>4, <2>5, <2>6, <2>7, Zenon DEF IndInv, NotNew
<1>3. lock.op = "open" => recovery = Absent
  BY Zenon DEF Opened, IndInv, CallKnows, Opening
<1> QED
  BY <1>1, <1>2, <1>3, Zenon DEF Opened, disk

\* quarantine begins an incident, or joins the one that is pending.
LEMMA MarkInd ==
  ASSUME IndInv, Mark
  PROVE  IndInv'
<1>1. CASE Answer("RecoveryRequired") /\ UNCHANGED disk
  BY <1>1, Refused
<1>2. CASE Proceed("rename_marker") /\ UNCHANGED disk /\ Keep
  <2>1. CallKnows' /\ lock' \in Calls
    BY <1>2, QuarantineCall, QuarantineGoes, Zenon DEF Mark, Quarantining
  <2> QED
    BY <1>2, <2>1, ReadOnly, Zenon DEF Keep, IndInv, Types
<1>3. CASE /\ active # NoDir
           /\ recovery' = Torn
           /\ Proceed("write_marker")
           /\ UNCHANGED <<active, quarantined, initialized>> /\ Keep
  <2>1. CallKnows' /\ lock' \in Calls
    BY <1>3, QuarantineCall, QuarantineGoes, Zenon DEF Mark, Quarantining
  <2> QED
    BY <1>3, <2>1, MarkerStep, Zenon DEF IndInv, Types
<1> QED
  BY <1>1, <1>2, <1>3, Zenon DEF Mark

\* A step that only writes the RECOVERY marker, and leaves it in place.
LEMMA RecoveryStep ==
  ASSUME IndInv, Keep, UNCHANGED <<active, quarantined, initialized>>,
         recovery' \in Name, lock' \in Calls, CallKnows'
  PROVE  IndInv'
<1>1. Created' = Created /\ ReplacementInv'
  BY SameStore DEF Keep
<1>2. Evidence'
  BY KeepEvidence, Zenon DEF Keep
<1>3. Types'
  BY <1>1 DEF IndInv, Types, Keep, store
<1>4. recovery' # Absent
  BY RecoveryAssumption
<1> QED
  BY <1>1, <1>2, <1>3, <1>4, Zenon DEF IndInv, NotNew

\* The RECOVERY marker gets its name.
LEMMA WriteMarkerInd ==
  ASSUME IndInv, WriteMarker
  PROVE  IndInv'
<1>1. lock.arg \in Name /\ recovery' = lock.arg
  BY Zenon DEF WriteMarker, IndInv, CallKnows, Quarantining
<1>2. CallKnows' /\ lock' \in Calls
  BY <1>1, QuarantineCall, QuarantineGoes, Zenon DEF WriteMarker, Quarantining
<1> QED
  BY <1>1, <1>2, RecoveryStep, Zenon DEF WriteMarker

\* A fresh name after a failed rebuild: its candidate is there, or is created.
LEMMA RenameMarkerInd ==
  ASSUME IndInv, RenameMarker
  PROVE  IndInv'
<1>1. CASE Answer("RecoveryRequired") /\ UNCHANGED disk
  BY <1>1, Refused
<1>2. CASE recovery = lock.arg /\ Proceed("move") /\ UNCHANGED disk /\ Keep
  <2>1. CallKnows' /\ lock' \in Calls
    BY <1>2, QuarantineCall, QuarantineGoes, Zenon DEF RenameMarker, Quarantining, disk
  <2> QED
    BY <1>2, <2>1, ReadOnly, Zenon DEF Keep, IndInv, Types
<1>3. CASE /\ active # NoDir /\ active.rnext = lock.arg
           /\ Proceed("remark") /\ UNCHANGED disk /\ Keep
  <2>1. CallKnows' /\ lock' \in Calls
    BY <1>3, QuarantineCall, QuarantineGoes, Zenon DEF RenameMarker, Quarantining, disk
  <2> QED
    BY <1>3, <2>1, ReadOnly, Zenon DEF Keep, IndInv, Types
<1>4. CASE /\ active # NoDir
           /\ active' = [active EXCEPT !.rnext = Torn]
           /\ Proceed("write_rnext")
           /\ UNCHANGED <<quarantined, initialized, recovery>> /\ Keep
  <2>1. active \in Directory
    BY <1>4 DEF IndInv, Types
  <2>2. active' \in Directory /\ active'.db = active.db
    BY <1>4, <2>1, Zenon DEF Directory
  <2>3. CallKnows' /\ lock' \in Calls
    <3>1. active' # NoDir
      BY <2>2, RecoveryAssumption
    <3> QED
      BY <1>4, <3>1, QuarantineCall, QuarantineGoes, Zenon DEF RenameMarker, Quarantining
  <2> QED
    BY <1>4, <2>1, <2>2, <2>3, MarkerStep, Zenon DEF IndInv, Types
<1> QED
  BY <1>1, <1>2, <1>3, <1>4, Zenon DEF RenameMarker

\* The candidate gets its name.
LEMMA WriteRnextInd ==
  ASSUME IndInv, WriteRnext
  PROVE  IndInv'
<1>1. active \in Directory /\ lock.arg \in Name
  BY DEF WriteRnext, IndInv, CallKnows, Types, Quarantining
<1>2. active' \in Directory /\ active'.db = active.db /\ active'.rnext = lock.arg
  BY <1>1, Zenon DEF WriteRnext, Directory
<1>3. CallKnows' /\ lock' \in Calls
  <2>1. active' # NoDir
    BY <1>2, RecoveryAssumption
  <2> QED
    BY <1>1, <1>2, <2>1, QuarantineCall, QuarantineGoes, Zenon DEF WriteRnext, Quarantining
<1> QED
  BY <1>1, <1>2, <1>3, MarkerStep, Zenon DEF WriteRnext, IndInv, Types

\* The candidate becomes the RECOVERY marker.
LEMMA RemarkInd ==
  ASSUME IndInv, Remark
  PROVE  IndInv'
<1>1. active \in Directory /\ lock.arg \in Name /\ active.rnext = lock.arg
  BY DEF Remark, IndInv, CallKnows, Types, Quarantining
<1>2. active' \in Directory /\ active'.db = active.db /\ recovery' = lock.arg
  BY <1>1, Zenon DEF Remark, Directory
<1>3. CallKnows' /\ lock' \in Calls
  <2>1. active' # NoDir
    BY <1>2, RecoveryAssumption
  <2> QED
    BY <1>1, <1>2, <2>1, QuarantineCall, QuarantineGoes, Zenon DEF Remark, Quarantining
<1> QED
  BY <1>1, <1>2, <1>3, MarkerStep, Zenon DEF Remark, IndInv, Types

\* The active directory becomes a quarantine of a free name: its database changes places.
LEMMA MoveInd ==
  ASSUME IndInv, Move
  PROVE  IndInv'
<1>0. lock.op = "quarantine" /\ lock.arg \in Name /\ recovery = lock.arg /\ recovery # Absent
  BY RecoveryAssumption, Zenon DEF Move, IndInv, CallKnows, Quarantining
<1>1. CASE Answer("RecoveryRequired") /\ UNCHANGED disk
  BY <1>1, Refused
<1>2. CASE Answer("ok") /\ UNCHANGED disk
  <2>1. lock' = Idle /\ cut' = Absent /\ UNCHANGED <<store, diskFaults>>
    BY <1>0, <1>2, Zenon DEF Answer
  <2> QED
    BY <1>2, <2>1, IdleKnows, ReadOnly, Zenon
<1>3. CASE /\ quarantined[lock.arg] = NoDir /\ active # NoDir
           /\ quarantined' = [quarantined EXCEPT ![lock.arg] = active]
           /\ active' = NoDir
           /\ Answer("ok")
           /\ UNCHANGED <<initialized, recovery>>
  <2>1. lock' = Idle /\ cut' = Absent /\ UNCHANGED <<store, diskFaults>>
    BY <1>0, <1>3, Zenon DEF Answer
  <2>2. Created' = Created /\ ReplacementInv' /\ lost' = lost
    BY <2>1, SameStore, Zenon DEF store
  <2>3. /\ quarantined' \in [Name -> Directory \cup {NoDir}]
        /\ quarantined'[lock.arg] = active
        /\ \A n \in Name : n # lock.arg => quarantined'[n] = quarantined[n]
    BY <1>0, <1>3, Zenon DEF IndInv, Types
  <2>4. Types'
    BY <1>3, <2>1, <2>2, <2>3, IdleKnows, Zenon DEF IndInv, Types, store
  <2>5. \A i : active.db = i /\ Places(i) = {Absent} => Places(i)' = {lock.arg}
    BY <1>0, <1>3, <2>3, RecoveryAssumption, Zenon DEF Places
  <2>6. \A i : active.db # i => Places(i)' = Places(i)
    BY <1>0, <1>3, <2>3, Zenon DEF Places
  <2>7. \A i \in Created \ lost : active.db = i => Places(i) = {Absent}
    <3> SUFFICES ASSUME NEW i \in Created \ lost, active.db = i PROVE Places(i) = {Absent}
      BY Zenon
    <3>1. Absent \in Places(i)
      BY <1>3, Zenon DEF Places
    <3> QED
      BY <3>1 DEF IndInv, Evidence
  <2>8. \A i \in Created' \ lost' : \E p \in Name \cup {Absent} : Places(i)' = {p}
    BY <1>0, <2>2, <2>5, <2>6, <2>7, Zenon DEF IndInv, Evidence
  <2>9. Evidence'
    BY <1>3, <2>2, <2>3, <2>8, Zenon DEF IndInv, Evidence, Bound
  <2> QED
    BY <1>0, <1>3, <2>1, <2>2, <2>4, <2>9, IdleKnows, Zenon DEF IndInv, NotNew
<1> QED
  BY <1>1, <1>2, <1>3, Zenon DEF Move

\* The store is dropped, or the process is killed.
LEMMA CloseKillInd ==
  ASSUME IndInv, Close \/ Kill
  PROVE  IndInv'
<1>1. CASE Close
  BY <1>1, IdleKnows, ReadOnly, Zenon DEF Close, IndInv, Types
<1>2. CASE Kill
  <2>1. cut' \in Name \cup {Absent}
    BY <1>2, Zenon DEF Kill, IndInv, Types, CallKnows, Quarantining
  <2>2. UNCHANGED <<disk, store>> /\ lock' = Idle /\ diskFaults' \in 0 .. MaxDiskFaults
    BY <1>2, RecoveryAssumption DEF Kill, DiskFault, IndInv, Types
  <2>3. Created' = Created /\ ReplacementInv'
    BY <2>2, SameStore
  <2>4. Evidence'
    BY <2>2, KeepEvidence, Zenon DEF disk
  <2>5. Types'
    BY <2>1, <2>2, <2>3, IdleKnows, Zenon DEF IndInv, Types, disk, store
  <2> QED
    BY <2>2, <2>3, <2>4, <2>5, IdleKnows, Zenon DEF IndInv, NotNew, disk
<1> QED
  BY <1>1, <1>2, Zenon

\* A database is damaged: nothing of the invariant asks whether it can be read.
LEMMA DamageInd ==
  ASSUME IndInv, Damage
  PROVE  IndInv'
<1>1. /\ UNCHANGED <<disk, owner, flagged, lost, lock, result, cut>>
      /\ damaged' \subseteq Created /\ diskFaults' \in 0 .. MaxDiskFaults
  BY RecoveryAssumption DEF Damage, DiskFault, IndInv, Types
<1>2. Created' = Created
  BY <1>1 DEF Created
<1>3. \A i : Places(i)' = Places(i)
  BY <1>1, Zenon DEF Places, disk
<1>4. Types' /\ NotNew'
  BY <1>1, <1>2, Zenon DEF IndInv, Types, NotNew, disk
<1>5. Evidence'
  BY <1>1, <1>2, <1>3, Zenon DEF IndInv, Evidence, Bound, disk
<1>6. ReplacementInv'
  BY <1>1, <1>2, Zenon DEF IndInv, ReplacementInv, ReplacementFlagged, AccountBound
<1>7. CallKnows'
  BY <1>1, <1>2 DEF IndInv, CallKnows, Bound, disk
<1> QED
  BY <1>4, <1>5, <1>6, <1>7, Zenon DEF IndInv

\* The initialized marker is lost, or is only a generic one.
LEMMA LoseMarkerInd ==
  ASSUME IndInv, LoseMarker
  PROVE  IndInv'
<1>1. /\ UNCHANGED <<active, quarantined, recovery, store, lock, cut>> /\ lock' = Idle
      /\ initialized' \in {Absent, Legacy} /\ diskFaults' \in 0 .. MaxDiskFaults
      /\ active # NoDir \/ recovery # Absent
  BY RecoveryAssumption DEF LoseMarker, DiskFault, IndInv, Types
<1>2. Created' = Created /\ ReplacementInv'
  BY <1>1, SameStore, Zenon
<1>3. Evidence'
  BY <1>1, KeepEvidence, Zenon
<1>4. Types'
  BY <1>1, <1>2, Zenon DEF IndInv, Types, store
<1> QED
  BY <1>1, <1>2, <1>3, <1>4, IdleKnows, Zenon DEF IndInv, NotNew

\* The active directory is deleted from outside, and its database counts as lost.
LEMMA LoseActiveInd ==
  ASSUME IndInv, LoseActive
  PROVE  IndInv'
<1>1. /\ UNCHANGED <<quarantined, initialized, recovery, owner, flagged, damaged, lock, cut>>
      /\ lock' = Idle /\ active' = NoDir /\ diskFaults' \in 0 .. MaxDiskFaults
      /\ active # NoDir /\ lost' = lost \cup ({active.db} \ {0})
      /\ initialized # Absent \/ recovery # Absent
  BY RecoveryAssumption DEF LoseActive, DiskFault, IndInv, Types
<1>2. Created' = Created /\ ReplacementInv'
  BY <1>1, Zenon DEF Created, IndInv, ReplacementInv, ReplacementFlagged, AccountBound
<1>3. lost' \subseteq Created
  BY <1>1, Zenon DEF IndInv, Types, Evidence
<1>4. \A i \in Created \ lost' : Places(i)' = Places(i)
  BY <1>1 DEF Places, Created, Instance
<1>5. Evidence'
  BY <1>1, <1>2, <1>4, Zenon DEF IndInv, Evidence, Bound
<1>6. Types'
  BY <1>1, <1>2, <1>3, Zenon DEF IndInv, Types
<1> QED
  BY <1>1, <1>2, <1>5, <1>6, IdleKnows, Zenon DEF IndInv, NotNew

------------------------------------------------------------------------------
(* The theorems. *)

\* Every step keeps the invariant.
LEMMA NextInd == IndInv /\ [StoreNext]_storeVars => IndInv'
<1> SUFFICES ASSUME IndInv, [StoreNext]_storeVars PROVE IndInv'
  BY Zenon
<1>1. CASE UNCHANGED storeVars
  <2>1. CallKnows' /\ lock' \in Calls
    <3>1. Created' = Created /\ Bound' = Bound
      BY <1>1 DEF storeVars, disk, store, Created, Bound
    <3> QED
      BY <1>1, <3>1 DEF storeVars, disk, store, IndInv, Types, CallKnows
  <2> QED
    BY <1>1, <2>1, ReadOnly, Zenon DEF storeVars, IndInv, Types
<1>2. ASSUME NEW a \in Account, CallOpen(a) \/ CallRebuild(a) PROVE IndInv'
  BY <1>2, StartInd DEF CallOpen, CallRebuild
<1>3. ASSUME NEW n \in Name, CallQuarantine(n) PROVE IndInv'
  BY <1>3, StartInd DEF CallQuarantine
<1>4. CASE OpenStep
  BY Zenon, <1>4, OpenRootInd, PrepareInd, CheckInd, MigrateInd, PublishInd, WriteNextInd, BindInd,
     OpenedInd DEF OpenStep
<1>5. CASE QuarantineStep
  BY <1>5, MarkInd, WriteMarkerInd, RenameMarkerInd, WriteRnextInd, RemarkInd, MoveInd, Zenon
     DEF QuarantineStep
<1>6. CASE FindQuarantine \/ Close \/ Kill
  BY <1>6, FindInd, CloseKillInd
<1>7. CASE Damage \/ LoseMarker \/ LoseActive
  BY <1>7, DamageInd, LoseMarkerInd, LoseActiveInd
<1> QED
  BY <1>1, <1>2, <1>3, <1>4, <1>5, <1>6, <1>7, Zenon DEF StoreNext, StoreStep

\* The inductive invariant holds in every state.
THEOREM Inductive == StoreSpec => []IndInv
BY InitInd, NextInd, PTL DEF StoreSpec

\* Whatever is opened, quarantined, rebuilt, killed, damaged or deleted: every committed
\* database that nobody deleted from outside is in exactly one place, and a store in use is
\* the one that the initialized marker binds, with no recovery pending.
THEOREM EvidenceIsKept == StoreSpec => []DirectoryInv
<1>1. IndInv => DirectoryInv
  <2> SUFFICES ASSUME IndInv PROVE DirectoryInv
    BY Zenon
  <2>1. EvidenceKept
    BY Zenon DEF IndInv, Evidence, EvidenceKept
  <2>2. OpenIsBound
    BY Zenon DEF IndInv, CallKnows, OpenIsBound
  <2>3. StoreTypeOK
    BY DEF IndInv, Types, CallKnows, StoreTypeOK, Opening
  <2> QED
    BY <2>1, <2>2, <2>3 DEF DirectoryInv
<1> QED
  BY <1>1, Inductive, PTL

\* Every database after the first is flagged as a replacement for ever, and all of them belong
\* to one account, also where only the quarantine could say to whom.
THEOREM ReplacementsKnown == StoreSpec => []ReplacementInv
<1>1. IndInv => ReplacementInv
  BY DEF IndInv
<1> QED
  BY <1>1, Inductive, PTL
==============================================================================
