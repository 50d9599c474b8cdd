----------------------------- MODULE AuthSession -----------------------------
(***************************************************************************)
(* Sessions and bearer tokens: server/auth/session (Issue, Authenticate,   *)
(* AuthenticateBearer, RevokeSession, RevokeToken, RevokeBearer), its      *)
(* transactions in server/storage/authsession, and the status that         *)
(* server/auth/bearerhttp gives to their codes.                            *)
(*                                                                         *)
(* Every call is one READ COMMITTED transaction whose statements are       *)
(* separate steps.  It locks the session row first: FOR SHARE to           *)
(* authenticate, FOR UPDATE otherwise.  A token row is locked only by a    *)
(* transaction that holds its session's lock in the same mode, so nobody   *)
(* ever waits for a token row and those locks need no state of their own.  *)
(*                                                                         *)
(* A token stands for its id and its digest.  proof says whether the       *)
(* credential or binding a caller presents is the stored one.              *)
(***************************************************************************)
EXTENDS Naturals, FiniteSets

CONSTANTS
  Call,              \* calls; a call that has ended may be made again
  Session, NoSession,
  Token,             \* what the entropy source may produce
  NoToken,
  TTL,               \* lifetime of a token
  MaxIssueAttempts,  \* 3 in the code
  MaxTime,           \* bound: the clock
  MaxFaults          \* bound: failed statements and commits of unknown outcome

ASSUME AuthAssumption ==
  /\ NoSession \notin Session /\ NoToken \notin Token
  /\ {TTL, MaxIssueAttempts, MaxTime} \subseteq Nat \ {0}
  /\ MaxFaults \in Nat

VARIABLES
  sessions, \* im_sessions.revoked_at of each session; 0 is NULL
  tokens,   \* im_auth_tokens: session, created, expires, revoked
  now,      \* the injected clock
  call,     \* the running calls
  faults

vars == <<sessions, tokens, now, call, faults>>

Time == 1 .. MaxTime
NoRow == [session |-> NoSession, created |-> 0, expires |-> 0, revoked |-> 0]
Exists(t) == tokens[t] # NoRow
ActiveTokens(s) == {t \in Token : tokens[t].session = s /\ tokens[t].revoked = 0}

NoCall == [op |-> "none", pc |-> "idle", session |-> NoSession, token |-> NoToken,
           proof |-> "match", at |-> 0, tries |-> 0, answer |-> "none"]

Operation == {"issue", "authenticate", "revoke_session", "revoke_token", "revoke_bearer"}
Proof == {"match", "mismatch", "malformed"}
Locked == {"generate", "insert", "verify", "write", "commit", "unknown"}

Init ==
  /\ sessions = [s \in Session |-> 0]
  /\ tokens = [t \in Token |-> NoRow]
  /\ now = 1
  /\ call = [c \in Call |-> NoCall]
  /\ faults = 0

------------------------------------------------------------------------------
Set(c, record) == call' = [call EXCEPT ![c] = record]
Goto(c, pc) == Set(c, [call[c] EXCEPT !.pc = pc])
Return(c, code) == Set(c, [call[c] EXCEPT !.pc = "done", !.answer = code])
Rows == <<sessions, tokens>>

\* The input checks that end a call before it reads the clock or opens a transaction.
Refusal(op) ==
  IF op \in {"authenticate", "revoke_bearer"} THEN "AUTH_TOKEN_MALFORMED" ELSE "AUTH_INVALID_INPUT"

\* A new call.  Revocations read the clock here, before their transaction.  A bearer that can
\* prove its token has been given it, so the token exists.
Begin(c, op, s, t, p, pc) ==
  Set(c, IF p = "malformed"
         THEN [NoCall EXCEPT !.op = op, !.pc = "done", !.proof = p, !.answer = Refusal(op)]
         ELSE [NoCall EXCEPT !.op = op, !.pc = pc, !.session = s, !.token = t, !.proof = p,
                             !.at = IF op \in {"issue", "authenticate"} THEN 0 ELSE now,
                             !.tries = 1])

\* Issue and RevokeSession name a session, which may not exist (NoSession).
CallSession(c) ==
  /\ call[c].pc = "idle"
  /\ \E op \in {"issue", "revoke_session"}, s \in Session \cup {NoSession}, p \in Proof :
       Begin(c, op, s, NoToken, p, "session")
  /\ UNCHANGED <<Rows, now, faults>>

\* Authenticate, AuthenticateBearer and RevokeBearer present a token; RevokeToken names its id.
CallToken(c) ==
  /\ call[c].pc = "idle"
  /\ \E op \in {"authenticate", "revoke_token", "revoke_bearer"}, t \in Token, p \in Proof :
       /\ op # "revoke_token" /\ p = "match" => Exists(t)
       /\ Begin(c, op, NoSession, t, p, "find")
  /\ UNCHANGED <<Rows, now, faults>>

\* The first statement on a token: its session, without a lock.
Find(c) ==
  /\ call[c].pc = "find"
  /\ IF Exists(call[c].token)
     THEN Set(c, [call[c] EXCEPT !.pc = "session", !.session = tokens[call[c].token].session])
     ELSE Return(c, "AUTH_TOKEN_UNKNOWN")
  /\ UNCHANGED <<Rows, now, faults>>

\* Mutant: Authenticate reads the session row without FOR SHARE, so revocations do not wait.
LockFreeShared(c) ==
  \A d \in Call \ {c} :
    call[d].session = call[c].session /\ call[d].pc \in Locked => call[d].op = "authenticate"
      \/ call[c].op = "authenticate"

\* FOR UPDATE waits for every holder, FOR SHARE only for those of FOR UPDATE.
LockFree(c) ==
  \A d \in Call \ {c} :
    call[d].session = call[c].session /\ call[d].pc \in Locked =>
      call[c].op = "authenticate" /\ call[d].op = "authenticate"

\* The session row is locked and read.  Ownership comes before revocation.
LockSession(c) ==
  LET s == call[c].session  op == call[c].op
  IN  /\ call[c].pc = "session"
      /\ LockFree(c)
      /\ IF s = NoSession THEN Return(c, "AUTH_SESSION_NOT_FOUND")
         ELSE IF op \in {"issue", "revoke_session", "revoke_token"} /\ call[c].proof = "mismatch"
         THEN Return(c, "AUTH_FORBIDDEN")
         ELSE IF op = "issue" /\ sessions[s] # 0 THEN Return(c, "AUTH_SESSION_REVOKED")
         ELSE Goto(c, CASE op = "issue" -> "generate" [] op = "authenticate" -> "verify" [] OTHER -> "write")
      /\ UNCHANGED <<Rows, now, faults>>

\* The generate callback: the clock is read, and the id drawn, with the session locked.
Generate(c) ==
  /\ call[c].pc = "generate"
  /\ \E t \in Token : Set(c, [call[c] EXCEPT !.pc = "insert", !.token = t, !.at = now])
  /\ UNCHANGED <<Rows, now, faults>>

\* The INSERT waits for an uncommitted row with the same key; a collision rolls the attempt back.
Insert(c) ==
  /\ call[c].pc = "insert"
  /\ \A d \in Call \ {c} :
       ~(call[d].op = "issue" /\ call[d].pc \in {"commit", "unknown"} /\ call[d].token = call[c].token)
  /\ IF ~Exists(call[c].token) THEN Goto(c, "commit")
     ELSE IF call[c].tries < MaxIssueAttempts
     THEN Set(c, [call[c] EXCEPT !.pc = "session", !.tries = @ + 1, !.token = NoToken, !.at = 0])
     ELSE Return(c, "AUTH_TOKEN_COLLISION")
  /\ UNCHANGED <<Rows, now, faults>>

\* The verify callback: digest or binding, token, session, expiry, in this order.  The outcome
\* is kept until the transaction has ended.
Verdict(c) ==
  LET row == tokens[call[c].token]
  IN  CASE row.revoked # 0 -> "AUTH_TOKEN_REVOKED"
        [] row.revoked = 0 /\ sessions[row.session] # 0 -> "AUTH_SESSION_REVOKED"
        [] row.revoked = 0 /\ sessions[row.session] = 0 /\ now >= row.expires -> "AUTH_TOKEN_EXPIRED"
        [] OTHER -> "AUTH_AUTHENTICATE_OK"

Verify(c) ==
  /\ call[c].pc = "verify"
  /\ \E code \in IF call[c].proof = "mismatch" THEN {"AUTH_TOKEN_UNKNOWN", "AUTH_FORBIDDEN"}
                 ELSE {Verdict(c)} :
       Set(c, [call[c] EXCEPT !.pc = "commit", !.answer = code])
  /\ UNCHANGED <<Rows, now, faults>>

------------------------------------------------------------------------------
\* The token rows a revocation updates: WHERE revoked_at IS NULL.
Targets(c) ==
  IF call[c].op = "revoke_session" THEN ActiveTokens(call[c].session)
  ELSE {call[c].token} \cap ActiveTokens(call[c].session)

\* im_auth_tokens_revocation_check: no row may be revoked before it was created.
CheckHolds(c) == \A t \in Targets(c) : tokens[t].created <= call[c].at

AlreadyRevoked(c) ==
  IF call[c].op = "revoke_session" THEN sessions[call[c].session] # 0
  ELSE tokens[call[c].token].revoked # 0

\* The statements of a revocation after the session lock.
Write(c) ==
  /\ call[c].pc = "write"
  /\ IF call[c].op = "revoke_bearer" /\ call[c].proof = "mismatch" THEN Return(c, "AUTH_TOKEN_UNKNOWN")
     ELSE IF ~CheckHolds(c) THEN Return(c, "AUTH_STORAGE_UNAVAILABLE")
     ELSE Set(c, [call[c] EXCEPT !.pc = "commit",
                                 !.answer = IF AlreadyRevoked(c) THEN "AUTH_REVOKE_NOOP" ELSE "AUTH_REVOKE_OK"])
  /\ UNCHANGED <<Rows, now, faults>>

\* What a commit makes visible.  A session keeps the time of its first revocation.
Publish(c) ==
  LET op == call[c].op  t == call[c].token
  IN  /\ sessions' = IF op = "revoke_session" /\ sessions[call[c].session] = 0
                     THEN [sessions EXCEPT ![call[c].session] = call[c].at] ELSE sessions
      /\ tokens' = CASE op = "issue" -> [tokens EXCEPT ![t] =
                          [session |-> call[c].session, created |-> call[c].at,
                           expires |-> call[c].at + TTL, revoked |-> 0]]
                     [] op \in {"revoke_session", "revoke_token", "revoke_bearer"} ->
                          [k \in Token |-> IF k \in Targets(c) THEN [tokens[k] EXCEPT !.revoked = call[c].at]
                                           ELSE tokens[k]]
                     [] OTHER -> tokens

Commit(c) ==
  /\ call[c].pc = "commit"
  /\ Publish(c)
  /\ Return(c, IF call[c].op = "issue" THEN "AUTH_ISSUE_OK" ELSE call[c].answer)
  /\ UNCHANGED <<now, faults>>

Fault == faults < MaxFaults /\ faults' = faults + 1

\* Mutant: the outcome of the verification is returned although the commit failed.
CommitTrusted(c) ==
  /\ call[c].pc = "commit"
  /\ Fault
  /\ Set(c, [call[c] EXCEPT !.pc = "unknown", !.answer = IF @ = "none" THEN "AUTH_ISSUE_OK" ELSE @])
  /\ UNCHANGED <<Rows, now>>

\* COMMIT fails for the caller; the transaction keeps its locks until it ends either way.
CommitUnknown(c) ==
  /\ call[c].pc = "commit"
  /\ Fault
  /\ Set(c, [call[c] EXCEPT !.pc = "unknown", !.answer = "AUTH_STORAGE_UNAVAILABLE"])
  /\ UNCHANGED <<Rows, now>>

Settle(c) ==
  /\ call[c].pc = "unknown"
  /\ Publish(c) \/ UNCHANGED Rows
  /\ Goto(c, "done")
  /\ UNCHANGED <<now, faults>>

\* A timeout, a lost connection, a failed statement, or no entropy: the transaction rolls back.
Fail(c) ==
  /\ call[c].pc \in {"find", "session"} \cup (Locked \ {"commit", "unknown"})
  /\ Fault
  /\ Return(c, IF call[c].pc = "generate" THEN "AUTH_ENTROPY_UNAVAILABLE" ELSE "AUTH_STORAGE_UNAVAILABLE")
  /\ UNCHANGED <<Rows, now>>

\* The caller has its answer, and may call again.
Forget(c) ==
  /\ call[c].pc = "done"
  /\ Set(c, NoCall)
  /\ UNCHANGED <<Rows, now, faults>>

Tick ==
  /\ now < MaxTime
  /\ now' = now + 1
  /\ UNCHANGED <<Rows, call, faults>>

Step(c) ==
  \/ CallSession(c) \/ CallToken(c) \/ Find(c) \/ LockSession(c) \/ Generate(c) \/ Insert(c)
  \/ Verify(c) \/ Write(c) \/ Commit(c) \/ CommitUnknown(c) \/ Settle(c) \/ Fail(c) \/ Forget(c)

Next == Tick \/ \E c \in Call : Step(c)

Spec == Init /\ [][Next]_vars

------------------------------------------------------------------------------
(* The HTTP routes *)

\* mapAuthenticationError and SessionHandler.ServeHTTP.
AuthenticationStatus(code) ==
  CASE code = "AUTH_AUTHENTICATE_OK" -> 200
    [] code \in {"AUTH_INVALID_INPUT", "AUTH_TOKEN_MALFORMED", "AUTH_TOKEN_UNKNOWN",
                 "AUTH_TOKEN_EXPIRED", "AUTH_TOKEN_REVOKED", "AUTH_SESSION_REVOKED", "AUTH_FORBIDDEN"} -> 401
    [] OTHER -> 503

\* mapRevocationError and TokenRevocationHandler.ServeHTTP.
RevocationStatus(code) ==
  CASE code \in {"AUTH_REVOKE_OK", "AUTH_REVOKE_NOOP"} -> 204
    [] code \in {"AUTH_INVALID_INPUT", "AUTH_TOKEN_MALFORMED", "AUTH_TOKEN_UNKNOWN", "AUTH_FORBIDDEN"} -> 401
    [] OTHER -> 503

------------------------------------------------------------------------------
(* Properties *)

TypeOK ==
  /\ sessions \in [Session -> 0 .. MaxTime]
  /\ \A t \in Token : Exists(t) =>
       /\ tokens[t].session \in Session
       /\ tokens[t].created \in Time /\ tokens[t].expires = tokens[t].created + TTL
       /\ tokens[t].revoked = 0 \/ tokens[t].revoked \in tokens[t].created .. MaxTime
  /\ now \in Time
  /\ \A c \in Call :
       /\ call[c].op \in Operation \cup {"none"}
       /\ call[c].pc \in {"idle", "find", "session", "done"} \cup Locked
       /\ call[c].at <= now /\ call[c].tries <= MaxIssueAttempts
  /\ faults \in 0 .. MaxFaults

\* A revoked session has no token that is not revoked: no token slips in between the revocation's
\* two updates, although tokens are issued at the same time (Issue and RevokeSession lock the
\* session row first; ADR 0008, "in one commit").
NoTokenLeft == \A s \in Session : sessions[s] # 0 => ActiveTokens(s) = {}

\* A revocation is for ever, and no authentication that is answered after it overtakes it: rows
\* keep their first revocation time, and a call is accepted only while its token and its
\* session are not revoked, although it read them earlier (FOR SHARE until the commit).
NeverOvertaken ==
  [][/\ \A s \in Session : sessions[s] # 0 => sessions'[s] = sessions[s]
     /\ \A t \in Token : tokens[t].revoked # 0 => tokens'[t] = tokens[t]
     /\ \A c \in Call :
          call[c].op = "authenticate" /\ call'[c].pc = "done" /\ call[c].pc # "done"
            /\ AuthenticationStatus(call'[c].answer) = 200 =>
          tokens[call[c].token].revoked = 0 /\ sessions[tokens[call[c].token].session] = 0]_vars

\* Log-out converges: a bearer that proves its token is never told 401, however often, however
\* concurrently and after whatever lost answer it asks again, and 204 means that the token is
\* revoked for good (RevokeBearer; ADR 0019, "converge to 204").
LogoutConverges ==
  \A c \in Call :
    call[c].op = "revoke_bearer" /\ call[c].proof = "match" /\ call[c].pc \in {"unknown", "done"} =>
    \/ RevocationStatus(call[c].answer) = 204 /\ tokens[call[c].token].revoked # 0
    \/ RevocationStatus(call[c].answer) = 503

\* Revocations are complete, and log-outs are answered with what they did.
RevocationInv == TypeOK /\ NoTokenLeft /\ LogoutConverges

\* ADR 0008: "An existing same-owner active revoke target succeeds with outcome AUTH_REVOKE_OK".
\* While nothing fails, RevokeSession on a session of the caller is answered OK, or NOOP.
ActiveTargetRevoked ==
  faults = 0 =>
    \A c \in Call :
      call[c].op = "revoke_session" /\ call[c].proof = "match" /\ call[c].session \in Session
        /\ call[c].pc = "done" =>
      call[c].answer \in {"AUTH_REVOKE_OK", "AUTH_REVOKE_NOOP"}
==============================================================================
