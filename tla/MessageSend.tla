----------------------------- MODULE MessageSend -----------------------------
(***************************************************************************)
(* The server's durable send: the route of messagehttp, Service.Send,      *)
(* Repository.Persist and the SQL function newim.persist_message.          *)
(*                                                                         *)
(* Each request runs one READ COMMITTED transaction.  A statement sees     *)
(* what is committed when it starts, so every statement is one action and  *)
(* other transactions commit in between.  What a transaction has written   *)
(* is private until it commits, except that its row locks and its entries  *)
(* in the unique indexes make others wait.  A caller may get its error     *)
(* while its transaction is still open, or while its COMMIT is under way.  *)
(***************************************************************************)
EXTENDS Integers, FiniteSets

CONSTANTS
  Request,        \* calls of Send; a retry is another call with the same intent
  Sender,
  ClientId,
  Conversation,   \* conversation ids a request may name
  Known,          \* rows of im_conversations
  Body,           \* everything else that SameIntent compares
  ServerId,       \* ids that IDGenerator returns; two calls may get the same one
  NoRequest,
  NoId,
  NoRow,
  NoIntent,
  MaxSeq          \* the largest bigint

ASSUME SendAssumption ==
  /\ Known \subseteq Conversation
  /\ MaxSeq \in Nat
  /\ NoRequest \notin Request
  /\ NoId \notin ServerId

Intent == [sender : Sender, client : ClientId, conv : Conversation, body : Body]
Row == [sender : Sender, client : ClientId, conv : Known, body : Body,
        seq : 1 .. MaxSeq, server : ServerId]

ASSUME RowAssumption == NoRow \notin Row /\ NoIntent \notin Intent

VARIABLES
  messages,   \* im_messages, committed
  lastSeq,    \* im_conversations.last_seq
  latest,     \* im_conversations.latest_server_msg_id
  events,     \* im_outbox_events: the server ids of the messages they announce
  members,    \* im_conversation_members
  lock,       \* the transaction that holds the row lock of each conversation
  pc,         \* where each request is
  intent,
  id,         \* the ids generated for a request
  row,        \* the row a request got from the database
  inserted,   \* the transaction inserted its row
  answer      \* what the caller of Send was told

table == <<messages, lastSeq, latest, events>>
vars == <<table, members, lock, pc, intent, id, row, inserted, answer>>

\* dispositionFor: after these codes the client may retry the same intent.
RetrySameIntent == {"SEND_LOCK_UNAVAILABLE", "SEND_STORAGE_UNAVAILABLE"}

\* Codes that stop retries, of Send and of the route before it; SEND_INVALID_INPUT stands for the
\* HTTP_ codes of the route, too.
Final == {"SEND_INVALID_INPUT", "SEND_UNAUTHORIZED", "SEND_CONVERSATION_NOT_FOUND",
          "SEND_SEQUENCE_EXHAUSTED", "SEND_ID_CONFLICT", "SEND_UNKNOWN"}
Turned == {"SEND_INVALID_INPUT", "AUTH_INVALID_TOKEN", "AUTH_UNAVAILABLE"}

\* mapSendError, ProtocolCode: what the client may retry has one public code.
Temporary == "SERVER_TEMPORARY_UNAVAILABLE"
MapSendError(code) == IF code \in RetrySameIntent THEN Temporary ELSE code

Answer == {"none", "SERVER_PERSISTED", Temporary} \cup Final \cup Turned

\* Where a transaction is open and its caller waits.
Running == {"lock", "member", "load", "prepare", "persist", "allocate", "insert", "compare",
            "commit"}

Init ==
  /\ messages = {}
  /\ lastSeq = [c \in Known |-> 0]
  /\ latest = [c \in Known |-> NoId]
  /\ events = {}
  /\ members \in SUBSET (Known \X Sender)
  /\ lock = [c \in Known |-> NoRequest]
  /\ pc = [r \in Request |-> "new"]
  /\ intent = [r \in Request |-> NoIntent]
  /\ id = [r \in Request |-> NoId]
  /\ row = [r \in Request |-> NoRow]
  /\ inserted = [r \in Request |-> FALSE]
  /\ answer = [r \in Request |-> "none"]

------------------------------------------------------------------------------
SameKey(m, i) == m.sender = i.sender /\ m.client = i.client

\* protocol.SameIntent, for rows of the same key.
SameIntent(m, i) == m.conv = i.conv /\ m.body = i.body

Step(r, next) == pc' = [pc EXCEPT ![r] = next]

\* Mutant: the lock outlives its transaction.
KeepLock(r) == UNCHANGED lock

\* The conversation is unlocked when the transaction of r ends.
Release(r) ==
  lock' = [c \in Known |-> IF lock[c] = r THEN NoRequest ELSE lock[c]]

\* The transaction of r is over; what an ACK says of the row is all that stays of it.
Close(r, kept) ==
  /\ Step(r, "done")
  /\ Release(r)
  /\ inserted' = [inserted EXCEPT ![r] = FALSE]
  /\ id' = [id EXCEPT ![r] = NoId]
  /\ row' = [row EXCEPT ![r] = kept]
  /\ UNCHANGED <<members, intent>>

\* Persist returns an error: the deferred rollback comes before the answer.
Refuse(r, code) ==
  /\ Close(r, NoRow)
  /\ answer' = [answer EXCEPT ![r] = MapSendError(code)]
  /\ UNCHANGED table

\* Mutant: rows of open transactions are visible.
FoundDirty(r) ==
  \E m \in messages \cup {row[q] : q \in {x \in Request : inserted[x]}} :
    /\ SameKey(m, intent[r])
    /\ row' = [row EXCEPT ![r] = m]
    /\ Step(r, "compare")
    /\ UNCHANGED <<table, members, lock, intent, id, inserted, answer>>

\* A SELECT that finds the committed row of the key, or finds none and goes on.
Found(r) ==
  \E m \in messages :
    /\ SameKey(m, intent[r])
    /\ row' = [row EXCEPT ![r] = m]
    /\ Step(r, "compare")
    /\ UNCHANGED <<table, members, lock, intent, id, inserted, answer>>

NotFound(r) == \A m \in messages : ~SameKey(m, intent[r])

GoOn(r, next) ==
  /\ Step(r, next)
  /\ UNCHANGED <<table, members, lock, intent, id, row, inserted, answer>>

\* ServeHTTP checks the request, the bearer and the body, in this order, before it calls Send.
TurnAway(r) ==
  /\ pc[r] = "new"
  /\ Step(r, "done")
  /\ \E code \in Turned : answer' = [answer EXCEPT ![r] = code]
  /\ UNCHANGED <<table, members, lock, intent, id, row, inserted>>

\* Send validates the request and Persist begins a transaction.
Begin(r, i) ==
  /\ pc[r] = "new"
  /\ Step(r, "lock")
  /\ intent' = [intent EXCEPT ![r] = i]
  /\ UNCHANGED <<table, members, lock, id, row, inserted, answer>>

\* Authorize, first statement: SELECT ... FOR UPDATE of the conversation.
LockConversation(r) ==
  /\ pc[r] = "lock"
  /\ LET c == intent[r].conv
     IN  \/ c \notin Known /\ Refuse(r, "SEND_CONVERSATION_NOT_FOUND")
         \/ /\ c \in Known
            /\ lock[c] = NoRequest
            /\ lock' = [lock EXCEPT ![c] = r]
            /\ Step(r, "member")
            /\ UNCHANGED <<table, members, intent, id, row, inserted, answer>>

\* Authorize, second statement: SELECT ... FOR SHARE of the membership.
CheckMember(r) ==
  /\ pc[r] = "member"
  /\ IF <<intent[r].conv, intent[r].sender>> \in members
     THEN GoOn(r, "load")
     ELSE Refuse(r, "SEND_UNAUTHORIZED")

LoadMessage(r) ==
  /\ pc[r] = "load"
  /\ Found(r) \/ (NotFound(r) /\ GoOn(r, "prepare"))

\* validate and generate, only for a key that has no row yet.
Prepare(r) ==
  /\ pc[r] = "prepare"
  /\ \/ \E code \in {"SEND_INVALID_INPUT", "SEND_UNAUTHORIZED", "SEND_STORAGE_UNAVAILABLE"} :
          Refuse(r, code)
     \/ \E x \in ServerId :
          /\ id' = [id EXCEPT ![r] = x]
          /\ Step(r, "persist")
          /\ UNCHANGED <<table, members, lock, intent, row, inserted, answer>>

------------------------------------------------------------------------------
(* persist_message *)

FirstLook(r) ==
  /\ pc[r] = "persist"
  /\ Found(r) \/ (NotFound(r) /\ GoOn(r, "allocate"))

\* The conversation's lock is held already; look again, then take the next sequence.
Allocate(r) ==
  /\ pc[r] = "allocate"
  /\ \/ Found(r)
     \/ NotFound(r) /\ lastSeq[intent[r].conv] < MaxSeq /\ GoOn(r, "insert")
     \/ /\ NotFound(r)
        /\ lastSeq[intent[r].conv] = MaxSeq
        /\ Refuse(r, "SEND_SEQUENCE_EXHAUSTED")

\* The row with the next sequence of the locked conversation.
NewRow(r) ==
  [sender |-> intent[r].sender, client |-> intent[r].client, conv |-> intent[r].conv,
   body |-> intent[r].body, seq |-> lastSeq[intent[r].conv] + 1, server |-> id[r]]

\* A unique index other than the one of the key has room for only one of m and NewRow(r).
Clash(m, r) ==
  \/ m.server = id[r]
  \/ m.conv = intent[r].conv /\ m.seq = lastSeq[m.conv] + 1

\* The open transaction of q has an entry in a unique index that r needs too.
HasEntry(q, r) == q # r /\ inserted[q] /\ (SameKey(row[q], intent[r]) \/ Clash(row[q], r))

Blocked(r) == \E q \in Request : HasEntry(q, r)

\* INSERT: it waits for an open transaction with the same key or id.  A committed row of the
\* key is found after the subtransaction is rolled back; any other violation is raised again.
Insert(r) ==
  /\ pc[r] = "insert"
  /\ ~Blocked(r)
  /\ \/ /\ NotFound(r)
        /\ \A m \in messages : ~Clash(m, r)
        /\ row' = [row EXCEPT ![r] = NewRow(r)]
        /\ inserted' = [inserted EXCEPT ![r] = TRUE]
        /\ Step(r, "compare")
        /\ UNCHANGED <<table, members, lock, intent, id, answer>>
     \/ Found(r)
     \/ /\ \E m \in messages : Clash(m, r)
        /\ NotFound(r)
        /\ Refuse(r, "SEND_UNKNOWN")

\* SameIntent on the row that came back.
Compare(r) ==
  /\ pc[r] = "compare"
  /\ IF SameIntent(row[r], intent[r])
     THEN GoOn(r, "commit")
     ELSE Refuse(r, "SEND_ID_CONFLICT")

------------------------------------------------------------------------------
(* The end of a transaction. *)

\* What COMMIT makes visible.
Publish(r) ==
  IF inserted[r]
  THEN /\ messages' = messages \cup {row[r]}
       /\ lastSeq' = [lastSeq EXCEPT ![row[r].conv] = row[r].seq]
       /\ latest' = [latest EXCEPT ![row[r].conv] = row[r].server]
       /\ events' = events \cup {row[r].server}
  ELSE UNCHANGED table

\* COMMIT succeeds, and only then is the ACK written.
Commit(r) ==
  /\ pc[r] = "commit"
  /\ Publish(r)
  /\ Close(r, row[r])
  /\ answer' = [answer EXCEPT ![r] = "SERVER_PERSISTED"]

\* Mutant: a failed COMMIT is an unknown error, which stops retries.
CommitStops(r) ==
  /\ pc[r] = "commit"
  /\ Step(r, "unknown")
  /\ answer' = [answer EXCEPT ![r] = "SEND_UNKNOWN"]
  /\ UNCHANGED <<table, members, lock, intent, id, row, inserted>>

\* Mutant: the ACK does not wait for the result of COMMIT.
CommitAcked(r) ==
  /\ pc[r] = "commit"
  /\ Step(r, "unknown")
  /\ answer' = [answer EXCEPT ![r] = "SERVER_PERSISTED"]
  /\ UNCHANGED <<table, members, lock, intent, id, row, inserted>>

\* COMMIT fails for its caller; whether it takes effect is open.
CommitUnknown(r) ==
  /\ pc[r] = "commit"
  /\ Step(r, "unknown")
  /\ answer' = [answer EXCEPT ![r] = MapSendError("SEND_STORAGE_UNAVAILABLE")]
  /\ UNCHANGED <<table, members, lock, intent, id, row, inserted>>

LateCommit(r) ==
  /\ pc[r] = "unknown"
  /\ Publish(r)
  /\ Close(r, NoRow)
  /\ UNCHANGED answer

\* A lock, statement or request timeout, a lost connection or a restart of the database: the
\* caller gets a retryable error, or SEND_UNKNOWN for what mapStorageError does not know, and
\* the transaction is rolled back some time later.
Fail(r) ==
  /\ pc[r] \in Running \ {"commit"}
  /\ Step(r, "aborting")
  /\ \E code \in RetrySameIntent \cup {"SEND_UNKNOWN"} :
       answer' = [answer EXCEPT ![r] = MapSendError(code)]
  /\ UNCHANGED <<table, members, lock, intent, id, row, inserted>>

\* Mutant: like a database sequence, last_seq is not rolled back.
RollbackRows(r) ==
  /\ pc[r] \in {"aborting", "unknown"}
  /\ lastSeq' = IF inserted[r] THEN [lastSeq EXCEPT ![row[r].conv] = row[r].seq] ELSE lastSeq
  /\ Close(r, NoRow)
  /\ UNCHANGED <<messages, latest, events, answer>>

Rollback(r) ==
  /\ pc[r] \in {"aborting", "unknown"}
  /\ Close(r, NoRow)
  /\ UNCHANGED <<table, answer>>

------------------------------------------------------------------------------
\* Mutant: Authorize does not lock the membership.
ShareLockedNever(c, s) == FALSE

\* The transaction that locked the membership row FOR SHARE is still open.
ShareLocked(c, s) ==
  \E r \in Request :
    /\ pc[r] \notin {"new", "lock", "member", "done"}
    /\ lock[c] = r
    /\ intent[r].sender = s

\* Membership changes elsewhere; a row locked FOR SHARE cannot be deleted.
RemoveMember(c, s) ==
  /\ <<c, s>> \in members
  /\ ~ShareLocked(c, s)
  /\ members' = members \ {<<c, s>>}
  /\ UNCHANGED <<table, lock, pc, intent, id, row, inserted, answer>>

Statement(r) ==
  \/ LockConversation(r) \/ CheckMember(r) \/ LoadMessage(r) \/ Prepare(r)
  \/ FirstLook(r) \/ Allocate(r) \/ Insert(r) \/ Compare(r)

Finish(r) == Commit(r) \/ LateCommit(r) \/ Rollback(r)

Next ==
  \/ \E r \in Request :
       \/ TurnAway(r)
       \/ \E i \in Intent : Begin(r, i)
       \/ Statement(r) \/ Finish(r) \/ CommitUnknown(r) \/ Fail(r)
  \/ \E c \in Known, s \in Sender : RemoveMember(c, s)

Spec == Init /\ [][Next]_vars

------------------------------------------------------------------------------
(* Properties *)

TypeOK ==
  /\ messages \subseteq Row
  /\ lastSeq \in [Known -> 0 .. MaxSeq]
  /\ latest \in [Known -> ServerId \cup {NoId}]
  /\ events \subseteq ServerId
  /\ members \subseteq Known \X Sender
  /\ lock \in [Known -> Request \cup {NoRequest}]
  /\ pc \in [Request -> Running \cup {"new", "aborting", "unknown", "done"}]
  /\ intent \in [Request -> Intent \cup {NoIntent}]
  /\ id \in [Request -> ServerId \cup {NoId}]
  /\ row \in [Request -> Row \cup {NoRow}]
  /\ inserted \in [Request -> BOOLEAN]
  /\ answer \in [Request -> Answer]

\* A reader of committed rows sees every conversation's sequence without gaps and without
\* duplicates, up to last_seq, and latest_server_msg_id names its last message: rolled back,
\* unknown and racing inserts leave no hole (persist_message, im_messages_conversation_seq_key).
SequenceGapless ==
  \A c \in Known :
    /\ {m.seq : m \in {x \in messages : x.conv = c}} = 1 .. lastSeq[c]
    /\ \A m, n \in messages : m.conv = c /\ n.conv = c /\ m.seq = n.seq => m = n
    /\ \A m \in messages : m.conv = c /\ m.seq = lastSeq[c] => latest[c] = m.server

\* One message per sender and client id, whatever conversations and retries race, and exactly
\* one outbox event per message (the unique keys of im_messages and im_outbox_events).
OneMessagePerIntent ==
  /\ \A m, n \in messages : SameKey(m, n) \/ m.server = n.server => m = n
  /\ events = {m.server : m \in messages}

\* Every ACK names a committed message with the intent of its own request, so all the ACKs for
\* one intent carry the same server id and sequence (ACK after COMMIT in Persist and Send).
AckDurable ==
  \A r \in Request :
    answer[r] = "SERVER_PERSISTED" =>
      row[r] \in messages /\ SameKey(row[r], intent[r]) /\ SameIntent(row[r], intent[r])

\* SEND_ID_CONFLICT stops the client's retries for ever, so it is given only when another
\* intent of that sender and client id is committed, never for one that may still roll back.
ConflictJustified ==
  \A r \in Request :
    answer[r] = "SEND_ID_CONFLICT" =>
      \E m \in messages : SameKey(m, intent[r]) /\ ~SameIntent(m, intent[r])

\* What a client is told is true: AckDurable and ConflictJustified.
AnswersTrue == AckDurable /\ ConflictJustified

\* The sender of a message is a member of the conversation at the instant it is committed,
\* although membership was checked statements earlier (FOR SHARE in Authorize).
MemberAtCommit ==
  [][\A m \in messages' \ messages : <<m.conv, m.sender>> \in members]_vars

\* A request whose message becomes visible was acknowledged, or was told to retry the same
\* intent: no error that stops retries ever hides a committed message of its own transaction.
CommitNeverDenied ==
  [][\A r \in Request :
       messages' # messages /\ pc[r] # "done" /\ pc'[r] = "done" =>
         answer'[r] \in {Temporary, "SERVER_PERSISTED"}]_vars

\* The committed rows are a ledger: gapless, and one message and one event per intent.
LedgerInv == TypeOK /\ SequenceGapless /\ OneMessagePerIntent

\* The requests that were acknowledged, each with what its ACK says.
Acked == {<<r, row[r]>> : r \in {q \in Request : answer[q] = "SERVER_PERSISTED"}}

Log == INSTANCE MessageLog
         WITH Conversation <- Known, log <- messages, height <- lastSeq, acked <- Acked

\* The transactions of persist_message implement an append-only log with idempotent appends:
\* a commit is one append, and an ACK is given only for a message of the log.
LogImplemented == Log!Spec

\* A statement of r waits for the end of q's transaction.
WaitsFor(r, q) ==
  \/ pc[r] = "lock" /\ intent[r].conv \in Known /\ lock[intent[r].conv] = q
  \/ pc[r] = "insert" /\ HasEntry(q, r)

\* The waits for conversation locks and for unique index entries never form a cycle.  Whoever is
\* waited for has an open transaction, and waits at most for one that waits for nobody: without
\* the help of any timeout the waits come to an end (Authorize locks the conversation before the
\* insert may wait for another transaction's index entry).
NoWaitCycle ==
  \A r, q \in Request :
    WaitsFor(r, q) =>
      /\ pc[q] \notin {"new", "done"}
      /\ \A p \in Request : WaitsFor(q, p) => \A o \in Request : ~WaitsFor(p, o)
==============================================================================
