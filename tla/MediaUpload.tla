----------------------------- MODULE MediaUpload -----------------------------
(***************************************************************************)
(* Media: server/media (BeginUpload, CompleteUpload,                       *)
(* ResolvePrivateDownload, ValidateForSend), its rows in                   *)
(* server/storage/media and its objects in server/media/localfs.           *)
(*                                                                         *)
(* A media key stands for itself and for the grant that was created with   *)
(* it; an identity for the five fields of a connection.  There is one      *)
(* conversation.  An upload runs over two stores that share no             *)
(* transaction: a directory, whose entries survive a power loss only once  *)
(* the directory is synced, and PostgreSQL under READ COMMITTED.           *)
(***************************************************************************)
EXTENDS Naturals, FiniteSets

CONSTANTS
  Call,             \* calls; a call that has ended may be made again
  Key,              \* what the entropy source may produce
  Identity,
  Content,          \* what a client may send; sizes and digests tell them apart
  None,
  UploadTTL,
  TokenExpires,     \* when the bearer token of each identity expires
  MaxGrantAttempts, \* 8 in the code
  MaxTime,          \* bound: the clock
  MaxFaults         \* bound: failed steps, unknown commits, crashes and power losses

ASSUME MediaAssumption ==
  /\ None \notin Key \cup Identity \cup Content
  /\ {UploadTTL, MaxGrantAttempts, MaxTime} \subseteq Nat \ {0}
  /\ TokenExpires \in [Identity -> Nat] /\ MaxFaults \in Nat

VARIABLES
  assets,   \* im_media_assets
  entries,  \* the directory: the object under each key, or None
  synced,   \* the entries a power loss cannot take
  access,   \* of each identity: member, session and token not revoked
  revoking, \* the identity whose session row a revocation has locked
  sent,     \* the keys that stored messages refer to
  now, call, faults

disk == <<entries, synced>>
vars == <<assets, disk, access, revoking, sent, now, call, faults>>

NoAsset == [state |-> "none", owner |-> None, content |-> None, expires |-> 0, completed |-> 0]
NoCall == [op |-> "none", pc |-> "idle", id |-> None, key |-> None, content |-> None,
           seen |-> "none", at |-> 0, tries |-> 1, answer |-> "none",
           failed |-> FALSE] \* history: a step of the call failed

\* A transaction that holds the session row of its identity.
Locked == {"write", "commit", "unknown"}

Init ==
  /\ assets = [k \in Key |-> NoAsset]
  /\ entries = [k \in Key |-> None]
  /\ synced = {}
  /\ access = [i \in Identity |-> [member |-> TRUE, session |-> TRUE, token |-> TRUE]]
  /\ revoking = None
  /\ sent = {}
  /\ now = 1
  /\ call = [c \in Call |-> NoCall]
  /\ faults = 0

------------------------------------------------------------------------------
Set(c, record) == call' = [call EXCEPT ![c] = record]
Goto(c, pc) == Set(c, [call[c] EXCEPT !.pc = pc])
\* A call that has ended keeps only what its answer is about.
Answered(x, code) ==
  IF x.op \in {"complete", "download"}
  THEN [x EXCEPT !.pc = "done", !.answer = code, !.id = None, !.at = 0]
  ELSE [NoCall EXCEPT !.op = x.op, !.pc = "done", !.answer = code]
Return(c, code) == Set(c, Answered(call[c], code))
World == <<access, revoking, now>>

\* The conditions of Authorize, for a clock reading.
Authorized(i, at) ==
  access[i].member /\ access[i].session /\ access[i].token /\ TokenExpires[i] > at

\* A call begins.  BeginUpload and ValidateForSend read the clock now.
Start(c) ==
  /\ call[c].pc = "idle"
  /\ \E i \in Identity, x \in Content :
       \/ Set(c, [NoCall EXCEPT !.op = "begin", !.pc = "snapshot", !.id = i, !.content = x, !.at = now])
       \/ \E k \in Key : Set(c, [NoCall EXCEPT !.op = "download", !.pc = "load", !.id = i, !.key = k])
       \/ \E k \in Key, op \in {"complete", "send"} :
            Set(c, [NoCall EXCEPT !.op = op, !.pc = "load", !.id = i, !.content = x, !.key = k,
                                  !.at = IF op = "send" THEN now ELSE 0])
  /\ UNCHANGED <<assets, disk, sent, World, faults>>

------------------------------------------------------------------------------
(* The row of an upload *)

\* authorizeTx evaluates its joins in the statement's snapshot, before it waits for the session.
Snapshot(c) ==
  /\ call[c].pc = "snapshot"
  /\ IF Authorized(call[c].id, call[c].at) THEN Goto(c, "lock") ELSE Return(c, "MEDIA_UNAUTHORIZED")
  /\ UNCHANGED <<assets, disk, sent, World, faults>>

\* Mutant: without FOR UPDATE OF s.
SessionFreeAlways(c) == TRUE

SessionFree(c) ==
  /\ revoking # call[c].id
  /\ \A d \in Call \ {c} : ~(call[d].id = call[c].id /\ call[d].pc \in Locked)

\* Once locked, the newest version of the session row is tested again; those of the token and
\* of the membership are not.
LockSession(c) ==
  /\ call[c].pc = "lock"
  /\ SessionFree(c)
  /\ IF access[call[c].id].session THEN Goto(c, "write") ELSE Return(c, "MEDIA_UNAUTHORIZED")
  /\ UNCHANGED <<assets, disk, sent, World, faults>>

\* BeginUpload: INSERT ... ON CONFLICT DO NOTHING waits for an uncommitted row with this key.
\* A collision rolls back and tries again, with the first reading of the clock.  A membership
\* that ended after the snapshot breaks im_media_assets_membership_fk.
InsertPending(c) ==
  /\ call[c].op = "begin" /\ call[c].pc = "write"
  /\ \E k \in Key :
       /\ \A d \in Call \ {c} :
            ~(call[d].op = "begin" /\ call[d].pc \in {"commit", "unknown"} /\ call[d].key = k)
       /\ IF assets[k] = NoAsset /\ ~access[call[c].id].member THEN Return(c, "MEDIA_UNAUTHORIZED")
          ELSE IF assets[k] = NoAsset THEN Set(c, [call[c] EXCEPT !.pc = "commit", !.key = k])
          ELSE IF call[c].tries < MaxGrantAttempts
          THEN Set(c, [call[c] EXCEPT !.pc = "snapshot", !.tries = @ + 1])
          ELSE Return(c, "MEDIA_GRANT_COLLISION")
  /\ UNCHANGED <<assets, disk, sent, World, faults>>

\* CompleteReady: a row that another call has made ready meanwhile is returned as it is.
UpdateReady(c) ==
  /\ call[c].op = "complete" /\ call[c].pc = "write"
  /\ IF assets[call[c].key].state = "pending" THEN Goto(c, "commit") ELSE Return(c, "MEDIA_OK")
  /\ UNCHANGED <<assets, disk, sent, World, faults>>

\* generateGrant.
PendingGrant(c) ==
  [state |-> "pending", owner |-> call[c].id, content |-> call[c].content,
   expires |-> call[c].at + UploadTTL, completed |-> 0]

\* What a commit makes visible.
Publish(c) ==
  assets' = [assets EXCEPT ![call[c].key] =
    IF call[c].op = "begin" THEN PendingGrant(c) ELSE [@ EXCEPT !.state = "ready", !.completed = call[c].at]]

Commit(c) ==
  /\ call[c].pc = "commit"
  /\ Publish(c)
  /\ Return(c, "MEDIA_OK")
  /\ UNCHANGED <<disk, sent, World, faults>>

Fault == faults < MaxFaults /\ faults' = faults + 1

\* COMMIT fails for the caller; the transaction keeps its lock until it ends either way.
CommitUnknown(c) ==
  /\ call[c].pc = "commit"
  /\ Fault
  /\ Set(c, [call[c] EXCEPT !.pc = "unknown", !.answer = "MEDIA_STORAGE_UNAVAILABLE", !.failed = TRUE])
  /\ UNCHANGED <<assets, disk, sent, World>>

Settle(c) ==
  /\ call[c].pc = "unknown"
  /\ Publish(c) \/ UNCHANGED assets
  /\ Return(c, call[c].answer)
  /\ UNCHANGED <<disk, sent, World, faults>>

------------------------------------------------------------------------------
(* CompleteUpload *)

\* LoadGrant and the comparison of the grant's digest, identity and intent with the caller's.
LoadGrant(c) ==
  /\ call[c].op = "complete" /\ call[c].pc = "load"
  /\ LET row == assets[call[c].key]
     IN  \/ row = NoAsset /\ Return(c, "MEDIA_NOT_FOUND")
         \/ row # NoAsset /\ row.owner # call[c].id /\ Return(c, "MEDIA_UNAUTHORIZED")
         \/ row # NoAsset /\ row.owner = call[c].id
              /\ Set(c, [call[c] EXCEPT !.pc = "authorize", !.seen = row.state])
  /\ UNCHANGED <<assets, disk, sent, World, faults>>

\* The only reading of the clock, Authorize, and the expiry, which binds only what was loaded
\* as pending.
AuthorizeUpload(c) ==
  /\ call[c].op = "complete" /\ call[c].pc = "authorize"
  /\ IF ~Authorized(call[c].id, now) THEN Return(c, "MEDIA_UNAUTHORIZED")
     ELSE IF call[c].seen = "pending" /\ now >= assets[call[c].key].expires THEN Return(c, "MEDIA_EXPIRED")
     ELSE Set(c, [call[c] EXCEPT !.pc = "put", !.at = now])
  /\ UNCHANGED <<assets, disk, sent, World, faults>>

\* Size and digest of a stream or an object, as copyBounded finds them, are those of the row.
Matches(c, content) == content = assets[call[c].key].content

\* PutImmutable, objectExists: what the client sends is compared before the stored object is.
\* Content beyond the size bound is invalid even then.
PutImmutable(c) ==
  /\ call[c].pc = "put"
  /\ IF entries[call[c].key] = None THEN Goto(c, "copy")
     ELSE IF Matches(c, call[c].content) THEN Goto(c, "verify")
     ELSE \E code \in {"MEDIA_CONFLICT", "MEDIA_INVALID_INPUT"} : Return(c, code)
  /\ UNCHANGED <<assets, disk, sent, World, faults>>

\* The content goes to a synced temporary file of its own.
CopyTemp(c) ==
  /\ call[c].pc = "copy"
  /\ IF ~Matches(c, call[c].content) THEN Return(c, "MEDIA_INVALID_INPUT") ELSE Goto(c, "link")
  /\ UNCHANGED <<assets, disk, sent, World, faults>>

\* Link never replaces an object; the loser of a race verifies the winner's.
Link(c) ==
  /\ call[c].pc = "link"
  /\ IF entries[call[c].key] # None THEN Goto(c, "verify") /\ UNCHANGED entries
     ELSE Goto(c, "sync") /\ entries' = [entries EXCEPT ![call[c].key] = call[c].content]
  /\ UNCHANGED <<assets, synced, sent, World, faults>>

\* Where an upload goes on when its object is stored.
AfterPut(c) == IF call[c].seen = "ready" THEN Return(c, "MEDIA_OK") ELSE Goto(c, "snapshot")

\* Mutant: the loser of the race relies on the winner to sync the directory.
VerifyUnsynced(c) ==
  /\ call[c].pc = "verify"
  /\ IF ~Matches(c, entries[call[c].key]) THEN Return(c, "MEDIA_CONFLICT") ELSE AfterPut(c)
  /\ UNCHANGED <<assets, disk, sent, World, faults>>

\* verifyExisting, when the stored object can be read.
Verify(c) ==
  /\ call[c].pc = "verify"
  /\ IF ~Matches(c, entries[call[c].key]) THEN Return(c, "MEDIA_CONFLICT") ELSE Goto(c, "sync")
  /\ UNCHANGED <<assets, disk, sent, World, faults>>

\* syncRoot makes every entry of the directory durable.
SyncRoot(c) ==
  /\ call[c].pc = "sync"
  /\ synced' = {k \in Key : entries[k] # None}
  /\ AfterPut(c)
  /\ UNCHANGED <<assets, entries, sent, World, faults>>

------------------------------------------------------------------------------
(* Use of an asset *)

\* ValidateReadyForSend: one statement on all the tables.
ValidateForSend(c) ==
  /\ call[c].op = "send" /\ call[c].pc = "load"
  /\ LET row == assets[call[c].key]
     IN  IF row.state = "ready" /\ row.owner = call[c].id /\ row.content = call[c].content
              /\ Authorized(call[c].id, call[c].at)
         THEN Goto(c, "persist") ELSE Return(c, "MEDIA_UNAUTHORIZED")
  /\ UNCHANGED <<assets, disk, sent, World, faults>>

\* The message is stored later, in a transaction that does not look at the asset again.
PersistMessage(c) ==
  /\ call[c].pc = "persist"
  /\ sent' = sent \cup {call[c].key}
  /\ Return(c, "MEDIA_OK")
  /\ UNCHANGED <<assets, disk, World, faults>>

\* ResolvePrivateDownload: LoadReadyAsset, then Authorize and the signature.
LoadReadyAsset(c) ==
  /\ call[c].op = "download" /\ call[c].pc = "load"
  /\ IF assets[call[c].key].state = "ready" THEN Goto(c, "authorize") ELSE Return(c, "MEDIA_NOT_FOUND")
  /\ UNCHANGED <<assets, disk, sent, World, faults>>

AuthorizeDownload(c) ==
  /\ call[c].op = "download" /\ call[c].pc = "authorize"
  /\ Return(c, IF Authorized(call[c].id, now) THEN "MEDIA_OK" ELSE "MEDIA_UNAUTHORIZED")
  /\ UNCHANGED <<assets, disk, sent, World, faults>>

------------------------------------------------------------------------------
(* Failures and the rest of the system *)

\* verifyExisting: Lstat or a read that fails is answered like a different object, OpenFile is not.
FailureCodes(pc) == {"MEDIA_STORAGE_UNAVAILABLE"} \cup (IF pc = "verify" THEN {"MEDIA_CONFLICT"} ELSE {})

\* A timeout, or a failed statement or file operation: temporary file and transaction go.
Fail(c) ==
  /\ call[c].pc \notin {"idle", "done", "commit", "unknown"}
  /\ Fault
  /\ \E code \in FailureCodes(call[c].pc) : Set(c, Answered([call[c] EXCEPT !.failed = TRUE], code))
  /\ UNCHANGED <<assets, disk, sent, World>>

\* The process dies; a commit under way still ends either way.  With a power loss, entries
\* that are not synced may be gone.
Crash ==
  /\ Fault
  /\ call' = [c \in Call |-> IF call[c].pc = "unknown" THEN call[c] ELSE NoCall]
  /\ \E lost \in SUBSET (Key \ synced) :
       entries' = [k \in Key |-> IF k \in lost THEN None ELSE entries[k]]
  /\ UNCHANGED <<assets, synced, sent, World>>

\* The caller has its answer, and may call again.
Forget(c) ==
  /\ call[c].pc = "done"
  /\ Set(c, NoCall)
  /\ UNCHANGED <<assets, disk, sent, World, faults>>

\* A revocation of the session or of the token holds the session row while it runs.
RevokeLock(i) ==
  /\ revoking = None
  /\ \A c \in Call : ~(call[c].id = i /\ call[c].pc \in Locked)
  /\ revoking' = i
  /\ UNCHANGED <<assets, disk, access, sent, now, call, faults>>

RevokeCommit ==
  /\ revoking # None
  /\ \E s \in BOOLEAN : access' = [access EXCEPT ![revoking].token = FALSE, ![revoking].session = s /\ @]
  /\ revoking' = None
  /\ UNCHANGED <<assets, disk, sent, now, call, faults>>

\* im_media_assets_membership_fk keeps the members that own assets.
RemoveMember(i) ==
  /\ access[i].member
  /\ \A k \in Key : assets[k].owner # i
  /\ \A c \in Call : ~(call[c].op = "begin" /\ call[c].id = i /\ call[c].pc \in {"commit", "unknown"})
  /\ access' = [access EXCEPT ![i].member = FALSE]
  /\ UNCHANGED <<assets, disk, revoking, sent, now, call, faults>>

Tick ==
  /\ now < MaxTime
  /\ now' = now + 1
  /\ UNCHANGED <<assets, disk, access, revoking, sent, call, faults>>

Step(c) ==
  \/ Start(c) \/ Snapshot(c) \/ LockSession(c) \/ InsertPending(c) \/ UpdateReady(c) \/ Commit(c)
  \/ CommitUnknown(c) \/ Settle(c) \/ LoadGrant(c) \/ AuthorizeUpload(c) \/ PutImmutable(c) \/ CopyTemp(c)
  \/ Link(c) \/ Verify(c) \/ SyncRoot(c) \/ ValidateForSend(c) \/ PersistMessage(c) \/ LoadReadyAsset(c)
  \/ AuthorizeDownload(c) \/ Fail(c) \/ Forget(c)

Next ==
  \/ \E c \in Call : Step(c)
  \/ \E i \in Identity : RevokeLock(i) \/ RemoveMember(i)
  \/ RevokeCommit \/ Crash \/ Tick

Spec == Init /\ [][Next]_vars

------------------------------------------------------------------------------
(* Properties *)

TypeOK ==
  /\ \A k \in Key :
       /\ assets[k] # NoAsset => assets[k].owner \in Identity /\ assets[k].content \in Content
       /\ assets[k].state \in {"none", "pending", "ready"}
       /\ entries[k] \in Content \cup {None}
  /\ synced \subseteq {k \in Key : entries[k] # None}
  /\ sent \subseteq Key
  /\ revoking \in Identity \cup {None}
  /\ now \in 1 .. MaxTime /\ faults \in 0 .. MaxFaults
  /\ \A c \in Call : call[c].at <= now /\ call[c].tries <= MaxGrantAttempts

\* A row is ready only when the object it describes can no longer be lost, whoever stored it
\* and whatever power loss follows; its completion time is before its expiry (CompleteReady
\* after PutImmutable, with the clock read before).
ReadyDurable ==
  \A k \in Key : assets[k].state = "ready" =>
    /\ entries[k] = assets[k].content /\ k \in synced
    /\ assets[k].completed < assets[k].expires

\* Every promise about an asset is kept by a ready row: an upload or a download that was
\* answered OK, and a stored message that refers to the asset.
PromisesReady ==
  /\ \A k \in sent : assets[k].state = "ready"
  /\ \A c \in Call : call[c].op \in {"complete", "download"} /\ call[c].answer = "MEDIA_OK" =>
       assets[call[c].key].state = "ready"

\* The owner who sends the declared content is refused only for a lost right, an expired grant,
\* or a failure within this very call: never because uploads of it race, nor because of what
\* earlier ones left behind (Link, verifyExisting).  It is never called invalid.  A failure may
\* be answered as a conflict: verifyExisting takes an object that it cannot read for another.
RightContentAccepted ==
  \A c \in Call :
    call[c].op = "complete" /\ call[c].pc = "done" /\ call[c].seen # "none"
      /\ Matches(c, call[c].content) =>
    \/ call[c].answer \in {"MEDIA_OK", "MEDIA_UNAUTHORIZED", "MEDIA_EXPIRED"}
    \/ call[c].failed /\ call[c].answer \in {"MEDIA_STORAGE_UNAVAILABLE", "MEDIA_CONFLICT"}

\* What the service promises about an asset and its content is kept.
MediaInv == TypeOK /\ ReadyDurable /\ PromisesReady /\ RightContentAccepted

\* No grant is created and none completed for a session that is already revoked, although the
\* authorization was evaluated earlier (authorizeTx locks the session row until the commit).
SessionLiveAtCommit ==
  [][\A k \in Key : assets'[k] # assets[k] => access[assets'[k].owner].session]_vars
==============================================================================
