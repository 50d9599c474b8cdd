------------------------------ MODULE SdkOutbox ------------------------------
(***************************************************************************)
(* The SDK's send outbox over its local store: the calls of                *)
(* sdk/core/src/outbox/mod.rs, the rows and the revision of                *)
(* sdk/storage/sqlite/src/operations.rs, and the host that drives them.    *)
(*                                                                         *)
(* The store belongs to one account and one process, and each call on it   *)
(* is one SQLite transaction and so one atomic action.  Between calls the  *)
(* host's tasks interleave: a task reads the store revision, then the      *)
(* pending row, and later passes both to an outbox call, which writes only *)
(* if the revision is still the same.  A commit may fail, or its outcome   *)
(* may stay unknown; then the store refuses work until it is reopened.     *)
(*                                                                         *)
(* The network loses, delays, duplicates and reorders: the server may      *)
(* persist any intent that was ever transmitted, and its answers may       *)
(* arrive at any later time.                                               *)
(***************************************************************************)
EXTENDS OutboxRecord, FiniteSets

CONSTANTS
  Client,        \* client message ids, each with its immutable intent
  NoClient,
  Task,          \* host tasks that call the outbox
  MaxPending,    \* MAX_PENDING
  MaxRecords,    \* Limits.records
  MaxGen,        \* bound: store generations
  MaxConn,       \* bound: connection generations
  MaxLives,      \* bound: rows enqueued for one client id
  MaxFaults      \* bound: failed and unknown commits, crashes and clock rollbacks

ASSUME OutboxAssumption ==
  /\ NoClient \notin Client
  /\ IsFiniteSet(Client) /\ IsFiniteSet(Task)
  /\ MaxPending \in Nat \ {0}
  /\ MaxRecords \in Nat \ {0}
  /\ MaxGen \in Nat \ {0}
  /\ MaxConn \in Nat \ {0}
  /\ MaxLives \in Nat \ {0}
  /\ MaxFaults \in Nat

VARIABLES
  pending,    \* pending_outbox: the record of each client id
  messages,   \* messages: no row, a row, or a row whose payload was trimmed
  revision,   \* store_metadata.revision
  gen,        \* store_metadata.generation
  last,       \* the client of the last operation, when that was its Enqueue
  fence,      \* the generation of the adapter's in-memory fence
  frozen,     \* requires_reopen
  conn,       \* the generation of the live connection
  ctx,        \* the generations in the host's SendContext
  task,       \* what each task holds
  now,        \* the host's clock
  sent,       \* requests transmitted: client id and connection generation
  posts,      \* transmissions of each client id
  spent,      \* attempts of the rows of each client id that are gone
  life,       \* rows ever enqueued for each client id
  ended,      \* rows resolved or removed for each client id
  persisted,  \* client ids the server has persisted
  faults

store == <<pending, messages, revision, last, spent, life, ended>>
net == <<sent, posts, persisted>>
vars == <<store, gen, fence, frozen, conn, ctx, task, now, net, faults>>

NoRecord == [state |-> "none"]
Idle == [pc |-> "idle", client |-> NoClient, rev |-> 0, rec |-> NoRecord]

Init ==
  /\ pending = [c \in Client |-> NoRecord]
  /\ messages = [c \in Client |-> "none"]
  /\ revision = 0
  /\ gen = 1
  /\ last = NoClient
  /\ fence = 1
  /\ frozen = FALSE
  /\ conn = 1
  /\ ctx = [gen |-> 1, conn |-> 1]
  /\ task = [t \in Task |-> Idle]
  /\ now = 0
  /\ sent = {}
  /\ posts = [c \in Client |-> 0]
  /\ spent = [c \in Client |-> 0]
  /\ life = [c \in Client |-> 0]
  /\ ended = [c \in Client |-> 0]
  /\ persisted = {}
  /\ faults = 0

Pending == {c \in Client : pending[c] # NoRecord}

------------------------------------------------------------------------------
(* The store. *)

Fault ==
  /\ faults < MaxFaults
  /\ faults' = faults + 1

\* A transaction that leaves the rows p and m and the last operation l.
Write(p, m, l) ==
  /\ pending' = p
  /\ messages' = m
  /\ last' = l
  /\ revision' = revision + 1
  /\ life' = [c \in Client |->
                life[c] + (IF pending[c] = NoRecord /\ p[c] # NoRecord THEN 1 ELSE 0)]
  /\ ended' = [c \in Client |->
                 ended[c] + (IF pending[c] # NoRecord /\ p[c] = NoRecord THEN 1 ELSE 0)]
  /\ spent' = [c \in Client |->
                 spent[c] + (IF pending[c] # NoRecord /\ p[c] = NoRecord
                             THEN pending[c].attempts ELSE 0)]

\* The caller learns that the transaction committed.
Commits(p, m, l) == Write(p, m, l) /\ UNCHANGED <<frozen, faults>>

\* The caller gets an error: a rollback, or an outcome it cannot know.
CommitFails(p, m, l) ==
  /\ Fault
  /\ \/ UNCHANGED <<store, frozen>>
     \/ frozen' = TRUE /\ (Write(p, m, l) \/ UNCHANGED store)

\* Mutant: the expected revision is not compared.
MayMutateStale(c, rev) ==
  /\ ~frozen
  /\ pending[c] # NoRecord

\* The guards of update_pending and remove_pending: not frozen, the same revision, a row.
MayMutate(c, rev) ==
  /\ ~frozen
  /\ rev = revision
  /\ pending[c] # NoRecord

Refused == UNCHANGED <<store, frozen, faults>>

\* Row c becomes r, or the call fails; a record the envelope refuses is never written.
Update(c, rev, r) ==
  IF MayMutate(c, rev) /\ ValidRecord(r)
  THEN \/ Commits([pending EXCEPT ![c] = r], messages, last)
       \/ CommitFails([pending EXCEPT ![c] = r], messages, last)
  ELSE Refused

------------------------------------------------------------------------------
(* Loading a row. *)

\* Action::Snapshot gives the revision.
LoadRevision(t, c) ==
  /\ task[t].pc = "idle"
  /\ ~frozen
  /\ c \in Pending
  /\ task' = [task EXCEPT ![t] = [pc |-> "revision", client |-> c, rev |-> revision,
                                  rec |-> NoRecord]]
  /\ UNCHANGED <<store, gen, fence, frozen, conn, ctx, now, net, faults>>

\* Action::Pending gives the row; a row that is gone ends the task.
LoadPending(t) ==
  /\ task[t].pc = "revision"
  /\ task' = [task EXCEPT ![t] =
                IF frozen \/ pending[task[t].client] = NoRecord THEN Idle
                ELSE [pc |-> "loaded", client |-> task[t].client, rev |-> task[t].rev,
                      rec |-> pending[task[t].client]]]
  /\ UNCHANGED <<store, gen, fence, frozen, conn, ctx, now, net, faults>>

------------------------------------------------------------------------------
(* Outbox calls on a loaded row.  Each ends the task, but for a send.       *)

EndTask(t) == task' = [task EXCEPT ![t] = Idle]

\* Mutant: the stored message is not looked up.
MayEnqueueAgain(c) ==
  /\ pending[c] = NoRecord
  /\ Cardinality(Pending) < MaxPending

\* mutate inserts one row per client id, and none for an id whose message is stored.
MayEnqueue(c) ==
  /\ pending[c] = NoRecord
  /\ messages[c] = "none"
  /\ Cardinality(Pending) < MaxPending

\* enqueue with a fresh operation id; every refusal leaves the store as it is.
Enqueue(c) ==
  /\ ~frozen
  /\ ctx.gen = fence
  /\ life[c] < MaxLives
  /\ MayEnqueue(c)
  /\ LET p == [pending EXCEPT ![c] = NewRecord(ctx.gen, ctx.conn, now)]
     IN  Commits(p, messages, c) \/ CommitFails(p, messages, c)
  /\ UNCHANGED <<gen, fence, conn, ctx, task, now, net>>

\* What the replay of the last operation leaves of the row: what it is now.
ReplayRow(c) == pending[c]

\* enqueue again with the operation id and request of the last operation.
ReplayEnqueue(c) ==
  /\ ~frozen
  /\ last = c
  /\ pending' = [pending EXCEPT ![c] = ReplayRow(c)]
  /\ UNCHANGED <<messages, revision, last, spent, life, ended>>
  /\ UNCHANGED <<gen, fence, frozen, conn, ctx, task, now, net, faults>>

\* plan_dispatch: the attempt is durable before the intent is handed to the transport.
PlanDispatch(t) ==
  /\ task[t].pc = "loaded"
  /\ LET c == task[t].client
         plan == DispatchPlan(task[t].rec, fence, ctx.gen, ctx.conn, now)
     IN  \/ /\ plan.do = "send"
            /\ MayMutate(c, task[t].rev)
            /\ ValidRecord(plan.rec)
            /\ Commits([pending EXCEPT ![c] = plan.rec], messages, last)
            /\ task' = [task EXCEPT ![t] = [pc |-> "sending", client |-> c, rev |-> 0,
                                            rec |-> NoRecord]]
         \/ /\ plan.do = "send"
            /\ IF MayMutate(c, task[t].rev) /\ ValidRecord(plan.rec)
               THEN CommitFails([pending EXCEPT ![c] = plan.rec], messages, last)
               ELSE Refused
            /\ EndTask(t)
         \/ /\ plan.do = "persist"
            /\ Update(c, task[t].rev, plan.rec)
            /\ EndTask(t)
         \/ /\ plan.do = "nothing"
            /\ Refused
            /\ EndTask(t)
  /\ UNCHANGED <<gen, fence, conn, ctx, now, net>>

\* The host transmits what plan_dispatch returned, on the connection it has now.
Transmit(t) ==
  /\ task[t].pc = "sending"
  /\ sent' = sent \cup {<<task[t].client, ctx.conn>>}
  /\ posts' = [posts EXCEPT ![task[t].client] = @ + 1]
  /\ EndTask(t)
  /\ UNCHANGED <<store, gen, fence, frozen, conn, ctx, now, persisted, faults>>

\* A call that persists the record of its plan, if the plan has one.
Apply(t, plan) ==
  /\ IF plan.do = "persist" THEN Update(task[t].client, task[t].rev, plan.rec) ELSE Refused
  /\ EndTask(t)
  /\ UNCHANGED <<gen, fence, conn, ctx, now, net>>

\* apply_failure: the answer to some request of this client id, with the generation of
\* the connection it came from.  It does not say which attempt it answers.
ApplyFailure(t, g, disposition) ==
  /\ task[t].pc = "loaded"
  /\ <<task[t].client, g>> \in sent
  /\ Apply(t, FailurePlan(task[t].rec, fence, ctx.gen, g, now, disposition))

RebindConnection(t) ==
  /\ task[t].pc = "loaded"
  /\ Apply(t, RebindPlan(task[t].rec, fence, ctx.gen, ctx.conn))

ResumeAuth(t) ==
  /\ task[t].pc = "loaded"
  /\ Apply(t, ResumePlan(task[t].rec, fence, ctx.gen, ctx.conn, now))

\* remove_terminal: the only way a row goes without an ACK.
RemoveTerminal(t) ==
  /\ task[t].pc = "loaded"
  /\ LET c == task[t].client
         p == [pending EXCEPT ![c] = NoRecord]
     IN  IF Removable(task[t].rec, fence, ctx.gen) /\ MayMutate(c, task[t].rev)
         THEN Commits(p, messages, last) \/ CommitFails(p, messages, last)
         ELSE Refused
  /\ EndTask(t)
  /\ UNCHANGED <<gen, fence, conn, ctx, now, net>>

Stored == {c \in Client : messages[c] # "none"}

\* The Apply batch of an ACK commits: insert the message or find the very same one.
MayResolve(c, rev) ==
  /\ MayMutate(c, rev)
  /\ ctx.gen = fence
  /\ messages[c] # "trimmed"
  /\ messages[c] = "none" => Cardinality(Stored) < MaxRecords

\* resolve_ack: message and pending row change in one transaction, in any state of the row.
ResolveAck(t) ==
  /\ task[t].pc = "loaded"
  /\ task[t].client \in persisted
  /\ LET c == task[t].client
         p == [pending EXCEPT ![c] = NoRecord]
         m == [messages EXCEPT ![c] = "present"]
     IN  IF MayResolve(c, task[t].rev)
         THEN Commits(p, m, NoClient) \/ CommitFails(p, m, NoClient)
         ELSE Refused
  /\ EndTask(t)
  /\ UNCHANGED <<gen, fence, conn, ctx, now, net>>

------------------------------------------------------------------------------
(* Other writers of the store, and the host's life. *)

\* A sync batch inserts the server's copy of the message before any ACK came.
SyncMessage(c) ==
  /\ ~frozen
  /\ ctx.gen = fence
  /\ c \in persisted
  /\ messages[c] = "none"
  /\ Cardinality(Stored) < MaxRecords
  /\ Commits(pending, [messages EXCEPT ![c] = "present"], NoClient)
  /\ UNCHANGED <<gen, fence, conn, ctx, task, now, net>>

\* Action::Trim drops a payload and keeps the row.
Trim(c) ==
  /\ ~frozen
  /\ ctx.gen = fence
  /\ messages[c] = "present"
  /\ Commits(pending, [messages EXCEPT ![c] = "trimmed"], NoClient)
  /\ UNCHANGED <<gen, fence, conn, ctx, task, now, net>>

\* Action::AdvanceGeneration; the in-memory fence follows only a known commit.
AdvanceGeneration ==
  /\ ~frozen
  /\ ctx.gen = fence
  /\ gen < MaxGen
  /\ \/ /\ Commits(pending, messages, NoClient)
        /\ gen' = gen + 1
        /\ fence' = gen + 1
     \/ /\ Fault
        /\ frozen' = TRUE
        /\ \/ Write(pending, messages, NoClient) /\ gen' = gen + 1
           \/ UNCHANGED <<store, gen>>
        /\ UNCHANGED fence
  /\ UNCHANGED <<conn, ctx, task, now, net>>

Reconnect ==
  /\ conn < MaxConn
  /\ conn' = conn + 1
  /\ UNCHANGED <<store, gen, fence, frozen, ctx, task, now, net, faults>>

\* The host builds a new SendContext; until then its tasks use the old generations.
RefreshContext ==
  /\ ctx' = [gen |-> fence, conn |-> conn]
  /\ UNCHANGED <<store, gen, fence, frozen, conn, task, now, net, faults>>

\* SqliteStore::open: the fence is read from disk and nothing of the old process is left.
Open ==
  /\ frozen' = FALSE
  /\ fence' = gen
  /\ ctx' = [gen |-> gen, conn |-> conn]
  /\ task' = [t \in Task |-> Idle]
  /\ UNCHANGED <<store, gen, conn, now, net>>

\* The host reopens a store that refuses work.
Reopen == frozen /\ Open /\ UNCHANGED faults

\* The process dies at any point and starts again.
Crash == Fault /\ Open

ServerPersist(c) ==
  /\ \E g \in 1 .. MaxConn : <<c, g>> \in sent
  /\ persisted' = persisted \cup {c}
  /\ UNCHANGED <<store, gen, fence, frozen, conn, ctx, task, now, sent, posts, faults>>

Tick ==
  /\ now < MaxWord
  /\ now' = now + 1
  /\ UNCHANGED <<store, gen, fence, frozen, conn, ctx, task, net, faults>>

\* The wall clock is set back.
Rollback ==
  /\ Fault
  /\ \E n \in Word : n < now /\ now' = n
  /\ UNCHANGED <<store, gen, fence, frozen, conn, ctx, task, net>>

TaskStep(t) ==
  \/ \E c \in Client : LoadRevision(t, c)
  \/ LoadPending(t) \/ PlanDispatch(t) \/ Transmit(t)
  \/ \E g \in 1 .. MaxConn, d \in Disposition : ApplyFailure(t, g, d)
  \/ RebindConnection(t) \/ ResumeAuth(t) \/ RemoveTerminal(t) \/ ResolveAck(t)

ClientStep(c) ==
  Enqueue(c) \/ ReplayEnqueue(c) \/ SyncMessage(c) \/ Trim(c) \/ ServerPersist(c)

Next ==
  \/ \E t \in Task : TaskStep(t)
  \/ \E c \in Client : ClientStep(c)
  \/ AdvanceGeneration \/ Reconnect \/ RefreshContext \/ Reopen \/ Crash \/ Tick \/ Rollback

Spec == Init /\ [][Next]_vars

\* Fairness of the host and of the clock: the clock runs, the host reopens a frozen store,
\* refreshes its context, loads queued rows and calls dispatch and rebind on what it loads.
\* Another writer may outdate what a task loaded, but not every time.
Fairness ==
  /\ WF_vars(Tick)
  /\ WF_vars(Reopen)
  /\ WF_vars(ctx # [gen |-> fence, conn |-> conn] /\ RefreshContext)
  /\ \A t \in Task :
       /\ WF_vars(LoadPending(t))
       /\ WF_vars(PlanDispatch(t))
       /\ WF_vars(Transmit(t))
       /\ SF_vars(task[t].rev = revision /\ PlanDispatch(t) /\ UNCHANGED faults)
       /\ SF_vars(task[t].rev = revision /\ RebindConnection(t) /\ UNCHANGED faults)
       /\ \A c \in Client : SF_vars(LoadRevision(t, c))

LiveSpec == Spec /\ Fairness

------------------------------------------------------------------------------
(* Properties *)

Attempts(c) == IF pending[c] = NoRecord THEN 0 ELSE pending[c].attempts

TypeOK ==
  /\ pending \in [Client -> Record \cup {NoRecord}]
  /\ messages \in [Client -> {"none", "present", "trimmed"}]
  /\ revision \in Nat
  /\ gen \in Nat /\ fence \in Nat /\ conn \in Nat
  /\ last \in Client \cup {NoClient}
  /\ frozen \in BOOLEAN
  /\ ctx \in [gen : Nat, conn : Nat]
  /\ task \in [Task -> [pc : {"idle", "revision", "loaded", "sending"},
                        client : Client \cup {NoClient}, rev : Nat,
                        rec : Record \cup {NoRecord}]]
  /\ \A t \in Task : task[t].pc = "loaded" => task[t].client \in Client /\ task[t].rec \in Record
  /\ now \in Word
  /\ sent \subseteq Client \X Nat
  /\ posts \in [Client -> Nat]
  /\ spent \in [Client -> Nat]
  /\ life \in [Client -> Nat]
  /\ ended \in [Client -> Nat]
  /\ persisted \subseteq Client
  /\ faults \in 0 .. MaxFaults

\* The revision compare-and-swap is sound: a task whose revision is still the store's holds
\* the row as it is, so no outbox call overwrites a state it has not seen (LoadPending after
\* LoadRevision, and every mutation of operations.rs advances the revision).
ViewCurrent ==
  \A t \in Task :
    task[t].pc = "loaded" /\ task[t].rev = revision => task[t].rec = pending[task[t].client]

\* Every transmission is paid for by a durable attempt of some row of its client id, and so
\* is every intent that plan_dispatch returned and the host has not transmitted yet: crashes,
\* unknown commits and stale tasks never send beyond the attempts on disk.
SendPaid ==
  \A c \in Client :
    posts[c] + Cardinality({t \in Task : task[t].pc = "sending" /\ task[t].client = c})
      <= spent[c] + Attempts(c)

\* No reachable row can get stuck on the envelope check: whatever the clock, the connection
\* and the failure, every record that dispatch_plan, failure_plan, rebind_connection and
\* resume_auth want to persist is one that validate_record accepts.
PlansEncode ==
  \A c \in Pending : \A n \in Word, g \in 1 .. MaxConn :
    LET r == pending[c]
    IN  /\ ValidRecord(r)
        /\ ValidRecord(DispatchPlan(r, gen, gen, g, n).rec)
        /\ \A d \in Disposition : ValidRecord(FailurePlan(r, gen, gen, g, n, d).rec)
        /\ ValidRecord(RebindPlan(r, gen, gen, g).rec)
        /\ ValidRecord(ResumePlan(r, gen, gen, g, n).rec)

\* Rows are created by a committed enqueue and by nothing else: replaying the operation after
\* its row was removed or resolved does not bring the intent back (mutate's replay branch).
OneRowPerEnqueue ==
  \A c \in Client : life[c] = ended[c] + (IF c \in Pending THEN 1 ELSE 0)

\* While the adapter accepts work its fence is the generation on disk: an advance whose commit
\* is unknown freezes the adapter before anything can use the outdated fence.
FenceCurrent == ~frozen => fence = gen

\* The state of the store and of its tasks: one row per enqueue, the fence of the disk, views that
\* are current while their revision is, and no transmission beyond the durable attempts.
OutboxInv == TypeOK /\ ViewCurrent /\ OneRowPerEnqueue /\ FenceCurrent /\ SendPaid

\* A row leaves the outbox only with the server's message in the local store, or by explicit
\* removal from a state that is never sent automatically; unknown commits included.
NothingLost ==
  [][\A c \in Client :
       c \in Pending /\ pending'[c] = NoRecord =>
         \/ messages'[c] # "none"
         \/ pending[c].state \in {"AuthRecovery", "PermanentFailure"}]_vars

\* A message that is stored locally and no longer pending is never enqueued, and so never
\* sent, again (mutate's check of the messages table, which trimming leaves in place).
NeverResent ==
  [][\A c \in Client : c \in Stored /\ c \notin Pending => pending'[c] = NoRecord]_vars

\* A row is made or kept sendable only in the generation on disk, and never once it failed for
\* good: no outdated context, late task or unknown generation change revives it
\* (store_generation_changed, require_current_fence and the revision together).
GenerationFenced ==
  [][\A c \in Client :
       c \in Pending /\ pending'[c] # pending[c] /\ pending'[c].state \in Sendable =>
         pending'[c].gen = gen /\ pending[c].state # "PermanentFailure"]_vars

\* A failure changes a row only if some request of its client id was transmitted over the
\* connection the row is bound to: the late answer of a replaced connection does not count
\* against a row that was rebound (failure_plan's connection check).
FailureAttributed ==
  [][\A c \in Client :
       /\ c \in Pending /\ pending'[c] # NoRecord
       /\ pending'[c].code # pending[c].code
       /\ pending'[c].code \in {"TEMPORARY", "AUTH", "PERMANENT"}
       => <<c, pending[c].conn>> \in sent]_vars

\* Every queued row eventually is resolved, fails for good or waits for authentication: the
\* clock, the attempt budget and the retry age leave no row waiting for ever.
EventuallySettled ==
  \A c \in Client :
    (c \in Pending /\ pending[c].state \in Sendable)
      ~> (c \notin Pending \/ pending[c].state \notin Sendable)
==============================================================================
