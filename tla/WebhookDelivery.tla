--------------------------- MODULE WebhookDelivery ---------------------------
(***************************************************************************)
(* The webhook worker (server/webhook/worker.go) and the fenced delivery   *)
(* rows it works on (server/storage/webhook/repository.go).                *)
(*                                                                         *)
(* Rows are created by the fan-out, which module WebhookFanout models;     *)
(* here every delivery starts as a freshly inserted 'pending' row.  Every  *)
(* repository call is one PostgreSQL transaction and so one atomic action; *)
(* a call may also fail before it commits, or commit and still report an   *)
(* error.  The deployment runs one worker per database, enforced by a      *)
(* session advisory lock that is only polled: a worker whose lock          *)
(* connection died keeps working until its next check, so two workers may  *)
(* overlap.                                                                *)
(*                                                                         *)
(* Time is counted down: a row's lease and wait and a job's left are the   *)
(* ticks that remain until lease_expires_at, next_attempt_at and the       *)
(* request deadline.                                                       *)
(***************************************************************************)
EXTENDS Integers, FiniteSets

CONSTANTS
  Worker,          \* worker processes that share the database
  NoWorker,
  Delivery,        \* delivery rows
  Destination,     \* webhook endpoints
  Dest,            \* the destination of each delivery
  Token,           \* lease tokens; newID is random, so a token in use is never redrawn
  NoToken,
  MaxAttempts,     \* Config.MaxAttempts
  LeaseTTL,        \* Config.LeaseTTL, in ticks
  RequestTimeout,  \* Config.RequestTimeout
  CommitDelay,     \* longest time between BeginAttempt's commit and the start of the attempt
  BaseBackoff,     \* Config.BaseBackoff
  MaxBackoff,      \* Config.MaxBackoff
  BatchSize,       \* Config.BatchSize
  MaxConcurrent,   \* Config.MaxConcurrent
  MaxPerDestination, \* Config.MaxPerDestination
  MaxFaults        \* bound: crashes, lost locks and storage errors of one behaviour

\* What Config.Validate accepts, and the timing the lease margin is there for.
ASSUME ConfigAssumption ==
  /\ NoWorker \notin Worker
  /\ NoToken \notin Token
  /\ Dest \in [Delivery -> Destination]
  /\ MaxAttempts \in Nat \ {0}
  /\ RequestTimeout \in Nat \ {0}
  /\ LeaseTTL \in Nat
  /\ LeaseTTL > RequestTimeout + RequestTimeout \div 2
  /\ CommitDelay \in Nat
  /\ CommitDelay < RequestTimeout \div 2
  /\ BaseBackoff \in Nat \ {0}
  /\ MaxBackoff \in Nat
  /\ MaxBackoff >= BaseBackoff
  /\ BatchSize \in Nat \ {0}
  /\ MaxConcurrent \in Nat \ {0}
  /\ MaxPerDestination \in 1 .. MaxConcurrent
  /\ MaxFaults \in Nat

VARIABLES
  row,        \* im_webhook_deliveries: status, attempts, token, lease, wait
  active,     \* destinations whose endpoint is active and not revoked
  lock,       \* the worker whose session holds the advisory lock
  phase,      \* where each worker is in Run and cycle
  job,        \* the deliveries each worker's cycle has claimed
  posts,      \* HTTP requests sent for each delivery
  accepted,   \* deliveries some request of which the receiver accepted
  rejected,   \* deliveries that failed for a reason retryOutcome does not cover
  faults      \* faults so far

vars == <<row, active, lock, phase, job, posts, accepted, rejected, faults>>

Terminal == {"delivered", "dead_letter", "cancelled"}
Queued == {"pending", "retry"}

\* Mutant: the lease has to cover the request and nothing more.
RequiredNoMargin == RequestTimeout

\* BeginAttempt's required lease: one and a half request timeouts.
Required == RequestTimeout + RequestTimeout \div 2

NoJob == [pc |-> "idle", token |-> NoToken, tries |-> 0, left |-> 0, outcome |-> "none"]

Row == [status : Queued \cup {"leased"} \cup Terminal, attempts : 0 .. MaxAttempts,
        token : Token \cup {NoToken}, lease : 0 .. LeaseTTL, wait : 0 .. MaxBackoff]

Job == [pc : {"idle", "claimed", "dispatched", "begun", "posting", "answered"},
        token : Token \cup {NoToken}, tries : 0 .. MaxAttempts,
        left : 0 .. RequestTimeout,
        outcome : {"none", "delivered", "retry", "dead_letter"}]

TypeOK ==
  /\ row \in [Delivery -> Row]
  /\ active \in SUBSET Destination
  /\ lock \in Worker \cup {NoWorker}
  /\ phase \in [Worker -> {"stopped", "cancel", "claim", "drain"}]
  /\ job \in [Worker -> [Delivery -> Job]]
  /\ posts \in [Delivery -> Nat]
  /\ accepted \in SUBSET Delivery
  /\ rejected \in SUBSET Delivery
  /\ faults \in 0 .. MaxFaults

Init ==
  /\ row = [d \in Delivery |-> [status |-> "pending", attempts |-> 0,
                                token |-> NoToken, lease |-> 0, wait |-> 0]]
  /\ active = Destination
  /\ lock = NoWorker
  /\ phase = [w \in Worker |-> "stopped"]
  /\ job = [w \in Worker |-> [d \in Delivery |-> NoJob]]
  /\ posts = [d \in Delivery |-> 0]
  /\ accepted = {}
  /\ rejected = {}
  /\ faults = 0

------------------------------------------------------------------------------
(* Row updates of the repository. *)

Fault ==
  /\ faults < MaxFaults
  /\ faults' = faults + 1

NoFault == UNCHANGED faults

\* The row left by an UPDATE that clears the lease columns.
Unleased(r, status, wait) ==
  [status |-> status, attempts |-> r.attempts, token |-> NoToken, lease |-> 0, wait |-> wait]

\* Mutant: expired leases are never requeued.
RequeueNothing(r) == r

\* The first statement of CancelRevoked and of Claim: lease_expires_at <= clock_timestamp().
RequeueExpired(r) ==
  IF r.status = "leased" /\ r.lease = 0 THEN Unleased(r, "retry", 0) ELSE r

\* The second statement of CancelRevoked.
CancelIfRevoked(d, r) ==
  IF Dest[d] \notin active /\ r.status \notin Terminal THEN Unleased(r, "cancelled", 0) ELSE r

\* Mutant: Finish does not compare the token.
HoldsAnyLease(d, t) ==
  /\ row[d].status = "leased"
  /\ row[d].lease > 0

\* The WHERE clause of Finish: the live lease of the caller's token.
HoldsLease(d, t) ==
  /\ row[d].status = "leased"
  /\ row[d].token = t
  /\ row[d].lease > 0

\* The rows Claim selects once expired leases are requeued.
Due(r) == {d \in Delivery : r[d].status \in Queued /\ r[d].wait = 0 /\ Dest[d] \in active}

\* Tokens newID cannot return: the ones some row or job still holds.
TokensInUse ==
  {row[d].token : d \in Delivery} \cup {job[w][d].token : w \in Worker, d \in Delivery}

------------------------------------------------------------------------------
(* The process and its advisory lock. *)

\* AcquireWorkerLock: pg_try_advisory_lock succeeds and Run starts cycling.
Start(w) ==
  /\ phase[w] = "stopped"
  /\ lock = NoWorker
  /\ lock' = w
  /\ phase' = [phase EXCEPT ![w] = "cancel"]
  /\ UNCHANGED <<row, active, job, posts, accepted, rejected, faults>>

\* The session that holds the lock dies; its worker does not know yet.
LoseLock ==
  /\ lock # NoWorker
  /\ Fault
  /\ lock' = NoWorker
  /\ UNCHANGED <<row, active, phase, job, posts, accepted, rejected>>

\* The worker's context is cancelled: deliver returns without Finish, leases stay behind.
StopWorker(w) ==
  /\ phase' = [phase EXCEPT ![w] = "stopped"]
  /\ job' = [job EXCEPT ![w] = [d \in Delivery |-> NoJob]]

\* webhookRuntime.Run's ticker: the lock check fails and the worker is cancelled.
LockCheck(w) ==
  /\ phase[w] # "stopped"
  /\ lock # w
  /\ StopWorker(w)
  /\ UNCHANGED <<row, active, lock, posts, accepted, rejected, faults>>

\* The process exits, by a crash or by SIGTERM, and its session ends.
Exit(w) ==
  /\ phase[w] # "stopped"
  /\ Fault
  /\ StopWorker(w)
  /\ lock' = IF lock = w THEN NoWorker ELSE lock
  /\ UNCHANGED <<row, active, posts, accepted, rejected>>

------------------------------------------------------------------------------
(* cycle *)

\* One transaction; on an error Run sleeps and starts the next cycle.
CancelRevoked(w) ==
  /\ phase[w] = "cancel"
  /\ \/ /\ row' = [d \in Delivery |-> CancelIfRevoked(d, RequeueExpired(row[d]))]
        /\ \/ NoFault /\ phase' = [phase EXCEPT ![w] = "claim"]
           \/ Fault /\ UNCHANGED phase
     \/ Fault /\ UNCHANGED <<row, phase>>
  /\ UNCHANGED <<active, lock, job, posts, accepted, rejected>>

Claimed(r, t) ==
  [status |-> "leased", attempts |-> r.attempts, token |-> t, lease |-> LeaseTTL, wait |-> 0]

ClaimedJob(t, attempts) ==
  [pc |-> "claimed", token |-> t, tries |-> attempts, left |-> 0, outcome |-> "none"]

\* The rows after Claim leases the deliveries of S with the tokens f.
ClaimRows(S, f) ==
  [d \in Delivery |-> IF d \in S THEN Claimed(RequeueExpired(row[d]), f[d])
                                 ELSE RequeueExpired(row[d])]

\* Claim skips rows another transaction has locked, so S need not hold every due row.
Claim(w) ==
  /\ phase[w] = "claim"
  /\ \/ \E S \in SUBSET Due([d \in Delivery |-> RequeueExpired(row[d])]) :
          /\ Cardinality(S) <= BatchSize
          /\ \E f \in [S -> Token \ TokensInUse] :
               /\ \A d, e \in S : f[d] = f[e] => d = e
               /\ row' = ClaimRows(S, f)
               /\ \/ /\ NoFault
                     /\ job' = [job EXCEPT ![w] = [d \in Delivery |->
                                  IF d \in S
                                  THEN ClaimedJob(f[d], row[d].attempts)
                                  ELSE NoJob]]
                     /\ phase' = [phase EXCEPT ![w] = "drain"]
                  \/ /\ Fault
                     /\ phase' = [phase EXCEPT ![w] = "cancel"]
                     /\ UNCHANGED job
     \/ /\ Fault
        /\ phase' = [phase EXCEPT ![w] = "cancel"]
        /\ UNCHANGED <<row, job>>
  /\ UNCHANGED <<active, lock, posts, accepted, rejected>>

\* wg.Wait returns: the next cycle starts only when every job of this one is over.
EndCycle(w) ==
  /\ phase[w] = "drain"
  /\ \A d \in Delivery : job[w][d].pc = "idle"
  /\ phase' = [phase EXCEPT ![w] = "cancel"]
  /\ UNCHANGED <<row, active, lock, job, posts, accepted, rejected, faults>>

\* Jobs that hold a concurrency slot and a limiter slot.
Running(w) == {d \in Delivery : job[w][d].pc \in {"dispatched", "begun", "posting", "answered"}}

\* A job that goes on to pc; its token and the attempts it was claimed with stay.
Moved(j, pc, left, outcome) ==
  [pc |-> pc, token |-> j.token, tries |-> j.tries, left |-> left, outcome |-> outcome]

\* limiter.acquire and the semaphore admit the delivery to a goroutine.
Dispatch(w, d) ==
  /\ job[w][d].pc = "claimed"
  /\ Cardinality(Running(w)) < MaxConcurrent
  /\ Cardinality({e \in Running(w) : Dest[e] = Dest[d]}) < MaxPerDestination
  /\ job' = [job EXCEPT ![w][d] = Moved(@, "dispatched", 0, "none")]
  /\ UNCHANGED <<row, active, lock, phase, posts, accepted, rejected, faults>>

\* Finish's UPDATE; a stale caller changes nothing.
FinishRow(d, t, status, wait) ==
  IF HoldsLease(d, t)
  THEN row' = [row EXCEPT ![d] = Unleased(@, status, wait)]
  ELSE UNCHANGED row

\* The limiter refuses (slots or token bucket): deferDelivery gives the lease back.
Defer(w, d) ==
  /\ job[w][d].pc = "claimed"
  /\ \/ NoFault /\ FinishRow(d, job[w][d].token, "retry", BaseBackoff)
     \/ Fault /\ UNCHANGED row
  /\ job' = [job EXCEPT ![w][d] = NoJob]
  /\ UNCHANGED <<active, lock, phase, posts, accepted, rejected>>

------------------------------------------------------------------------------
(* deliver *)

MayBegin(d, t) ==
  /\ row[d].status = "leased"
  /\ row[d].token = t
  /\ row[d].lease >= Required
  /\ row[d].attempts < MaxAttempts
  /\ Dest[d] \in active

\* Mutant: every refused attempt of the lease's owner counts as exhausted.
ExhaustedOrLate(d, t) ==
  /\ row[d].status = "leased"
  /\ row[d].token = t

Exhausted(d, t) ==
  /\ row[d].status = "leased"
  /\ row[d].token = t
  /\ row[d].attempts >= MaxAttempts

\* The row of an attempt that begins: counted, with a lease of at least Required.
Begun(r, count) ==
  [status |-> "leased", attempts |-> r.attempts + count, token |-> r.token,
   lease |-> IF r.lease < Required THEN Required ELSE r.lease, wait |-> r.wait]

\* Mutant: the attempt is not counted when it begins.
BeginRowUncounted(d, t) ==
  IF MayBegin(d, t)
  THEN row' = [row EXCEPT ![d] = Begun(@, 0)]
  ELSE IF Exhausted(d, t)
  THEN row' = [row EXCEPT ![d] = Unleased(@, "dead_letter", 0)]
  ELSE UNCHANGED row

\* The row BeginAttempt's transaction leaves.
BeginRow(d, t) ==
  IF MayBegin(d, t)
  THEN row' = [row EXCEPT ![d] = Begun(@, 1)]
  ELSE IF Exhausted(d, t)
  THEN row' = [row EXCEPT ![d] = Unleased(@, "dead_letter", 0)]
  ELSE UNCHANGED row

\* deliver goes on only when BeginAttempt reports the attempt as allowed.
BeginAttempt(w, d) ==
  /\ job[w][d].pc = "dispatched"
  /\ \/ /\ NoFault
        /\ BeginRow(d, job[w][d].token)
        /\ job' = [job EXCEPT ![w][d] =
                     IF MayBegin(d, job[w][d].token)
                     THEN Moved(@, "begun", CommitDelay, "none")
                     ELSE NoJob]
     \/ /\ Fault
        /\ BeginRow(d, job[w][d].token) \/ UNCHANGED row
        /\ job' = [job EXCEPT ![w][d] = NoJob]
  /\ UNCHANGED <<active, lock, phase, posts, accepted, rejected>>

\* Mutant: the attempt that is under way is counted twice.
RetryOutcomeEarly(j) == IF j.tries + 2 >= MaxAttempts THEN "dead_letter" ELSE "retry"

\* retryOutcome, with the attempts the claim saw plus this one.
RetryOutcome(j) == IF j.tries + 1 >= MaxAttempts THEN "dead_letter" ELSE "retry"

Answer(w, d, outcome) ==
  job' = [job EXCEPT ![w][d] = Moved(@, "answered", 0, outcome)]

\* The secret, the envelope or the signature cannot be produced: no request is sent.
PrepareFails(w, d) ==
  /\ job[w][d].pc = "begun"
  /\ \/ Answer(w, d, RetryOutcome(job[w][d])) /\ UNCHANGED rejected
     \/ Answer(w, d, "dead_letter") /\ rejected' = rejected \cup {d}
  /\ UNCHANGED <<row, active, lock, phase, posts, accepted, faults>>

SendRequest(w, d) ==
  /\ job[w][d].pc = "begun"
  /\ job' = [job EXCEPT ![w][d] = Moved(@, "posting", RequestTimeout, "none")]
  /\ posts' = [posts EXCEPT ![d] = @ + 1]
  /\ UNCHANGED <<row, active, lock, phase, accepted, rejected, faults>>

\* 2xx, a retryable status or a transport error, any other status.
Respond(w, d) ==
  /\ job[w][d].pc = "posting"
  /\ \/ d \in accepted /\ Answer(w, d, "delivered") /\ UNCHANGED rejected
     \/ Answer(w, d, RetryOutcome(job[w][d])) /\ UNCHANGED rejected
     \/ Answer(w, d, "dead_letter") /\ rejected' = rejected \cup {d}
  /\ UNCHANGED <<row, active, lock, phase, posts, accepted, faults>>

\* The delay of a retry is a backoff or a Retry-After, both capped at MaxBackoff and
\* at least one millisecond; only its being positive and bounded is kept.
Finish(w, d) ==
  /\ job[w][d].pc = "answered"
  /\ \/ /\ NoFault
        /\ \E delay \in 1 .. MaxBackoff :
             FinishRow(d, job[w][d].token, job[w][d].outcome,
                       IF job[w][d].outcome = "retry" THEN delay ELSE 0)
     \/ Fault /\ UNCHANGED row
  /\ job' = [job EXCEPT ![w][d] = NoJob]
  /\ UNCHANGED <<active, lock, phase, posts, accepted, rejected>>

------------------------------------------------------------------------------
(* The environment. *)

\* A trusted operator revokes an endpoint; revocation is final.
Revoke(t) ==
  /\ t \in active
  /\ active' = active \ {t}
  /\ UNCHANGED <<row, lock, phase, job, posts, accepted, rejected, faults>>

\* The receiver takes a request that was sent; it may do so after the attempt was given up,
\* and its answer may be lost.
Receive(d) ==
  /\ posts[d] > 0
  /\ d \notin accepted
  /\ accepted' = accepted \cup {d}
  /\ UNCHANGED <<row, active, lock, phase, job, posts, rejected, faults>>

Down(n) == IF n > 0 THEN n - 1 ELSE 0

RowTick(r) ==
  [status |-> r.status, attempts |-> r.attempts, token |-> r.token,
   lease |-> Down(r.lease), wait |-> Down(r.wait)]

InAttempt(j) == j.pc \in {"begun", "posting"}

\* One tick passes.  A goroutine takes at most CommitDelay to start its attempt, and the
\* attempt's context ends it after RequestTimeout, so neither outlives its countdown.
Tick ==
  /\ \A w \in Worker, d \in Delivery : InAttempt(job[w][d]) => job[w][d].left > 0
  /\ row' = [d \in Delivery |-> RowTick(row[d])]
  /\ job' = [w \in Worker |-> [d \in Delivery |->
               Moved(job[w][d], job[w][d].pc, Down(job[w][d].left), job[w][d].outcome)]]
  /\ UNCHANGED <<active, lock, phase, posts, accepted, rejected, faults>>

WorkerStep(w) ==
  \/ Start(w) \/ LockCheck(w) \/ Exit(w)
  \/ CancelRevoked(w) \/ Claim(w) \/ EndCycle(w)

JobStep(w, d) ==
  \/ Dispatch(w, d) \/ Defer(w, d) \/ BeginAttempt(w, d) \/ PrepareFails(w, d)
  \/ SendRequest(w, d) \/ Respond(w, d) \/ Finish(w, d)

Next ==
  \/ \E w \in Worker : WorkerStep(w)
  \/ \E w \in Worker, d \in Delivery : JobStep(w, d)
  \/ LoseLock
  \/ \E d \in Delivery : Receive(d)
  \/ \E t \in Destination : Revoke(t)
  \/ Tick

Spec == Init /\ [][Next]_vars

\* Fairness of the code and of its deployment: the clock runs; a stopped worker is
\* restarted once the lock is free; the ticker polls the lock; the loop of Run goes on;
\* every goroutine runs to its end.  Strong fairness stands for what the code only gives
\* repeatedly: Claim orders due rows by next_attempt_at, the token bucket refills, and a
\* dispatched goroutine is not late for its lease every time.
Fairness ==
  /\ WF_vars(Tick)
  /\ WF_vars(\E w \in Worker : Start(w))
  /\ \A w \in Worker :
       /\ WF_vars(LockCheck(w))
       /\ WF_vars(CancelRevoked(w) /\ NoFault)
       /\ WF_vars(Claim(w) /\ NoFault)
       /\ WF_vars(EndCycle(w))
  /\ \A w \in Worker, d \in Delivery :
       /\ SF_vars(Claim(w) /\ NoFault /\ job'[w][d].pc = "claimed")
       /\ WF_vars(Dispatch(w, d) \/ (Defer(w, d) /\ NoFault))
       /\ SF_vars(Dispatch(w, d) /\ row[d].lease >= Required)
       /\ SF_vars(BeginAttempt(w, d) /\ NoFault /\ row'[d] # row[d])
       /\ WF_vars(BeginAttempt(w, d) /\ NoFault)
       /\ WF_vars(SendRequest(w, d))
       /\ WF_vars(Respond(w, d))
       /\ WF_vars(Finish(w, d) /\ NoFault)

LiveSpec == Spec /\ Fairness

------------------------------------------------------------------------------
(* Properties *)

\* A delivery has at most one attempt under way: the lease that BeginAttempt requires
\* outlives the request, so a second worker that claims the row after expiry, or after
\* the advisory lock was lost, never posts while the first request may still run
\* (worker.go deliver, repository.go BeginAttempt and Claim).
SingleFlight ==
  \A d \in Delivery, v, w \in Worker :
    InAttempt(job[v][d]) /\ InAttempt(job[w][d]) => v = w

\* Every request was paid for by a durable attempt, and an attempt that is begun and has
\* not posted yet is paid for too: crashes, lost commits and reclaims never buy a request
\* beyond MaxAttempts (BeginAttempt increments before the request).
AttemptBudget ==
  \A d \in Delivery :
    /\ posts[d] <= row[d].attempts
    /\ (\E w \in Worker : job[w][d].pc = "begun") => posts[d] < row[d].attempts

\* A delivery is given up only when its whole attempt budget is used or when some attempt
\* failed for good; the attempts counted from the claimed snapshot never give up early
\* (retryOutcome with delivery.Attempts+1, BeginAttempt's exhausted branch).
DeadLetterJustified ==
  \A d \in Delivery :
    row[d].status = "dead_letter" => row[d].attempts = MaxAttempts \/ d \in rejected

\* The parts of the inductive invariant.  A row has a token exactly while it is leased,
\* a job exactly while it is not idle, and no two jobs hold the same token.
TokenDiscipline ==
  /\ \A d \in Delivery : row[d].status = "leased" <=> row[d].token # NoToken
  /\ \A w \in Worker, d \in Delivery : job[w][d].pc = "idle" <=> job[w][d].token = NoToken
  /\ \A v, w \in Worker, d \in Delivery :
       job[v][d].token = job[w][d].token /\ job[v][d].pc # "idle" => v = w

\* An attempt under way is covered by its lease until after its last tick, unless the row
\* was cancelled underneath it.
LeaseCovers ==
  \A w \in Worker, d \in Delivery :
    InAttempt(job[w][d]) /\ row[d].status # "cancelled" =>
      /\ row[d].status = "leased"
      /\ row[d].token = job[w][d].token
      /\ row[d].lease > job[w][d].left + (IF job[w][d].pc = "begun" THEN RequestTimeout ELSE 0)

\* The attempts a job counts from its claim are the row's while the lease is its own, and
\* a job gives up only for one of the two reasons.
TriesAgree ==
  \A w \in Worker, d \in Delivery :
    /\ row[d].status = "leased" /\ row[d].token = job[w][d].token =>
         row[d].attempts = job[w][d].tries
           + (IF job[w][d].pc \in {"begun", "posting", "answered"} THEN 1 ELSE 0)
    /\ job[w][d].pc = "answered" <=> job[w][d].outcome # "none"
    /\ job[w][d].outcome = "dead_letter" => d \in rejected \/ job[w][d].tries + 1 >= MaxAttempts

\* The invariant that a step preserves: the safety invariants and what they rest on.
IndInv ==
  /\ TypeOK /\ TokenDiscipline /\ LeaseCovers /\ TriesAgree
  /\ SingleFlight /\ AttemptBudget /\ DeadLetterJustified

\* A worker whose lease is gone changes nothing when it ends its job: Finish, BeginAttempt
\* and deferDelivery of a stale token leave the row of the new owner alone.
StaleOwnerHarmless ==
  [][\A w \in Worker, d \in Delivery :
       /\ job[w][d].pc # "idle"
       /\ job[w][d].token # row[d].token
       /\ job'[w][d].pc = "idle"
       => row'[d] = row[d]]_vars

\* A delivered, dead-lettered or cancelled row keeps its status and attempts for ever: no late
\* Finish, requeue of an expired lease or claim reopens it.
TerminalIsFinal ==
  [][\A d \in Delivery : row[d].status \in Terminal =>
       row'[d].status = row[d].status /\ row'[d].attempts = row[d].attempts]_vars

\* The refinement mapping: a delivery is open until its row is terminal, and its attempts
\* are the grants.
Promise == INSTANCE AtLeastOnceDelivery WITH
  outcome <- [d \in Delivery |-> IF row[d].status \in Terminal THEN row[d].status ELSE "open"],
  granted <- [d \in Delivery |-> row[d].attempts],
  sent <- posts,
  received <- accepted,
  refused <- rejected,
  revoked <- {d \in Delivery : Dest[d] \notin active}

\* Leases, fencing and retries together implement the promise of module AtLeastOnceDelivery:
\* a request only on a granted attempt, one final outcome, each outcome for its reason
\* (worker.go deliver, repository.go BeginAttempt, Finish and CancelRevoked).
ImplementsPromise == Promise!ASpec

\* What the proof of ImplementsPromise adds to IndInv: jobs exist only while a cycle
\* drains, an attempt that began is counted, and delivered means the receiver accepted.
HistoryInv ==
  \A w \in Worker, d \in Delivery :
    /\ phase[w] # "drain" => job[w][d].pc = "idle"
    /\ job[w][d].pc \in {"begun", "posting", "answered"} => row[d].attempts > 0
    /\ job[w][d].outcome = "delivered" => d \in accepted

\* Every delivery is eventually delivered, dead-lettered or cancelled, whatever crashes,
\* lost leases, revocations and storage errors happen on the way.
EventuallySettled ==
  \A d \in Delivery : <>(row[d].status \in Terminal)
==============================================================================
