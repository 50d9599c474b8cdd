---------------------------- MODULE WebhookFanout ----------------------------
(***************************************************************************)
(* The fan-out half of the webhook worker's cycle: Counts and the          *)
(* high/low-water pause of cycle (server/webhook/worker.go), and           *)
(* Repository.Fanout (server/storage/webhook/repository.go), which turns   *)
(* outbox events into one pending delivery row per active endpoint.        *)
(*                                                                         *)
(* Fanout is one READ COMMITTED transaction of many statements: between    *)
(* them deliveries settle and endpoints are registered, rotated or         *)
(* revoked by others, so its statements are separate steps here.  Claiming *)
(* and delivering the rows is module WebhookDelivery; here a row is open   *)
(* until it settles.                                                       *)
(***************************************************************************)
EXTENDS Naturals, FiniteSets

CONSTANTS
  Worker,               \* overlapping workers (the advisory lock may have been lost)
  Event,                \* outbox events, as 1 .. n in (created_at, event_id) order
  Endpoint,             \* endpoints, as 1 .. n in destination_id order
  BatchSize,            \* Config.BatchSize: events of one page
  MaxEndpointsPerEvent, \* 64 in the code
  MaxDestinationQueue,  \* Config.MaxDestinationQueue
  HighWater,            \* Config.HighWater
  LowWater,             \* Config.LowWater
  MaxRevision,          \* bound: rotations of one endpoint
  MaxAborts             \* bound: transactions that fail

ASSUME FanoutAssumption ==
  /\ Event \subseteq Nat /\ IsFiniteSet(Event)
  /\ Endpoint \subseteq Nat /\ IsFiniteSet(Endpoint)
  /\ BatchSize \in Nat \ {0} /\ MaxEndpointsPerEvent \in Nat \ {0}
  /\ MaxDestinationQueue \in Nat \ {0} /\ HighWater \in Nat \ {0}
  /\ LowWater \in Nat /\ LowWater < HighWater
  /\ MaxRevision \in Nat \ {0} /\ MaxAborts \in Nat

VARIABLES
  created,     \* committed outbox events
  marked,      \* webhook_fanout_at is set
  quarantined, \* webhook_fanout_error is set
  row,         \* committed delivery rows: status and frozen revision by event and endpoint
  endpoint,    \* im_webhook_endpoints: status and active_revision (0 for NULL)
  phase,       \* each worker's place in cycle
  total,       \* what the worker's first Counts query returned
  paused,      \* Worker.paused
  txn,         \* each worker's Fanout transaction
  aborts       \* transactions that failed so far

vars == <<created, marked, quarantined, row, endpoint, phase, total, paused, txn, aborts>>

Revision == 1 .. MaxRevision

NoRow == [status |-> "none", revision |-> 0]

\* A transaction: the events still to look at, globalPending, and its uncommitted writes;
\* known is the set of endpoints that were active when it began.
NoTxn == [open |-> FALSE, page |-> {}, global |-> 0, known |-> {}, locked |-> {},
          rows |-> {}, marks |-> {}, errors |-> {}]

Active(p) == endpoint[p].status = "active"
ActiveEndpoints == {p \in Endpoint : Active(p)}
Open(e, p) == row[e, p].status = "open"

\* Rows in ('pending','retry','leased') that everybody sees.
OpenRows == {ep \in Event \X Endpoint : row[ep].status = "open"}
OpenAt(p) == {ep \in OpenRows : ep[2] = p}

TypeOK ==
  /\ created \subseteq Event /\ marked \subseteq created /\ quarantined \subseteq created
  /\ row \in [Event \X Endpoint -> [status : {"none", "open", "settled"}, revision : 0 .. MaxRevision]]
  /\ endpoint \in [Endpoint -> [status : {"absent", "active", "revoked"}, revision : 0 .. MaxRevision]]
  /\ phase \in [Worker -> {"total", "destination", "fanout", "deliver"}]
  /\ total \in [Worker -> Nat]
  /\ paused \in [Worker -> BOOLEAN]
  /\ \A w \in Worker :
       /\ txn[w].page \subseteq Event /\ txn[w].global \in Nat
       /\ txn[w].locked \subseteq Endpoint /\ txn[w].known \subseteq Endpoint
       /\ txn[w].rows \subseteq Event \X Endpoint \X Revision
       /\ txn[w].marks \subseteq Event /\ txn[w].errors \subseteq Event
  /\ aborts \in 0 .. MaxAborts

Init ==
  /\ created = {} /\ marked = {} /\ quarantined = {}
  /\ row = [ep \in Event \X Endpoint |-> NoRow]
  /\ endpoint = [p \in Endpoint |-> [status |-> "absent", revision |-> 0]]
  /\ phase = [w \in Worker |-> "total"]
  /\ total = [w \in Worker |-> 0]
  /\ paused = [w \in Worker |-> FALSE]
  /\ txn = [w \in Worker |-> NoTxn]
  /\ aborts = 0

------------------------------------------------------------------------------
(* cycle *)

\* The first query of Counts.
CountTotal(w) ==
  /\ phase[w] = "total"
  /\ total' = [total EXCEPT ![w] = Cardinality(OpenRows)]
  /\ phase' = [phase EXCEPT ![w] = "destination"]
  /\ UNCHANGED <<created, marked, quarantined, row, endpoint, paused, txn, aborts>>

\* Mutant: once paused, the worker waits for the high-water mark instead of the low one.
NextPausedSticky(was, all, largest) ==
  was \/ all >= HighWater \/ largest >= MaxDestinationQueue

\* The hysteresis of cycle: a paused worker resumes at the low-water mark only, and may
\* pause again at once.
NextPaused(was, all, largest) ==
  \/ was /\ (all > LowWater \/ largest > LowWater)
  \/ all >= HighWater \/ largest >= MaxDestinationQueue

\* The second query of Counts, and the decision to fan out.
CountDestination(w) ==
  /\ phase[w] = "destination"
  /\ \E largest \in 0 .. Cardinality(Event) :
       /\ \A p \in Endpoint : Cardinality(OpenAt(p)) <= largest
       /\ largest = 0 \/ \E p \in Endpoint : Cardinality(OpenAt(p)) = largest
       /\ paused' = [paused EXCEPT ![w] = NextPaused(@, total[w], largest)]
  /\ phase' = [phase EXCEPT ![w] = IF paused'[w] THEN "deliver" ELSE "fanout"]
  /\ UNCHANGED <<created, marked, quarantined, row, endpoint, total, txn, aborts>>

\* Claim, the deliveries of this cycle and the idle delay: module WebhookDelivery.
Deliver(w) ==
  /\ phase[w] = "deliver"
  /\ phase' = [phase EXCEPT ![w] = "total"]
  /\ UNCHANGED <<created, marked, quarantined, row, endpoint, total, paused, txn, aborts>>

------------------------------------------------------------------------------
(* Fanout *)

\* Mutant: the transaction does not take the fan-out lock.
FanoutUnlocked(w) == TRUE

\* pg_advisory_xact_lock: no other worker's Fanout is between its lock and its end.
FanoutLockFree(w) == \A v \in Worker \ {w} : ~txn[v].open

\* The first BatchSize unmarked, unquarantined events nobody has locked.
Page ==
  LET free == {e \in created \ (marked \cup quarantined) :
                 \A v \in Worker : e \notin txn[v].page \cup txn[v].marks \cup txn[v].errors}
  IN  {e \in free : Cardinality({f \in free : f < e}) < BatchSize}

\* The lock, the global count and the page.
FanBegin(w) ==
  /\ phase[w] = "fanout" /\ ~txn[w].open
  /\ FanoutLockFree(w)
  /\ txn' = [txn EXCEPT ![w] = [NoTxn EXCEPT !.open = TRUE, !.page = Page, !.known = ActiveEndpoints,
                                             !.global = Cardinality(OpenRows)]]
  /\ UNCHANGED <<created, marked, quarantined, row, endpoint, phase, total, paused, aborts>>

\* The rows of one endpoint that the transaction counts: committed ones and its own.
Pending(w, p) == Cardinality(OpenAt(p)) + Cardinality({ep \in txn[w].rows : ep[2] = p})

RoomAt(w, p) == Pending(w, p) < MaxDestinationQueue

TooWide(refs) == Cardinality(refs) > MaxEndpointsPerEvent

\* The active endpoints the loop reads: one more than the limit is enough to see it passed.
Refs == {p \in ActiveEndpoints : Cardinality({q \in ActiveEndpoints : q < p}) <= MaxEndpointsPerEvent}

\* Mutant: the endpoints are read without FOR UPDATE.
LockRefsNot(w, refs) == txn[w].locked

LockRefs(w, refs) == txn[w].locked \cup refs

\* Mutant: an event that is skipped is marked all the same.
SkipMarked(w, e, refs) ==
  [txn[w] EXCEPT !.page = @ \ {e}, !.locked = LockRefs(w, refs), !.marks = @ \cup {e}]

SkipEvent(w, e, refs) ==
  [txn[w] EXCEPT !.page = @ \ {e}, !.locked = LockRefs(w, refs)]

Quarantine(w, e, refs) ==
  [txn[w] EXCEPT !.page = @ \ {e}, !.locked = LockRefs(w, refs), !.errors = @ \cup {e}]

\* The inserted rows freeze the revision that was read.
Admit(w, e, refs) ==
  [txn[w] EXCEPT !.page = @ \ {e}, !.locked = LockRefs(w, refs), !.marks = @ \cup {e},
                 !.rows = @ \cup {<<e, p, endpoint[p].revision>> : p \in refs},
                 !.global = @ + Cardinality(refs)]

\* The endpoints at which the loop would break, and the first one in destination order.
Blocking(w, refs) == {p \in refs : endpoint[p].revision = 0 \/ ~RoomAt(w, p)}
FirstBlocking(w, refs) == CHOOSE p \in Blocking(w, refs) : \A q \in Blocking(w, refs) : p <= q

\* What the loop does with event e.
FanEventTxn(w, e, refs) ==
  IF \/ TooWide(refs)
     \/ Blocking(w, refs) # {} /\ endpoint[FirstBlocking(w, refs)].revision = 0
  THEN Quarantine(w, e, refs)
  ELSE IF Blocking(w, refs) # {} \/ txn[w].global >= HighWater
  THEN SkipEvent(w, e, refs)
  ELSE Admit(w, e, refs)

\* One iteration of the loop over the page; SELECT ... FOR UPDATE waits for other lockers.
FanEvent(w) ==
  /\ txn[w].open
  /\ \A v \in Worker \ {w} : txn[v].locked \cap Refs = {}
  /\ \E e \in txn[w].page :
       /\ \A f \in txn[w].page : e <= f
       /\ txn' = [txn EXCEPT ![w] = FanEventTxn(w, e, Refs)]
  /\ UNCHANGED <<created, marked, quarantined, row, endpoint, phase, total, paused, aborts>>

\* The commit makes rows and marks visible together; ON CONFLICT keeps an existing row.
FanCommit(w) ==
  /\ txn[w].open /\ txn[w].page = {}
  /\ marked' = marked \cup txn[w].marks
  /\ quarantined' = quarantined \cup txn[w].errors
  /\ row' = [ep \in Event \X Endpoint |->
               IF row[ep] = NoRow /\ \E r \in Revision : <<ep[1], ep[2], r>> \in txn[w].rows
               THEN [status |-> "open",
                     revision |-> CHOOSE r \in Revision : <<ep[1], ep[2], r>> \in txn[w].rows]
               ELSE row[ep]]
  /\ txn' = [txn EXCEPT ![w] = NoTxn]
  /\ phase' = [phase EXCEPT ![w] = "deliver"]
  /\ UNCHANGED <<created, endpoint, total, paused, aborts>>

\* A statement fails or the process dies: everything rolls back and the cycle goes on.
FanAbort(w) ==
  /\ txn[w].open
  /\ aborts < MaxAborts
  /\ aborts' = aborts + 1
  /\ txn' = [txn EXCEPT ![w] = NoTxn]
  /\ phase' = [phase EXCEPT ![w] = "deliver"]
  /\ UNCHANGED <<created, marked, quarantined, row, endpoint, total, paused>>

------------------------------------------------------------------------------
(* Everybody else. *)

\* persist_message commits an outbox event; created_at order is not commit order.
Publish(e) ==
  /\ e \notin created
  /\ created' = created \cup {e}
  /\ UNCHANGED <<marked, quarantined, row, endpoint, phase, total, paused, txn, aborts>>

Unlocked(p) == \A w \in Worker : p \notin txn[w].locked

SetEndpoint(p, status, revision) ==
  /\ endpoint' = [endpoint EXCEPT ![p] = [status |-> status, revision |-> revision]]
  /\ UNCHANGED <<created, marked, quarantined, row, phase, total, paused, txn, aborts>>

\* A trusted operator registers an endpoint, with or without its first revision,
Register(p) ==
  /\ endpoint[p].status = "absent"
  /\ \E r \in {0, 1} : SetEndpoint(p, "active", r)

\* appends a revision and moves active_revision to it,
Rotate(p) ==
  /\ Active(p) /\ Unlocked(p) /\ endpoint[p].revision < MaxRevision
  /\ SetEndpoint(p, "active", endpoint[p].revision + 1)

\* or revokes the endpoint.
Revoke(p) ==
  /\ Active(p) /\ Unlocked(p)
  /\ SetEndpoint(p, "revoked", endpoint[p].revision)

\* A delivery is delivered, dead-lettered or cancelled.
Settle(ep) ==
  /\ row[ep].status = "open"
  /\ row' = [row EXCEPT ![ep].status = "settled"]
  /\ UNCHANGED <<created, marked, quarantined, endpoint, phase, total, paused, txn, aborts>>

WorkerNext(w) ==
  \/ CountTotal(w) \/ CountDestination(w) \/ Deliver(w)
  \/ FanBegin(w) \/ FanEvent(w) \/ FanCommit(w) \/ FanAbort(w)

Next ==
  \/ \E w \in Worker : WorkerNext(w)
  \/ \E e \in Event : Publish(e)
  \/ \E p \in Endpoint : Register(p) \/ Rotate(p) \/ Revoke(p)
  \/ \E ep \in Event \X Endpoint : Settle(ep)

Spec == Init /\ [][Next]_vars

\* Workers keep cycling, and rows settle (EventuallySettled of WebhookDelivery).
Fairness ==
  /\ \A w \in Worker :
       WF_vars(CountTotal(w) \/ CountDestination(w) \/ Deliver(w)
                 \/ FanEvent(w) \/ FanCommit(w))
  /\ \A w \in Worker : SF_vars(FanBegin(w))
  /\ \A ep \in Event \X Endpoint : WF_vars(Settle(ep))

LiveSpec == Spec /\ Fairness

------------------------------------------------------------------------------
(* Properties *)

\* The queues stay bounded although the limits are checked against counts other
\* transactions may have outdated: no destination has more than MaxDestinationQueue open
\* rows, and all together pass the high-water mark by less than one event's fan-out.
QueueBounds ==
  /\ \A p \in Endpoint : Cardinality(OpenAt(p)) <= MaxDestinationQueue
  /\ Cardinality(OpenRows) <= HighWater - 1 + MaxEndpointsPerEvent

\* An event is fanned out as a whole or not at all: rows exist only for marked events, and a
\* quarantined event is never fanned out (one commit for the rows and webhook_fanout_at).
WholeEvents ==
  /\ \A e \in Event : (\E p \in Endpoint : row[e, p] # NoRow) => e \in marked
  /\ marked \cap quarantined = {}

\* The state of the queue: bounded queues and whole events.
FanoutInv == TypeOK /\ QueueBounds /\ WholeEvents

\* When an event is marked, every endpoint that was active before the transaction began and
\* still is has a row for it: nobody is skipped by a race with rotation or registration.
NobodySkipped ==
  [][\A w \in Worker, e \in Event :
       e \in marked' \ marked /\ e \in txn[w].marks =>
         \A p \in txn[w].known : Active(p) => row'[e, p] # NoRow]_vars

\* A row that appears is for an endpoint that is active at that moment, with the revision that
\* is current at that moment: FOR UPDATE keeps revocation and rotation out until the commit.
FrozenFromCurrent ==
  [][\A e \in Event, p \in Endpoint :
       row[e, p] = NoRow /\ row'[e, p] # NoRow =>
         Active(p) /\ row'[e, p].revision = endpoint[p].revision]_vars

\* Every event is eventually fanned out or quarantined: pauses, full queues and aborted
\* transactions only delay it.
EventuallyFannedOut ==
  \A e \in Event : e \in created ~> e \in marked \cup quarantined
==============================================================================
