------------------------- MODULE WebhookFanoutProofs -------------------------
(***************************************************************************)
(* Fan-out keeps its queues bounded and skips nobody: proofs of the        *)
(* invariant and of the action properties of WebhookFanout.                *)
(*                                                                         *)
(* The invariant says what the one open Fanout transaction knows: what it  *)
(* read of the endpoints it locked is still true, and its counts bound the *)
(* rows that everybody sees together with its own.                         *)
(***************************************************************************)
EXTENDS WebhookFanout, FiniteSetTheorems, TLAPS

Txn == [open : BOOLEAN, page : SUBSET Event, global : Nat, known : SUBSET Endpoint,
        locked : SUBSET Endpoint, rows : SUBSET (Event \X Endpoint \X Revision),
        marks : SUBSET Event, errors : SUBSET Event]

\* The fan-out lock: one transaction at a time, and nothing is left of one that ended.
OneOpen ==
  /\ txn \in [Worker -> Txn]
  /\ \A v, w \in Worker : txn[v].open /\ txn[w].open => v = w
  /\ \A w \in Worker : ~txn[w].open => txn[w] = NoTxn

\* The events of transaction t: each is still to do, and treated once.
EventsFresh(t) ==
  /\ t.page \cup t.marks \cup t.errors \subseteq created \ (marked \cup quarantined)
  /\ t.page \cap (t.marks \cup t.errors) = {} /\ t.marks \cap t.errors = {}

\* What t read of an endpoint it locked is still so.
ReadsHold(t) ==
  /\ \A p \in t.locked : Active(p)
  /\ \A x \in t.rows : x[1] \in t.marks /\ x[2] \in t.locked /\ x[3] = endpoint[x[2]].revision

\* Every event that t marks has a row for each endpoint that has been active all along.
Covered(t) ==
  \A p \in t.known :
    /\ endpoint[p].status # "absent"
    /\ Active(p) => \A e \in t.marks : <<e, p, endpoint[p].revision>> \in t.rows

RowsAt(t, p) == {x \in t.rows : x[2] = p}

\* The counts of t bound the rows that are open with the rows it will add.
CountsHold(t) ==
  /\ IsFiniteSet(t.rows)
  /\ t.global <= HighWater - 1 + MaxEndpointsPerEvent
  /\ Cardinality(OpenRows) + Cardinality(t.rows) <= t.global
  /\ \A p \in Endpoint : Cardinality(OpenAt(p)) + Cardinality(RowsAt(t, p)) <= MaxDestinationQueue

TxnHolds(t) == EventsFresh(t) /\ ReadsHold(t) /\ Covered(t) /\ CountsHold(t)

IndInv ==
  /\ FanoutInv /\ OneOpen
  /\ \A w \in Worker : txn[w].open => TxnHolds(txn[w])

------------------------------------------------------------------------------
(* Counting *)

\* A set of numbers has a least one.
LEMMA Least == ASSUME NEW T \in SUBSET Nat, T # {} PROVE \E x \in T : \A y \in T : x <= y
<1> DEFINE R == {ss \in Nat \X Nat : ss[1] < ss[2]}
<1>1. IsWellFoundedOn(R, Nat)
  BY NatLessThanWellFounded DEF OpToRel
<1> HIDE DEF R
<1>2. PICK x \in T : \A y \in T : ~(<<y, x>> \in R)
  BY <1>1, WFMin, Zenon
<1>3. ASSUME NEW y \in T PROVE x <= y
  <2>1. x \in Nat /\ y \in Nat /\ ~(<<y, x>> \in R)
    BY <1>2
  <2> QED
    BY <2>1 DEF R
<1> QED
  BY <1>3

\* A set that is the image of a finite set has no more elements.
LEMMA ImageSize ==
  ASSUME NEW S, IsFiniteSet(S), NEW T, NEW f \in [S -> T], \A y \in T : \E x \in S : f[x] = y
  PROVE  IsFiniteSet(T) /\ Cardinality(T) <= Cardinality(S)
<1>1. f \in Surjection(S, T)
  BY DEF Surjection
<1> QED
  BY <1>1, FS_Surjection, Zenon

\* A union has at most as many elements as its two parts together.
LEMMA UnionSize ==
  ASSUME NEW S, IsFiniteSet(S), NEW T, IsFiniteSet(T)
  PROVE  IsFiniteSet(S \cup T) /\ Cardinality(S \cup T) <= Cardinality(S) + Cardinality(T)
<1>1. IsFiniteSet(S \cup T) /\ Cardinality(S \cup T) = Cardinality(S) + Cardinality(T) - Cardinality(S \cap T)
  BY FS_Union, Zenon
<1>2. IsFiniteSet(S \cap T)
  BY FS_Intersection, Zenon
<1>3. Cardinality(S) \in Nat /\ Cardinality(T) \in Nat /\ Cardinality(S \cap T) \in Nat
  BY <1>2, FS_CardinalityType
<1> QED
  BY <1>1, <1>3

\* The sets that are counted are finite.
LEMMA Finite ==
  /\ IsFiniteSet(OpenRows) /\ Cardinality(OpenRows) \in Nat
  /\ \A p \in Endpoint : IsFiniteSet(OpenAt(p)) /\ Cardinality(OpenAt(p)) \in Nat
  /\ IsFiniteSet(ActiveEndpoints) /\ IsFiniteSet(Refs) /\ Cardinality(Refs) \in Nat
<1>1. IsFiniteSet(Event \X Endpoint)
  BY FanoutAssumption, FS_Product, Zenon
<1>2. OpenRows \in SUBSET (Event \X Endpoint) /\ \A p \in Endpoint : OpenAt(p) \in SUBSET (Event \X Endpoint)
  BY Zenon DEF OpenRows, OpenAt
<1>3. ActiveEndpoints \in SUBSET Endpoint /\ Refs \in SUBSET Endpoint
  BY Zenon DEF ActiveEndpoints, Refs
<1>4. /\ IsFiniteSet(OpenRows) /\ \A p \in Endpoint : IsFiniteSet(OpenAt(p))
      /\ IsFiniteSet(ActiveEndpoints) /\ IsFiniteSet(Refs)
  BY <1>1, <1>2, <1>3, FanoutAssumption, FS_Subset, Zenon
<1> QED
  BY <1>4, FS_CardinalityType

\* One endpoint more than the limit is enough to see it passed: unless there are too many, the
\* loop has read all active endpoints.
LEMMA RefsAreAll == ASSUME ~TooWide(Refs) PROVE Refs = ActiveEndpoints
<1> DEFINE Out == ActiveEndpoints \ Refs
           Before(p) == {q \in ActiveEndpoints : q < p}
<1>1. Refs \subseteq ActiveEndpoints
  BY DEF Refs
<1> SUFFICES ASSUME Out # {} PROVE FALSE
  BY <1>1
<1>2. Out \in SUBSET Nat
  BY FanoutAssumption, Zenon DEF ActiveEndpoints
<1>3. PICK p \in Out : \A q \in Out : p <= q
  BY <1>2, Least, Zenon
<1>4. ~(Cardinality(Before(p)) <= MaxEndpointsPerEvent)
  BY <1>3 DEF Refs
<1>5. Before(p) \subseteq Refs
  BY <1>2, <1>3, FanoutAssumption DEF ActiveEndpoints
<1>6. Before(p) \in SUBSET ActiveEndpoints
  OBVIOUS
<1> HIDE DEF Before
<1>7. IsFiniteSet(Refs) /\ Cardinality(Refs) \in Nat /\ IsFiniteSet(Before(p))
  BY <1>6, Finite, FS_Subset
<1>8. Cardinality(Before(p)) <= Cardinality(Refs) /\ Cardinality(Before(p)) \in Nat
  BY <1>5, <1>7, FS_Subset, FS_CardinalityType
<1> QED
  BY <1>4, <1>7, <1>8, FanoutAssumption DEF TooWide

------------------------------------------------------------------------------
(* Steps of everybody else *)

\* The types that the steps below need.
LEMMA Types ==
  ASSUME IndInv
  PROVE  /\ TypeOK /\ txn \in [Worker -> Txn]
         /\ \A w \in Worker : txn[w].open => TxnHolds(txn[w])
         /\ \A w \in Worker : /\ txn[w].page \subseteq Event /\ txn[w].global \in Nat
                              /\ txn[w].known \subseteq Endpoint /\ txn[w].locked \subseteq Endpoint
                              /\ txn[w].rows \subseteq Event \X Endpoint \X Revision
                              /\ txn[w].marks \subseteq Event /\ txn[w].errors \subseteq Event
<1>1. TypeOK /\ txn \in [Worker -> Txn] /\ \A w \in Worker : txn[w].open => TxnHolds(txn[w])
  BY Zenon DEF IndInv, FanoutInv, OneOpen
<1> QED
  BY <1>1 DEF TypeOK

\* What nobody counts may change: everything but the rows and the endpoints, if no event of the
\* transaction is marked or quarantined by another.
LEMMA HoldsStill ==
  ASSUME NEW t, TxnHolds(t), UNCHANGED <<marked, quarantined, row, endpoint>>, created \subseteq created'
  PROVE  TxnHolds(t)'
<1>1. EventsFresh(t)'
  BY DEF TxnHolds, EventsFresh
<1>2. ReadsHold(t)' /\ Covered(t)'
  BY DEF TxnHolds, ReadsHold, Covered, Active
<1>3. CountsHold(t)'
  BY Zenon DEF TxnHolds, CountsHold, OpenRows, OpenAt, RowsAt
<1> QED
  BY <1>1, <1>2, <1>3, Zenon DEF TxnHolds

\* An operator changes an endpoint that no transaction has locked.
LEMMA EndpointHolds ==
  ASSUME IndInv, NEW p \in Endpoint, Register(p) \/ Rotate(p) \/ Revoke(p), NEW w \in Worker, txn[w].open
  PROVE  TxnHolds(txn[w])'
<1> DEFINE t == txn[w]
<1>0. /\ TxnHolds(t) /\ txn' = txn
      /\ UNCHANGED <<created, marked, quarantined, row>>
      /\ \A q \in Endpoint : q # p => endpoint'[q] = endpoint[q]
      /\ endpoint'[p].status \in {"active", "revoked"}
      /\ t.locked \subseteq Endpoint /\ t.known \subseteq Endpoint
      /\ t.rows \subseteq Event \X Endpoint \X Revision
      /\ endpoint[p].status = "absent" \/ p \notin t.locked
      /\ endpoint[p].status = "absent" \/ Active(p)
  BY Types DEF Register, Rotate, Revoke, SetEndpoint, Unlocked, TypeOK
<1> HIDE DEF t
<1>1. p \notin t.locked
  BY <1>0 DEF TxnHolds, ReadsHold, Active
<1>2. \A q \in t.locked : q # p /\ q \in Endpoint /\ endpoint'[q] = endpoint[q]
  BY <1>0, <1>1
<1>3. ReadsHold(t)'
  <2>1. t' = t
    BY <1>0 DEF t
  <2> QED
    BY <1>0, <1>2, <2>1 DEF TxnHolds, ReadsHold, Active
<1>4. Covered(t)'
  <2>1. t' = t
    BY <1>0 DEF t
  <2> SUFFICES ASSUME NEW q \in t.known
               PROVE  /\ endpoint'[q].status # "absent"
                      /\ Active(q)' => \A e \in t.marks : <<e, q, endpoint'[q].revision>> \in t.rows
    BY <2>1 DEF Covered
  <2>2. CASE q # p
    BY <1>0, <2>2 DEF TxnHolds, Covered, Active
  <2>3. CASE q = p
    <3>1. endpoint'[q].status # "absent" /\ Active(p)
      BY <1>0, <2>3 DEF TxnHolds, Covered
    <3>2. ASSUME NEW e \in t.marks PROVE FALSE
      <4>1. <<e, p, endpoint[p].revision>> \in t.rows
        BY <1>0, <2>3, <3>1, <3>2 DEF TxnHolds, Covered
      <4>2. \A x \in t.rows : x[2] \in t.locked
        BY <1>0 DEF TxnHolds, ReadsHold
      <4> QED
        BY <1>1, <4>1, <4>2
    <3> QED
      BY <3>1, <3>2
  <2> QED
    BY <2>2, <2>3
<1>5. EventsFresh(t)' /\ CountsHold(t)'
  <2>1. t' = t
    BY <1>0 DEF t
  <2> QED
    BY <1>0, <2>1, Zenon DEF TxnHolds, EventsFresh, CountsHold, OpenRows, OpenAt, RowsAt
<1> QED
  BY <1>3, <1>4, <1>5, Zenon DEF TxnHolds, t

\* A delivery settles: fewer rows are open.
LEMMA SettleHolds ==
  ASSUME IndInv, NEW ep \in Event \X Endpoint, Settle(ep)
  PROVE  /\ row' \in [Event \X Endpoint -> [status : {"none", "open", "settled"}, revision : 0 .. MaxRevision]]
         /\ QueueBounds' /\ WholeEvents'
         /\ \A w \in Worker : txn[w].open => TxnHolds(txn[w])'
<1>0. /\ row \in [Event \X Endpoint -> [status : {"none", "open", "settled"}, revision : 0 .. MaxRevision]]
      /\ QueueBounds /\ WholeEvents /\ \A w \in Worker : txn[w].open => TxnHolds(txn[w])
  BY Types, Zenon DEF IndInv, FanoutInv, TypeOK
<1>1. /\ row[ep].status = "open" /\ row' = [row EXCEPT ![ep].status = "settled"]
      /\ UNCHANGED <<created, marked, quarantined, endpoint, txn>>
  BY DEF Settle
<1>2. /\ row' \in [Event \X Endpoint -> [status : {"none", "open", "settled"}, revision : 0 .. MaxRevision]]
      /\ \A x \in Event \X Endpoint : row'[x] = row[x] \/ (x = ep /\ row'[x].status = "settled")
  BY <1>0, <1>1
<1>3. OpenRows' \subseteq OpenRows /\ \A p \in Endpoint : OpenAt(p)' \subseteq OpenAt(p)
  BY <1>2 DEF OpenRows, OpenAt
<1>4. /\ Cardinality(OpenRows') <= Cardinality(OpenRows) /\ Cardinality(OpenRows') \in Nat
      /\ \A p \in Endpoint : Cardinality(OpenAt(p)') <= Cardinality(OpenAt(p)) /\ Cardinality(OpenAt(p)') \in Nat
  BY <1>3, Finite, FS_Subset, FS_CardinalityType
<1>5. QueueBounds'
  BY <1>0, <1>4, Finite, FanoutAssumption DEF QueueBounds
<1>6. WholeEvents'
  <2>1. \A x \in Event \X Endpoint : row'[x] # NoRow => row[x] # NoRow
    BY <1>1, <1>2 DEF NoRow
  <2> QED
    BY <1>0, <1>1, <2>1 DEF WholeEvents
<1>7. ASSUME NEW w \in Worker, txn[w].open PROVE TxnHolds(txn[w])'
  <2>1. TxnHolds(txn[w]) /\ txn'[w] = txn[w] /\ txn[w].global \in Nat
    BY <1>0, <1>1, <1>7, Types
  <2>2. EventsFresh(txn[w])' /\ ReadsHold(txn[w])' /\ Covered(txn[w])'
    BY <1>1, <2>1 DEF TxnHolds, EventsFresh, ReadsHold, Covered, Active
  <2>3. \A p \in Endpoint : IsFiniteSet(RowsAt(txn[w], p)) /\ Cardinality(RowsAt(txn[w], p)) \in Nat
    <3>1. \A p \in Endpoint : RowsAt(txn[w], p) \in SUBSET txn[w].rows
      BY Zenon DEF RowsAt
    <3> QED
      BY <2>1, <3>1, FS_Subset, FS_CardinalityType DEF TxnHolds, CountsHold
  <2>4. Cardinality(txn[w].rows) \in Nat
    BY <2>1, FS_CardinalityType DEF TxnHolds, CountsHold
  <2>5. CountsHold(txn[w])'
    <3>1. Cardinality(OpenRows') + Cardinality(txn[w].rows) <= txn[w].global
      BY <1>4, <2>1, <2>4, Finite DEF TxnHolds, CountsHold
    <3>2. \A p \in Endpoint : Cardinality(OpenAt(p)') + Cardinality(RowsAt(txn[w], p)) <= MaxDestinationQueue
      BY <1>4, <2>1, <2>3, Finite, FanoutAssumption DEF TxnHolds, CountsHold
    <3> QED
      BY <2>1, <3>1, <3>2, Zenon DEF TxnHolds, CountsHold, RowsAt
  <2> QED
    BY <2>2, <2>5, Zenon DEF TxnHolds
<1> QED
  BY <1>2, <1>5, <1>6, <1>7

------------------------------------------------------------------------------
(* The transaction *)

\* The transaction of w becomes t: the fan-out lock keeps all others out.
LEMMA TxnStep ==
  ASSUME IndInv, NEW w \in Worker, NEW t \in Txn, txn' = [txn EXCEPT ![w] = t],
         t = NoTxn \/ t.open, txn[w].open \/ FanoutLockFree(w)
  PROVE  /\ OneOpen'
         /\ txn'[w] = t
         /\ \A v \in Worker : txn'[v].open => v = w /\ t.open
<1>0. /\ txn \in [Worker -> Txn]
      /\ \A v, u \in Worker : txn[v].open /\ txn[u].open => v = u
      /\ \A v \in Worker : ~txn[v].open => txn[v] = NoTxn
  BY DEF IndInv, OneOpen
<1>1. txn' \in [Worker -> Txn] /\ txn'[w] = t /\ \A v \in Worker : v # w => txn'[v] = txn[v]
  BY <1>0
<1>2. \A v \in Worker : v # w => ~txn[v].open
  BY <1>0 DEF FanoutLockFree
<1>3. t = NoTxn => ~t.open
  BY DEF NoTxn
<1>4. OneOpen'
  BY <1>0, <1>1, <1>2, <1>3, Zenon DEF OneOpen
<1> QED
  BY <1>1, <1>2, <1>4, Zenon

\* An empty transaction has nothing to count.
LEMMA NothingYet ==
  ASSUME IndInv, NEW t, t.rows = {}, t.global = Cardinality(OpenRows)
  PROVE  CountsHold(t)
<1>1. \A p \in Endpoint : RowsAt(t, p) = {}
  BY DEF RowsAt
<1>2. IsFiniteSet(t.rows) /\ Cardinality(t.rows) = 0 /\ \A p \in Endpoint : Cardinality(RowsAt(t, p)) = 0
  BY <1>1, FS_EmptySet
<1>3. QueueBounds
  BY DEF IndInv, FanoutInv
<1> QED
  BY <1>2, <1>3, Finite DEF CountsHold, QueueBounds

\* Fanout begins: it has read the counts under the lock, and has nothing else.
LEMMA BeginHolds ==
  ASSUME IndInv, NEW w \in Worker, FanBegin(w)
  PROVE  OneOpen' /\ \A v \in Worker : txn'[v].open => TxnHolds(txn[v])'
<1> DEFINE t == [NoTxn EXCEPT !.open = TRUE, !.page = Page, !.known = ActiveEndpoints,
                              !.global = Cardinality(OpenRows)]
<1>1. /\ txn' = [txn EXCEPT ![w] = t] /\ FanoutLockFree(w)
      /\ UNCHANGED <<created, marked, quarantined, row, endpoint>>
  BY DEF FanBegin
<1>2. created \subseteq Event /\ Page \subseteq created \ (marked \cup quarantined)
  BY Types DEF TypeOK, Page
<1>3. /\ t.open = TRUE /\ t.page = Page /\ t.known = ActiveEndpoints /\ t.global = Cardinality(OpenRows)
      /\ t.locked = {} /\ t.rows = {} /\ t.marks = {} /\ t.errors = {}
  BY DEF NoTxn
<1>4. Page \in SUBSET Event /\ ActiveEndpoints \in SUBSET Endpoint /\ Cardinality(OpenRows) \in Nat
  BY <1>2, Finite DEF ActiveEndpoints
<1>5. t \in Txn
  BY <1>4, Zenon DEF NoTxn, Txn
<1> HIDE DEF t
<1>6. /\ OneOpen' /\ txn'[w] = t /\ \A v \in Worker : txn'[v].open => v = w
  BY <1>1, <1>3, <1>5, TxnStep, Zenon
<1>7. TxnHolds(t)
  <2>1. EventsFresh(t)
    BY <1>2, <1>3 DEF EventsFresh
  <2>2. ReadsHold(t) /\ Covered(t)
    BY <1>3 DEF ReadsHold, Covered, ActiveEndpoints, Active
  <2>3. CountsHold(t)
    BY <1>3, NothingYet
  <2> QED
    BY <2>1, <2>2, <2>3 DEF TxnHolds
<1>8. TxnHolds(txn[w])'
  <2> DEFINE u == txn'[w]
  <2>1. u = t
    BY <1>6
  <2> QED
    BY <1>1, <1>6, <1>7, HoldsStill
<1> QED
  BY <1>6, <1>8

\* The transaction ends.
LEMMA EndHolds ==
  ASSUME IndInv, NEW w \in Worker, txn[w].open, txn' = [txn EXCEPT ![w] = NoTxn]
  PROVE  OneOpen' /\ \A v \in Worker : ~txn'[v].open
<1>1. NoTxn \in Txn /\ ~NoTxn.open
  BY DEF NoTxn, Txn
<1> QED
  BY <1>1, TxnStep, Zenon

\* A transaction that fails leaves nothing.
LEMMA AbortHolds ==
  ASSUME IndInv, NEW w \in Worker, FanAbort(w)
  PROVE  OneOpen' /\ \A v \in Worker : ~txn'[v].open
  BY EndHolds, Zenon DEF FanAbort

\* The rows that the transaction inserts for event e.
NewRows(e) == {<<e, p, endpoint[p].revision>> : p \in Refs}

\* What the loop makes of the transaction, field by field.
LEMMA EventCases ==
  ASSUME IndInv, NEW w \in Worker, NEW e \in Event, NEW u, u = FanEventTxn(w, e, Refs)
  PROVE  /\ u.open = txn[w].open /\ u.known = txn[w].known
         /\ u.page = txn[w].page \ {e} /\ u.locked = txn[w].locked \cup Refs
         /\ \/ /\ u.rows = txn[w].rows /\ u.global = txn[w].global /\ u.marks = txn[w].marks
               /\ u.errors = txn[w].errors \/ u.errors = txn[w].errors \cup {e}
            \/ /\ ~TooWide(Refs) /\ Blocking(w, Refs) = {} /\ ~(txn[w].global >= HighWater)
               /\ u.rows = txn[w].rows \cup NewRows(e) /\ u.global = txn[w].global + Cardinality(Refs)
               /\ u.marks = txn[w].marks \cup {e} /\ u.errors = txn[w].errors
<1>0. txn[w] \in Txn
  BY Types
<1>1. \/ u = Quarantine(w, e, Refs) \/ u = SkipEvent(w, e, Refs)
      \/ /\ ~TooWide(Refs) /\ Blocking(w, Refs) = {} /\ ~(txn[w].global >= HighWater)
         /\ u = Admit(w, e, Refs)
  BY Zenon DEF FanEventTxn
<1>2. CASE u = Quarantine(w, e, Refs)
  BY <1>0, <1>2 DEF Quarantine, LockRefs, Txn
<1>3. CASE u = SkipEvent(w, e, Refs)
  BY <1>0, <1>3 DEF SkipEvent, LockRefs, Txn
<1>4. CASE /\ ~TooWide(Refs) /\ Blocking(w, Refs) = {} /\ ~(txn[w].global >= HighWater)
           /\ u = Admit(w, e, Refs)
  <2> DEFINE N == NewRows(e)
  <2>1. u = [txn[w] EXCEPT !.page = @ \ {e}, !.locked = LockRefs(w, Refs), !.marks = @ \cup {e},
                           !.rows = @ \cup N, !.global = @ + Cardinality(Refs)]
    BY <1>4 DEF Admit, NewRows
  <2> HIDE DEF N
  <2>2. /\ u.open = txn[w].open /\ u.known = txn[w].known
        /\ u.page = txn[w].page \ {e} /\ u.locked = txn[w].locked \cup Refs
        /\ u.rows = txn[w].rows \cup N /\ u.global = txn[w].global + Cardinality(Refs)
        /\ u.marks = txn[w].marks \cup {e} /\ u.errors = txn[w].errors
    BY <1>0, <2>1 DEF LockRefs, Txn
  <2> QED
    BY <1>4, <2>2 DEF N
<1> QED
  BY <1>1, <1>2, <1>3, <1>4

\* An event is admitted only when every endpoint has a revision and room.
LEMMA AdmittedTo ==
  ASSUME IndInv, NEW w \in Worker, NEW e \in Event, Blocking(w, Refs) = {}
  PROVE  /\ NewRows(e) \subseteq Event \X Endpoint \X Revision
         /\ \A p \in Refs : Cardinality(OpenAt(p)) + Cardinality(RowsAt(txn[w], p)) < MaxDestinationQueue
<1>1. \A p \in Refs : p \in Endpoint /\ endpoint[p].revision # 0 /\ RoomAt(w, p)
  BY DEF Blocking, Refs, ActiveEndpoints
<1>2. \A p \in Endpoint : endpoint[p].revision \in 0 .. MaxRevision
  BY Types DEF TypeOK
<1>3. ASSUME NEW p \in Refs PROVE endpoint[p].revision \in Revision
  <2> DEFINE r == endpoint[p].revision
  <2>1. r # 0 /\ r \in 0 .. MaxRevision
    BY <1>1, <1>2, Zenon
  <2> HIDE DEF r
  <2>2. r \in Revision
    BY <2>1, FanoutAssumption DEF Revision
  <2> QED
    BY <2>2 DEF r
<1>4. NewRows(e) \subseteq Event \X Endpoint \X Revision
  BY <1>1, <1>3 DEF NewRows
<1>5. \A p \in Refs : Cardinality(OpenAt(p)) + Cardinality(RowsAt(txn[w], p)) < MaxDestinationQueue
  BY <1>1, Zenon DEF RoomAt, Pending, RowsAt
<1> QED
  BY <1>4, <1>5

\* Writing a field of a transaction.
LEMMA Edited ==
  ASSUME NEW t \in Txn, NEW E \in SUBSET Event, NEW P \in SUBSET Endpoint,
         NEW R \in SUBSET (Event \X Endpoint \X Revision), NEW n \in Nat
  PROVE  /\ [t EXCEPT !.page = E] \in Txn /\ [t EXCEPT !.locked = P] \in Txn
         /\ [t EXCEPT !.marks = E] \in Txn /\ [t EXCEPT !.errors = E] \in Txn
         /\ [t EXCEPT !.rows = R] \in Txn /\ [t EXCEPT !.global = n] \in Txn
  BY Zenon DEF Txn

\* The loop keeps the transaction a transaction.
LEMMA EventTyped ==
  ASSUME IndInv, NEW w \in Worker, NEW e \in Event, NEW u, u = FanEventTxn(w, e, Refs)
  PROVE  u \in Txn
<1> DEFINE t == txn[w]
           E == t.page \ {e}
           L == LockRefs(w, Refs)
           S == [[t EXCEPT !.page = E] EXCEPT !.locked = L]
           R == t.rows \cup NewRows(e)
           n == t.global + Cardinality(Refs)
<1>0. /\ t \in Txn /\ E \in SUBSET Event /\ L \in SUBSET Endpoint /\ n \in Nat
      /\ t.errors \cup {e} \in SUBSET Event /\ t.marks \cup {e} \in SUBSET Event
  BY Types, Finite DEF Refs, ActiveEndpoints, LockRefs
<1>1. \/ u = [S EXCEPT !.errors = t.errors \cup {e}] \/ u = S
      \/ /\ Blocking(w, Refs) = {}
         /\ u = [[[S EXCEPT !.marks = t.marks \cup {e}] EXCEPT !.rows = R] EXCEPT !.global = n]
  BY Zenon DEF FanEventTxn, Quarantine, SkipEvent, Admit, NewRows
<1>2. Blocking(w, Refs) = {} => R \in SUBSET (Event \X Endpoint \X Revision)
  BY AdmittedTo, Types
<1> HIDE DEF E, L, R, n
<1>3. [t EXCEPT !.page = E] \in Txn
  BY <1>0, Edited, Zenon
<1>4. S \in Txn
  BY <1>0, <1>3, Edited, Zenon
<1> HIDE DEF S
<1>5. [S EXCEPT !.errors = t.errors \cup {e}] \in Txn /\ [S EXCEPT !.marks = t.marks \cup {e}] \in Txn
  BY <1>0, <1>4, Edited, Zenon
<1>6. Blocking(w, Refs) = {} => [[S EXCEPT !.marks = t.marks \cup {e}] EXCEPT !.rows = R] \in Txn
  BY <1>2, <1>5, Edited, Zenon
<1>7. Blocking(w, Refs) = {} =>
        [[[S EXCEPT !.marks = t.marks \cup {e}] EXCEPT !.rows = R] EXCEPT !.global = n] \in Txn
  BY <1>0, <1>6, Edited, Zenon
<1> QED
  BY <1>1, <1>4, <1>5, <1>7, Zenon

\* The rows of an admitted event: at most one for each endpoint that was read.
LEMMA NewRowsSize ==
  ASSUME IndInv, NEW e \in Event
  PROVE  /\ IsFiniteSet(NewRows(e)) /\ Cardinality(NewRows(e)) <= Cardinality(Refs)
         /\ Cardinality(NewRows(e)) \in Nat
<1> DEFINE f == [p \in Refs |-> <<e, p, endpoint[p].revision>>]
<1>1. f \in [Refs -> NewRows(e)] /\ \A y \in NewRows(e) : \E x \in Refs : f[x] = y
  BY Zenon DEF NewRows
<1> HIDE DEF f
<1> QED
  BY <1>1, Finite, ImageSize, FS_CardinalityType, Zenon

\* What an admitted event adds stays within the bounds.
LEMMA AdmitCounts ==
  ASSUME IndInv, NEW w \in Worker, txn[w].open, NEW e \in Event, NEW u,
         ~TooWide(Refs), Blocking(w, Refs) = {}, ~(txn[w].global >= HighWater),
         u.rows = txn[w].rows \cup NewRows(e), u.global = txn[w].global + Cardinality(Refs)
  PROVE  CountsHold(u)
<1> DEFINE t == txn[w]
<1>1. CountsHold(t) /\ t.global \in Nat
  BY Types, Zenon DEF TxnHolds
<1>2. IsFiniteSet(t.rows) /\ Cardinality(t.rows) \in Nat
  BY <1>1, FS_CardinalityType, Zenon DEF CountsHold
<1>3. /\ IsFiniteSet(u.rows) /\ Cardinality(u.rows) <= Cardinality(t.rows) + Cardinality(NewRows(e))
      /\ Cardinality(u.rows) \in Nat
  BY <1>2, NewRowsSize, UnionSize, FS_CardinalityType, Zenon
<1>4. u.global <= HighWater - 1 + MaxEndpointsPerEvent
  BY <1>1, Finite, FanoutAssumption DEF TooWide
<1>5. Cardinality(OpenRows) + Cardinality(u.rows) <= u.global
  BY <1>1, <1>2, <1>3, NewRowsSize, Finite DEF CountsHold
<1>6. ASSUME NEW p \in Endpoint
      PROVE  Cardinality(OpenAt(p)) + Cardinality(RowsAt(u, p)) <= MaxDestinationQueue
  <2> DEFINE O == Cardinality(OpenAt(p))
             R == RowsAt(t, p)
             x == <<e, p, endpoint[p].revision>>
  <2>1. IsFiniteSet(R) /\ Cardinality(R) \in Nat
    <3>1. R \in SUBSET t.rows
      BY Zenon DEF RowsAt
    <3> QED
      BY <1>2, <3>1, FS_Subset, FS_CardinalityType
  <2>2. O + Cardinality(R) <= MaxDestinationQueue /\ O \in Nat
    BY <1>1, Finite DEF CountsHold
  <2>3. CASE p \in Refs
    <3>1. RowsAt(u, p) \subseteq R \cup {x}
      BY DEF RowsAt, NewRows
    <3>2. IsFiniteSet({x}) /\ Cardinality({x}) = 1
      BY FS_Singleton, Zenon
    <3>3. IsFiniteSet(R \cup {x}) /\ Cardinality(R \cup {x}) <= Cardinality(R) + 1
      BY <2>1, <3>2, UnionSize, Zenon
    <3>4. Cardinality(RowsAt(u, p)) <= Cardinality(R \cup {x}) /\ Cardinality(RowsAt(u, p)) \in Nat
      BY <3>1, <3>3, FS_Subset, FS_CardinalityType
    <3>5. Cardinality(R \cup {x}) \in Nat
      BY <3>3, FS_CardinalityType, Zenon
    <3>6. O + Cardinality(R) < MaxDestinationQueue
      BY <2>3, AdmittedTo, Zenon
    <3> QED
      BY <2>1, <2>2, <3>3, <3>4, <3>5, <3>6, FanoutAssumption
  <2>4. CASE p \notin Refs
    <3>1. RowsAt(u, p) = R
      BY <2>4 DEF RowsAt, NewRows
    <3> QED
      BY <2>2, <3>1, Zenon
  <2> QED
    BY <2>3, <2>4
<1> QED
  BY <1>3, <1>4, <1>5, <1>6, Zenon DEF CountsHold

\* One iteration of the loop.
LEMMA EventHolds ==
  ASSUME IndInv, NEW w \in Worker, FanEvent(w)
  PROVE  OneOpen' /\ \A v \in Worker : txn'[v].open => TxnHolds(txn[v])'
<1> DEFINE t == txn[w]
<1>0. PICK e \in t.page : txn' = [txn EXCEPT ![w] = FanEventTxn(w, e, Refs)]
  BY Zenon DEF FanEvent
<1>1. t.open /\ UNCHANGED <<created, marked, quarantined, row, endpoint>>
  BY Zenon DEF FanEvent
<1>2. e \in Event /\ TxnHolds(t) /\ t.rows \subseteq Event \X Endpoint \X Revision
  BY <1>0, <1>1, Types, Zenon
<1> DEFINE u == FanEventTxn(w, e, Refs)
<1>3. u \in Txn
  BY <1>2, EventTyped, Zenon
<1>4. /\ u.open = t.open /\ u.known = t.known
      /\ u.page = t.page \ {e} /\ u.locked = t.locked \cup Refs
      /\ \/ /\ u.rows = t.rows /\ u.global = t.global /\ u.marks = t.marks
            /\ u.errors = t.errors \/ u.errors = t.errors \cup {e}
         \/ /\ ~TooWide(Refs) /\ Blocking(w, Refs) = {} /\ ~(t.global >= HighWater)
            /\ u.rows = t.rows \cup NewRows(e) /\ u.global = t.global + Cardinality(Refs)
            /\ u.marks = t.marks \cup {e} /\ u.errors = t.errors
  BY <1>2, EventCases
<1>4a. txn' = [txn EXCEPT ![w] = u]
  BY <1>0, Zenon
<1> HIDE DEF u
<1>5. OneOpen' /\ txn'[w] = u /\ \A v \in Worker : txn'[v].open => v = w
  BY <1>1, <1>3, <1>4, <1>4a, TxnStep, Zenon
<1>6. EventsFresh(u)
  BY <1>0, <1>2, <1>4 DEF TxnHolds, EventsFresh
<1>7. ReadsHold(u)
  <2>1. \A p \in Refs : Active(p)
    BY DEF Refs, ActiveEndpoints
  <2>2. \A x \in NewRows(e) : x[1] = e /\ x[2] \in Refs /\ x[3] = endpoint[x[2]].revision
    BY DEF NewRows
  <2>3. \A x \in t.rows : x[1] \in t.marks /\ x[2] \in t.locked /\ x[3] = endpoint[x[2]].revision
    BY <1>2 DEF TxnHolds, ReadsHold
  <2>4. \A p \in u.locked : Active(p)
    BY <1>2, <1>4, <2>1, Zenon DEF TxnHolds, ReadsHold
  <2>5. \A x \in u.rows : x[1] \in u.marks /\ x[2] \in u.locked /\ x[3] = endpoint[x[2]].revision
    BY <1>4, <2>2, <2>3, Zenon
  <2> QED
    BY <2>4, <2>5 DEF ReadsHold
<1>8. Covered(u)
  <2>1. CASE u.rows = t.rows /\ u.marks = t.marks
    BY <1>2, <1>4, <2>1, Zenon DEF TxnHolds, Covered
  <2>2. CASE ~TooWide(Refs) /\ u.rows = t.rows \cup NewRows(e) /\ u.marks = t.marks \cup {e}
    <3>1. \A p \in Endpoint : Active(p) => <<e, p, endpoint[p].revision>> \in NewRows(e)
      BY <2>2, RefsAreAll, Zenon DEF NewRows, ActiveEndpoints
    <3>2. t.known \subseteq Endpoint
      BY Types, Zenon
    <3> QED
      BY <1>2, <1>4, <2>2, <3>1, <3>2, Zenon DEF TxnHolds, Covered
  <2> QED
    BY <1>4, <2>1, <2>2, Zenon
<1>9. CountsHold(u)
  <2>1. CASE u.rows = t.rows /\ u.global = t.global
    BY <1>2, <2>1, Zenon DEF TxnHolds, CountsHold, RowsAt
  <2>2. CASE /\ ~TooWide(Refs) /\ Blocking(w, Refs) = {} /\ ~(t.global >= HighWater)
             /\ u.rows = t.rows \cup NewRows(e) /\ u.global = t.global + Cardinality(Refs)
    BY <1>1, <1>2, <2>2, AdmitCounts, Zenon
  <2> QED
    BY <1>4, <2>1, <2>2
<1>10. TxnHolds(u)
  BY <1>6, <1>7, <1>8, <1>9, Zenon DEF TxnHolds
<1>11. TxnHolds(txn[w])'
  BY <1>1, <1>5, <1>10, HoldsStill
<1> QED
  BY <1>5, <1>11

------------------------------------------------------------------------------
(* The commit *)

RowType == [status : {"none", "open", "settled"}, revision : 0 .. MaxRevision]

\* A row is as it was, or it is one of the transaction's; and the transaction's rows are there.
LEMMA CommitRows ==
  ASSUME IndInv, NEW w \in Worker, FanCommit(w), NEW ep \in Event \X Endpoint
  PROVE  /\ row'[ep] \in RowType
         /\ \/ row'[ep] = row[ep]
            \/ /\ row[ep] = NoRow /\ row'[ep].status = "open" /\ row'[ep].revision \in Revision
               /\ <<ep[1], ep[2], row'[ep].revision>> \in txn[w].rows
         /\ (\E r \in Revision : <<ep[1], ep[2], r>> \in txn[w].rows) => row'[ep] # NoRow
<1> DEFINE In(r) == <<ep[1], ep[2], r>> \in txn[w].rows
           c == CHOOSE r \in Revision : In(r)
<1>1. row'[ep] = IF row[ep] = NoRow /\ \E r \in Revision : In(r)
                 THEN [status |-> "open", revision |-> c] ELSE row[ep]
  BY DEF FanCommit
<1>2. (\E r \in Revision : In(r)) => c \in Revision /\ In(c)
  BY Zenon
<1>3. row[ep] \in RowType
  BY Types, Zenon DEF TypeOK, RowType
<1> HIDE DEF c, In
<1>4. CASE row[ep] = NoRow /\ \E r \in Revision : In(r)
  <2>1. row'[ep] = [status |-> "open", revision |-> c] /\ c \in Revision /\ In(c)
    BY <1>1, <1>2, <1>4, Zenon
  <2>2. row'[ep].status = "open" /\ row'[ep].revision = c
    BY <2>1
  <2>3. c \in 0 .. MaxRevision
    BY <2>1, FanoutAssumption DEF Revision
  <2>4. row'[ep] \in RowType /\ row'[ep] # NoRow
    BY <2>1, <2>3 DEF RowType, NoRow
  <2> QED
    BY <1>4, <2>1, <2>2, <2>4, Zenon DEF In
<1>5. CASE ~(row[ep] = NoRow /\ \E r \in Revision : In(r))
  BY <1>1, <1>3, <1>5, Zenon DEF In
<1> QED
  BY <1>4, <1>5, Zenon

\* A set of rows with the revisions left out is no larger.
LEMMA Keys ==
  ASSUME NEW S \in SUBSET (Event \X Endpoint \X Revision), IsFiniteSet(S)
  PROVE  /\ IsFiniteSet({<<x[1], x[2]>> : x \in S})
         /\ Cardinality({<<x[1], x[2]>> : x \in S}) <= Cardinality(S)
<1> DEFINE K == {<<x[1], x[2]>> : x \in S}
           f == [x \in S |-> <<x[1], x[2]>>]
<1>1. f \in [S -> K] /\ \A y \in K : \E x \in S : f[x] = y
  OBVIOUS
<1> HIDE DEF f
<1>2. IsFiniteSet(K) /\ Cardinality(K) <= Cardinality(S)
  BY <1>1, ImageSize, Zenon
<1> QED
  BY <1>2, Zenon

\* What is counted grows by at most what is added.
LEMMA Grown ==
  ASSUME NEW A, IsFiniteSet(A), NEW S \in SUBSET (Event \X Endpoint \X Revision), IsFiniteSet(S),
         NEW B, B \subseteq A \cup {<<x[1], x[2]>> : x \in S}
  PROVE  Cardinality(B) \in Nat /\ Cardinality(B) <= Cardinality(A) + Cardinality(S)
<1> DEFINE K == {<<x[1], x[2]>> : x \in S}
<1>1. IsFiniteSet(K) /\ Cardinality(K) <= Cardinality(S)
  BY Keys
<1>2. B \subseteq A \cup K
  OBVIOUS
<1> HIDE DEF K
<1>3. IsFiniteSet(A \cup K) /\ Cardinality(A \cup K) <= Cardinality(A) + Cardinality(K)
  BY <1>1, UnionSize, Zenon
<1>4. IsFiniteSet(B) /\ Cardinality(B) <= Cardinality(A \cup K)
  BY <1>2, <1>3, FS_Subset
<1>5. /\ Cardinality(A) \in Nat /\ Cardinality(K) \in Nat /\ Cardinality(S) \in Nat
      /\ Cardinality(A \cup K) \in Nat /\ Cardinality(B) \in Nat
  BY <1>1, <1>3, <1>4, FS_CardinalityType
<1> QED
  BY <1>1, <1>3, <1>4, <1>5

\* The commit: the counts of the transaction become those of everybody, and its events whole.
LEMMA CommitHolds ==
  ASSUME IndInv, NEW w \in Worker, FanCommit(w)
  PROVE  /\ row' \in [Event \X Endpoint -> RowType]
         /\ QueueBounds' /\ WholeEvents'
         /\ OneOpen' /\ \A v \in Worker : ~txn'[v].open
<1> DEFINE t == txn[w]
<1>1. /\ t.open /\ txn' = [txn EXCEPT ![w] = NoTxn]
      /\ marked' = marked \cup t.marks /\ quarantined' = quarantined \cup t.errors
  BY Zenon DEF FanCommit
<1>2. /\ TxnHolds(t) /\ t.rows \in SUBSET (Event \X Endpoint \X Revision)
      /\ t.global \in Nat /\ t.marks \subseteq Event
      /\ QueueBounds /\ WholeEvents
  BY <1>1, Types, Zenon DEF IndInv, FanoutInv
<1>3. OneOpen' /\ \A v \in Worker : ~txn'[v].open
  BY <1>1, EndHolds, Zenon
<1>4. row' \in [Event \X Endpoint -> RowType]
  <2>1. row' = [ep \in Event \X Endpoint |-> row'[ep]]
    BY Zenon DEF FanCommit
  <2> QED
    BY <2>1, CommitRows, Zenon
<1>5. QueueBounds'
  <2>1. CountsHold(t) /\ IsFiniteSet(t.rows)
    BY <1>2 DEF TxnHolds, CountsHold
  <2>2. \A ep \in OpenRows' : \/ ep \in OpenRows
                              \/ \E x \in t.rows : ep = <<x[1], x[2]>>
    <3> SUFFICES ASSUME NEW ep \in OpenRows', ep \notin OpenRows
                 PROVE  \E x \in t.rows : ep = <<x[1], x[2]>>
      OBVIOUS
    <3>1. ep \in Event \X Endpoint /\ row'[ep] # row[ep]
      BY Zenon DEF OpenRows
    <3>2. <<ep[1], ep[2], row'[ep].revision>> \in t.rows
      BY <3>1, CommitRows
    <3>3. ep = <<ep[1], ep[2]>>
      BY <3>1
    <3> QED
      BY <3>2, <3>3
  <2>3. OpenRows' \subseteq OpenRows \cup {<<x[1], x[2]>> : x \in t.rows}
    BY <2>2, Zenon
  <2>4. Cardinality(OpenRows') \in Nat /\ Cardinality(OpenRows') <= Cardinality(OpenRows) + Cardinality(t.rows)
    BY <1>2, <2>1, <2>3, Finite, Grown, Zenon
  <2>5. Cardinality(t.rows) \in Nat
    BY <2>1, FS_CardinalityType, Zenon
  <2>6. Cardinality(OpenRows') <= HighWater - 1 + MaxEndpointsPerEvent
    BY <1>2, <2>1, <2>4, <2>5, Finite, FanoutAssumption DEF CountsHold
  <2>7. ASSUME NEW p \in Endpoint PROVE Cardinality(OpenAt(p)') <= MaxDestinationQueue
    <3>1. RowsAt(t, p) \in SUBSET t.rows
      BY Zenon DEF RowsAt
    <3>2. IsFiniteSet(RowsAt(t, p)) /\ RowsAt(t, p) \in SUBSET (Event \X Endpoint \X Revision)
      BY <1>2, <2>1, <3>1, FS_Subset, Zenon
    <3>3. OpenAt(p)' \subseteq OpenAt(p) \cup {<<x[1], x[2]>> : x \in RowsAt(t, p)}
      <4> SUFFICES ASSUME NEW ep \in OpenAt(p)', ep \notin OpenAt(p)
                   PROVE  \E x \in RowsAt(t, p) : ep = <<x[1], x[2]>>
        OBVIOUS
      <4>1. ep \in OpenRows' /\ ep \notin OpenRows /\ ep[2] = p
        BY DEF OpenAt
      <4>2. PICK x \in t.rows : ep = <<x[1], x[2]>>
        BY <2>2, <4>1, Zenon
      <4>3. x[2] = p
        BY <4>1, <4>2, Zenon
      <4> QED
        BY <4>2, <4>3, Zenon DEF RowsAt
    <3>4. /\ Cardinality(OpenAt(p)') \in Nat
          /\ Cardinality(OpenAt(p)') <= Cardinality(OpenAt(p)) + Cardinality(RowsAt(t, p))
      BY <3>2, <3>3, Finite, Grown, Zenon
    <3>5. Cardinality(RowsAt(t, p)) \in Nat
      BY <3>2, FS_CardinalityType
    <3> QED
      BY <2>1, <3>4, <3>5, Finite, FanoutAssumption DEF CountsHold
  <2> QED
    BY <2>6, <2>7, Zenon DEF QueueBounds
<1>6. WholeEvents'
  <2>1. ASSUME NEW e \in Event, NEW p \in Endpoint, row'[<<e, p>>] # NoRow PROVE e \in marked'
    <3>1. CASE row'[<<e, p>>] = row[<<e, p>>]
      BY <1>1, <1>2, <2>1, <3>1, Zenon DEF WholeEvents
    <3>2. CASE row'[<<e, p>>] # row[<<e, p>>]
      <4>1. <<e, p, row'[<<e, p>>].revision>> \in t.rows
        BY <3>2, CommitRows, Zenon
      <4>2. \A x \in t.rows : x[1] \in t.marks
        BY <1>2 DEF TxnHolds, ReadsHold
      <4> QED
        BY <1>1, <4>1, <4>2, Zenon
    <3> QED
      BY <3>1, <3>2
  <2>2. marked' \cap quarantined' = {}
    BY <1>1, <1>2, Zenon DEF TxnHolds, EventsFresh, WholeEvents
  <2> QED
    BY <2>1, <2>2, Zenon DEF WholeEvents
<1> QED
  BY <1>3, <1>4, <1>5, <1>6, Zenon

------------------------------------------------------------------------------
(* The induction *)

Phases == {"total", "destination", "fanout", "deliver"}

\* The types of everything but the rows and the transactions.
OtherTypes ==
  /\ created \subseteq Event /\ marked \subseteq created /\ quarantined \subseteq created
  /\ endpoint \in [Endpoint -> [status : {"absent", "active", "revoked"}, revision : 0 .. MaxRevision]]
  /\ phase \in [Worker -> Phases] /\ total \in [Worker -> Nat] /\ paused \in [Worker -> BOOLEAN]
  /\ aborts \in 0 .. MaxAborts

\* The fields of a transaction.
LEMMA TxnTypes ==
  ASSUME NEW t \in Txn
  PROVE  /\ t.page \subseteq Event /\ t.global \in Nat
         /\ t.locked \subseteq Endpoint /\ t.known \subseteq Endpoint
         /\ t.rows \subseteq Event \X Endpoint \X Revision
         /\ t.marks \subseteq Event /\ t.errors \subseteq Event
  BY DEF Txn

\* The types of a transaction follow from the fan-out lock's part of the invariant,
LEMMA TypesApart == OneOpen => (TypeOK <=> OtherTypes /\ row \in [Event \X Endpoint -> RowType])
<1>1. OneOpen => \A w \in Worker : txn[w] \in Txn
  BY DEF OneOpen
<1> QED
  BY <1>1, TxnTypes, Zenon DEF TypeOK, OtherTypes, RowType, Phases

\* also after a step.
LEMMA TypesNext == OneOpen' /\ OtherTypes' /\ row' \in [Event \X Endpoint -> RowType] => TypeOK'
<1>1. OneOpen' => \A w \in Worker : txn'[w] \in Txn
  BY DEF OneOpen
<1> QED
  BY <1>1, TxnTypes, Zenon DEF TypeOK, OtherTypes, RowType, Phases

\* A worker's step changes its place, and what it counted.
LEMMA WorkerTypes ==
  ASSUME IndInv, OtherTypes, NEW w \in Worker, WorkerNext(w)
  PROVE  OtherTypes'
<1>1. CASE CountTotal(w)
  BY <1>1, Finite DEF CountTotal, OtherTypes, Phases
<1>2. CASE CountDestination(w)
  <2>1. PICK largest \in 0 .. Cardinality(Event) :
          paused' = [paused EXCEPT ![w] = NextPaused(paused[w], total[w], largest)]
    BY <1>2, Zenon DEF CountDestination
  <2>2. NextPaused(paused[w], total[w], largest) \in BOOLEAN
    BY Zenon DEF NextPaused
  <2>3. paused' \in [Worker -> BOOLEAN]
    BY <2>1, <2>2, Zenon DEF OtherTypes
  <2>4. phase' \in [Worker -> Phases]
    <3>1. (IF paused'[w] THEN "deliver" ELSE "fanout") \in Phases
      BY Zenon DEF Phases
    <3> QED
      BY <1>2, <3>1, Zenon DEF CountDestination, OtherTypes
  <2> QED
    BY <1>2, <2>3, <2>4, Zenon DEF CountDestination, OtherTypes
<1>3. CASE Deliver(w)
  BY <1>3 DEF Deliver, OtherTypes, Phases
<1>4. CASE FanBegin(w)
  BY <1>4, Zenon DEF FanBegin, OtherTypes
<1>5. CASE FanEvent(w)
  BY <1>5, Zenon DEF FanEvent, OtherTypes
<1>6. CASE FanCommit(w)
  <2>1. /\ txn[w].marks \cup txn[w].errors \subseteq created
        /\ marked' = marked \cup txn[w].marks /\ quarantined' = quarantined \cup txn[w].errors
        /\ phase' = [phase EXCEPT ![w] = "deliver"]
        /\ UNCHANGED <<created, endpoint, total, paused, aborts>>
    BY <1>6, Types, Zenon DEF FanCommit, TxnHolds, EventsFresh
  <2> QED
    BY <2>1, Zenon DEF OtherTypes, Phases
<1>7. CASE FanAbort(w)
  BY <1>7, FanoutAssumption DEF FanAbort, OtherTypes, Phases
<1> QED
  BY <1>1, <1>2, <1>3, <1>4, <1>5, <1>6, <1>7, Zenon DEF WorkerNext

\* The others' steps.
LEMMA OthersTypes ==
  ASSUME OtherTypes
  PROVE  /\ \A e \in Event : Publish(e) => OtherTypes'
         /\ \A p \in Endpoint : Register(p) \/ Rotate(p) \/ Revoke(p) => OtherTypes'
         /\ \A ep \in Event \X Endpoint : Settle(ep) => OtherTypes'
<1>1. ASSUME NEW e \in Event, Publish(e) PROVE OtherTypes'
  BY <1>1, Zenon DEF Publish, OtherTypes
<1>2. ASSUME NEW p \in Endpoint, Register(p) \/ Rotate(p) \/ Revoke(p) PROVE OtherTypes'
  <2>1. endpoint[p].revision \in 0 .. MaxRevision
    BY Zenon DEF OtherTypes
  <2>2. PICK s \in {"active", "revoked"}, r \in 0 .. MaxRevision : SetEndpoint(p, s, r)
    BY <1>2, <2>1, FanoutAssumption DEF Register, Rotate, Revoke
  <2> QED
    BY <2>2, Zenon DEF SetEndpoint, OtherTypes
<1>3. ASSUME NEW ep \in Event \X Endpoint, Settle(ep) PROVE OtherTypes'
  BY <1>3, Zenon DEF Settle, OtherTypes
<1> QED
  BY <1>1, <1>2, <1>3, Zenon

\* Nothing that the invariant counts changes.
LEMMA Same ==
  ASSUME IndInv, UNCHANGED <<row, marked, quarantined>>
  PROVE  row' \in [Event \X Endpoint -> RowType] /\ QueueBounds' /\ WholeEvents'
<1>1. row \in [Event \X Endpoint -> RowType] /\ QueueBounds /\ WholeEvents
  BY Types, Zenon DEF IndInv, FanoutInv, TypeOK, RowType
<1> QED
  BY <1>1, Zenon DEF QueueBounds, WholeEvents, OpenAt, OpenRows

\* Neither do the transactions.
LEMMA SameTxn ==
  ASSUME IndInv, UNCHANGED <<txn, row, marked, quarantined, endpoint>>, created \subseteq created'
  PROVE  OneOpen' /\ \A w \in Worker : txn'[w].open => TxnHolds(txn[w])'
<1>1. OneOpen'
  BY Zenon DEF IndInv, OneOpen
<1>2. ASSUME NEW w \in Worker, txn'[w].open PROVE TxnHolds(txn[w])'
  <2>1. TxnHolds(txn[w]) /\ txn'[w] = txn[w]
    BY <1>2, Types, Zenon
  <2> QED
    BY <2>1, HoldsStill, Zenon
<1> QED
  BY <1>1, <1>2

\* The invariant holds in the first state: no event, no endpoint, no transaction.
LEMMA InitInd == Init => IndInv
<1> SUFFICES ASSUME Init PROVE IndInv
  BY Zenon
<1>1. NoTxn \in Txn /\ ~NoTxn.open
  BY Zenon DEF NoTxn, Txn
<1>2. OneOpen
  BY <1>1, Zenon DEF Init, OneOpen
<1>3. NoRow \in RowType /\ NoRow.status # "open"
  BY FanoutAssumption DEF NoRow, RowType
<1>4. OtherTypes
  BY FanoutAssumption DEF Init, OtherTypes, Phases
<1>5. row \in [Event \X Endpoint -> RowType]
  BY <1>3, Zenon DEF Init
<1>6. OpenRows = {} /\ \A p \in Endpoint : OpenAt(p) = {}
  BY <1>3, Zenon DEF Init, OpenRows, OpenAt
<1>7. QueueBounds
  BY <1>6, FS_EmptySet, FanoutAssumption DEF QueueBounds
<1>8. WholeEvents
  <2>1. \A e \in Event, p \in Endpoint : row[<<e, p>>] = NoRow
    BY DEF Init
  <2> QED
    BY <2>1, Zenon DEF WholeEvents, Init
<1> QED
  BY <1>1, <1>2, <1>4, <1>5, <1>7, <1>8, TypesApart, Zenon DEF IndInv, FanoutInv, Init

\* Every step of a worker, of a publisher, an operator or a delivery preserves it.
LEMMA NextInd == IndInv /\ [Next]_vars => IndInv'
<1> SUFFICES ASSUME IndInv, [Next]_vars PROVE IndInv'
  OBVIOUS
<1> DEFINE Kept == row' \in [Event \X Endpoint -> RowType] /\ QueueBounds' /\ WholeEvents'
           Told == OneOpen' /\ \A w \in Worker : txn'[w].open => TxnHolds(txn[w])'
<1>0. OtherTypes /\ created \subseteq Event
  BY Types, TypesApart, Zenon DEF IndInv, OtherTypes
<1> SUFFICES OtherTypes' /\ Kept /\ Told
  BY TypesNext, Zenon DEF IndInv, FanoutInv
<1>1. ASSUME NEW w \in Worker, WorkerNext(w) PROVE OtherTypes' /\ Kept /\ Told
  <2>1. OtherTypes'
    BY <1>0, <1>1, WorkerTypes, Zenon
  <2>2. CASE CountTotal(w) \/ CountDestination(w) \/ Deliver(w)
    <3>1. UNCHANGED <<created, marked, quarantined, row, endpoint, txn>>
      BY <2>2, Zenon DEF CountTotal, CountDestination, Deliver
    <3> QED
      BY <2>1, <3>1, Same, SameTxn, Zenon
  <2>3. CASE FanBegin(w)
    <3>1. UNCHANGED <<row, marked, quarantined>>
      BY <2>3, Zenon DEF FanBegin
    <3> QED
      BY <2>1, <2>3, <3>1, Same, BeginHolds, Zenon
  <2>4. CASE FanEvent(w)
    <3>1. UNCHANGED <<row, marked, quarantined>>
      BY <2>4, Zenon DEF FanEvent
    <3> QED
      BY <2>1, <2>4, <3>1, Same, EventHolds
  <2>5. CASE FanCommit(w)
    BY <2>1, <2>5, CommitHolds, Zenon
  <2>6. CASE FanAbort(w)
    <3>1. UNCHANGED <<row, marked, quarantined>>
      BY <2>6, Zenon DEF FanAbort
    <3> QED
      BY <2>1, <2>6, <3>1, Same, AbortHolds, Zenon
  <2> QED
    BY <1>1, <2>2, <2>3, <2>4, <2>5, <2>6, Zenon DEF WorkerNext
<1>2. ASSUME NEW e \in Event, Publish(e) PROVE OtherTypes' /\ Kept /\ Told
  <2>1. UNCHANGED <<marked, quarantined, row, endpoint, txn>> /\ created \subseteq created'
    BY <1>2, Zenon DEF Publish
  <2> QED
    BY <1>0, <1>2, <2>1, OthersTypes, Same, SameTxn, Zenon
<1>3. ASSUME NEW p \in Endpoint, Register(p) \/ Rotate(p) \/ Revoke(p) PROVE OtherTypes' /\ Kept /\ Told
  <2>1. UNCHANGED <<marked, quarantined, row, txn>>
    BY <1>3 DEF Register, Rotate, Revoke, SetEndpoint
  <2>2. OneOpen'
    BY <2>1, Zenon DEF IndInv, OneOpen
  <2>3. \A w \in Worker : txn'[w].open => TxnHolds(txn[w])'
    BY <1>3, <2>1, EndpointHolds, Zenon
  <2> QED
    BY <1>0, <1>3, <2>1, <2>2, <2>3, OthersTypes, Same, Zenon
<1>4. ASSUME NEW ep \in Event \X Endpoint, Settle(ep) PROVE OtherTypes' /\ Kept /\ Told
  <2>1. txn' = txn
    BY <1>4 DEF Settle
  <2>2. OneOpen'
    BY <2>1, Zenon DEF IndInv, OneOpen
  <2>3. \A w \in Worker : txn'[w].open => TxnHolds(txn[w])'
    BY <1>4, <2>1, SettleHolds, Zenon
  <2>4. Kept
    BY <1>4, SettleHolds, Zenon DEF RowType
  <2> QED
    BY <1>0, <1>4, <2>2, <2>3, <2>4, OthersTypes, Zenon
<1>5. CASE UNCHANGED vars
  <2>1. OtherTypes'
    BY <1>0, <1>5, Zenon DEF OtherTypes, vars
  <2>2. UNCHANGED <<created, marked, quarantined, row, endpoint, txn>>
    BY <1>5 DEF vars
  <2> QED
    BY <2>1, <2>2, Same, SameTxn
<1> QED
  BY <1>1, <1>2, <1>3, <1>4, <1>5, Zenon DEF Next

------------------------------------------------------------------------------
(* The theorems *)

\* The induction: the invariant of the state and what the open transaction knows of it.
THEOREM Inductive == Spec => []IndInv
  BY InitInd, NextInd, PTL DEF Spec

\* Fanout keeps every destination within MaxDestinationQueue open rows and all of them below the
\* high-water mark plus one event's fan-out, and fans an event out as a whole or not at all,
\* for every number of workers, events and endpoints and every limit.
THEOREM QueuesBounded == Spec => []FanoutInv
<1>1. IndInv => FanoutInv
  BY DEF IndInv
<1> QED
  BY <1>1, Inductive, PTL

\* A step other than a commit marks nothing and adds no row.
LEMMA OnlyCommit ==
  ASSUME IndInv, [Next]_vars, ~\E w \in Worker : FanCommit(w)
  PROVE  marked' = marked /\ \A ep \in Event \X Endpoint : row[ep] = NoRow => row'[ep] = NoRow
<1>1. ASSUME NEW ep \in Event \X Endpoint, Settle(ep)
      PROVE  marked' = marked /\ \A x \in Event \X Endpoint : row[x] = NoRow => row'[x] = NoRow
  <2>1. row \in [Event \X Endpoint -> RowType]
    BY Types, Zenon DEF TypeOK, RowType
  <2>2. row[ep] # NoRow
    BY <1>1 DEF Settle, NoRow
  <2>3. \A x \in Event \X Endpoint : x # ep => row'[x] = row[x]
    BY <1>1, <2>1, Zenon DEF Settle
  <2> QED
    BY <1>1, <2>2, <2>3, Zenon DEF Settle
<1>2. (~\E ep \in Event \X Endpoint : Settle(ep)) => marked' = marked /\ row' = row
  BY DEF Next, WorkerNext, CountTotal, CountDestination, Deliver, FanBegin, FanEvent, FanAbort,
         Publish, Register, Rotate, Revoke, SetEndpoint, vars
<1> QED
  BY <1>1, <1>2, Zenon

\* Whatever is rotated, registered or revoked while Fanout runs, the commit that marks an event
\* leaves a row for every endpoint that was active from the beginning of the transaction on.
THEOREM NobodyIsSkipped == Spec => NobodySkipped
<1> DEFINE A == \A w \in Worker, e \in Event :
                  e \in marked' \ marked /\ e \in txn[w].marks =>
                    \A p \in txn[w].known : Active(p) => row'[e, p] # NoRow
<1>1. IndInv /\ [Next]_vars => A
  <2> SUFFICES ASSUME IndInv, [Next]_vars, NEW w \in Worker, NEW e \in Event,
                      e \in marked' \ marked, e \in txn[w].marks,
                      NEW p \in txn[w].known, Active(p)
               PROVE  row'[<<e, p>>] # NoRow
    BY Zenon
  <2>1. PICK v \in Worker : FanCommit(v)
    BY OnlyCommit
  <2>2. txn[v].open /\ ~NoTxn.open /\ NoTxn.marks = {}
    BY <2>1, Zenon DEF FanCommit, NoTxn
  <2>3. v = w
    BY <2>2, Zenon DEF IndInv, OneOpen
  <2>4. TxnHolds(txn[w]) /\ p \in Endpoint /\ txn[w].rows \subseteq Event \X Endpoint \X Revision
    BY <2>2, <2>3, Types, Zenon
  <2>5. <<e, p, endpoint[p].revision>> \in txn[w].rows
    BY <2>4, Zenon DEF TxnHolds, Covered
  <2>6. endpoint[p].revision \in Revision /\ <<e, p>> \in Event \X Endpoint
    BY <2>4, <2>5, Zenon
  <2> QED
    BY <2>1, <2>3, <2>5, <2>6, CommitRows, Zenon
<1> QED
  BY <1>1, Inductive, PTL DEF Spec, NobodySkipped

\* The rows that the commit makes visible are for endpoints active at that moment, with the
\* revision current at that moment: the row locks of the loop keep the read values true.
THEOREM FrozenIsCurrent == Spec => FrozenFromCurrent
<1> DEFINE A == \A e \in Event, p \in Endpoint :
                  row[e, p] = NoRow /\ row'[e, p] # NoRow =>
                    Active(p) /\ row'[e, p].revision = endpoint[p].revision
<1>1. IndInv /\ [Next]_vars => A
  <2> SUFFICES ASSUME IndInv, [Next]_vars, NEW e \in Event, NEW p \in Endpoint,
                      row[<<e, p>>] = NoRow, row'[<<e, p>>] # NoRow
               PROVE  Active(p) /\ row'[<<e, p>>].revision = endpoint[p].revision
    BY Zenon
  <2>1. PICK v \in Worker : FanCommit(v)
    BY OnlyCommit, Zenon
  <2> DEFINE x == <<e, p, row'[<<e, p>>].revision>>
  <2>2. x \in txn[v].rows
    BY <2>1, CommitRows, Zenon
  <2>3. TxnHolds(txn[v])
    BY <2>1, Types DEF FanCommit
  <2>4. /\ \A q \in txn[v].locked : Active(q)
        /\ \A y \in txn[v].rows : y[2] \in txn[v].locked /\ y[3] = endpoint[y[2]].revision
    BY <2>3, Zenon DEF TxnHolds, ReadsHold
  <2>5. x[2] = p /\ x[3] = row'[<<e, p>>].revision
    OBVIOUS
  <2> HIDE DEF x
  <2> QED
    BY <2>2, <2>4, <2>5, Zenon
<1> QED
  BY <1>1, Inductive, PTL DEF Spec, FrozenFromCurrent
==============================================================================
