------------------------ MODULE ConversationSyncProofs ------------------------
(***************************************************************************)
(* A client at a checkpoint has every conversation in its state at the     *)
(* checkpoint, a round keeps its bounds and is never stuck, and a page     *)
(* shows a conversation to its members only: proofs about                  *)
(* ConversationSync.                                                       *)
(*                                                                         *)
(* The invariant says what a client that holds a cursor knows of each      *)
(* conversation (Knows): in a bootstrap, the conversations up to the       *)
(* cursor at the fence; in a delta, the changes up to the cursor.  A page  *)
(* may be read again from the cursor before.  The view may then be ahead   *)
(* of that cursor, and has every change between the two (Applied).  A page *)
(* is taken apart into the rows it scans and the items it returns          *)
(* (PageIs), and what the client makes of them into one case for each      *)
(* conversation (Merged).                                                  *)
(***************************************************************************)
EXTENDS ConversationSync, FiniteSetTheorems, TLAPS

\* The variables, but for the cursors.
Types ==
  /\ ready \in BOOLEAN
  /\ members \subseteq Conv
  /\ last \in [Conv -> 0 .. MaxMessages]
  /\ changes \in Seq(Item) /\ head <= MaxSequence
  /\ epoch \in 1 .. MaxEpoch /\ floor \in 0 .. head
  /\ now \in 0 .. MaxTime
  /\ view \in [Conv -> 0 .. head]
  /\ begun \in 0 .. now

CursorType ==
  [kind : {"none", "bootstrap", "delta", "checkpoint"}, epoch : Nat, fence : Nat, at : Nat, end : Nat,
   limit : Nat \ {0}, expires : Nat]

\* A cursor the server has made: a position of a round within the bounds of its fence.
Token(t) ==
  /\ t \in CursorType
  /\ t.kind \in {"none", "bootstrap", "delta", "checkpoint"}
  /\ t.fence \in 0 .. head
  /\ t.at \in Nat /\ t.end \in Nat /\ t.limit \in Nat \ {0} /\ t.expires \in Nat
  /\ t.kind = "bootstrap" => t.at <= t.end /\ \A r \in 1 .. t.fence : changes[r].conv <= t.end
  /\ t.kind = "delta" => t.at <= t.fence
  /\ t.kind \in {"none", "checkpoint"} => t.at = 0 /\ t.end = 0

\* How far a client with a cursor has followed the changes.
Position(k) == IF k.kind = "delta" THEN k.at ELSE k.fence

\* The cursor before is one of the same round, whose lifetime the cursor keeps.
RoundOK ==
  /\ previous.kind # "checkpoint"
  /\ previous.kind # "none" =>
       previous.fence = cursor.fence /\ cursor.kind \in {previous.kind, "checkpoint"}
  /\ previous.kind = "delta" => previous.at <= Position(cursor)
  /\ cursor.kind \in {"bootstrap", "delta"} => cursor.expires = begun + RoundLife
  /\ RoundsBounded

\* A view has a conversation in its state at a revision.
Exact(V, c, r) == IF Upsert(Latest(c, r)) THEN V[c] = Latest(c, r) ELSE ~Upsert(V[c])

\* What a client with cursor k knows of a conversation.  A page that is read again may reach
\* beyond the cursor.
Knows(V, k, c) ==
  /\ V[c] # 0 => changes[V[c]].conv = c
  /\ k.kind # "none" => V[c] <= k.fence
  /\ k.kind = "bootstrap" =>
       /\ V[c] # 0 => V[c] = Latest(c, k.fence) /\ Upsert(V[c])
       /\ c <= k.at /\ Upsert(Latest(c, k.fence)) => V[c] = Latest(c, k.fence)
  /\ k.kind = "delta" => V[c] > k.at \/ Exact(V, c, k.at)
  /\ k.kind = "checkpoint" => Exact(V, c, k.fence)

\* All the changes between two cursors have been applied.
Applied(V, p, k, c) ==
  p.kind = "delta" => \A r \in p.at + 1 .. Position(k) : changes[r].conv = c => r <= V[c]

IndInv ==
  /\ Types
  /\ Token(cursor) /\ Token(previous)
  /\ RoundOK
  /\ \A c \in Conv : Knows(view, cursor, c) /\ Applied(view, previous, cursor, c)

------------------------------------------------------------------------------
(* Sets of numbers *)

\* A set of natural numbers has a least member.
LEMMA MinOf ==
  ASSUME NEW S \in SUBSET Nat, S # {}
  PROVE  Min(S) \in S /\ \A y \in S : Min(S) <= y
<1> DEFINE R == OpToRel(<, Nat)
<1>1. IsWellFoundedOn(R, Nat)
  BY NatLessThanWellFounded
<1>2. \A x, y \in Nat : <<y, x>> \in R <=> y < x
  BY DEF OpToRel
<1> HIDE DEF R
<1>3. PICK x \in S : \A y \in S : ~(<<y, x>> \in R)
  BY <1>1, WFMin, Zenon
<1>4. ASSUME NEW y \in S PROVE x <= y
  <2>1. x \in Nat /\ y \in Nat
    BY Zenon
  <2>2. ~(y < x)
    BY <1>2, <1>3, <2>1, Zenon
  <2> QED
    BY <2>1, <2>2
<1> QED
  BY <1>4, Zenon DEF Min

\* A bounded set of natural numbers has a greatest member.
LEMMA MaxOf ==
  ASSUME NEW S \in SUBSET Nat, S # {}, NEW b \in Nat, \A y \in S : y <= b
  PROVE  Max(S) \in S /\ \A y \in S : y <= Max(S)
<1> DEFINE T == {b - y : y \in S}
<1>1. T \in SUBSET Nat /\ T # {}
  <2>1. \A y \in S : b - y \in Nat
    OBVIOUS
  <2> QED
    BY <2>1, Zenon
<1>2. Min(T) \in T /\ \A z \in T : Min(T) <= z
  BY <1>1, MinOf, Zenon
<1>3. PICK x \in S : Min(T) = b - x
  BY <1>2
<1>4. \A y \in S : x >= y
  BY <1>2, <1>3
<1>5. Max(S) \in S /\ \A y \in S : Max(S) >= y
  BY <1>4, Zenon DEF Max
<1> QED
  BY <1>5

\* Fewer members of a finite set are below a smaller number.
LEMMA CountBelow ==
  ASSUME NEW S \in SUBSET Nat, IsFiniteSet(S), NEW p \in Nat, NEW q \in Nat, q <= p
  PROVE  /\ Cardinality({x \in S : x < q}) \in Nat /\ Cardinality({x \in S : x < p}) \in Nat
         /\ Cardinality({x \in S : x < q}) <= Cardinality({x \in S : x < p})
<1> DEFINE A == {x \in S : x < p}
           B == {x \in S : x < q}
<1>1. A \in SUBSET S /\ B \in SUBSET A
  <2>1. \A x \in S : x < q => x < p
    OBVIOUS
  <2> QED
    BY <2>1, Zenon
<1>2. IsFiniteSet(A) /\ IsFiniteSet(B)
  BY <1>1, FS_Subset
<1>3. Cardinality(B) <= Cardinality(A)
  BY <1>1, <1>2, FS_Subset
<1> QED
  BY <1>2, <1>3, FS_CardinalityType

\* FirstOf takes the members of a set in their order.
LEMMA FirstClosed ==
  ASSUME NEW S \in SUBSET Nat, IsFiniteSet(S), NEW n \in Nat, NEW p \in FirstOf(S, n), NEW q \in S, q <= p
  PROVE  q \in FirstOf(S, n)
<1>1. p \in S /\ Cardinality({x \in S : x < p}) < n
  BY DEF FirstOf
<1>2. /\ Cardinality({x \in S : x < q}) \in Nat /\ Cardinality({x \in S : x < p}) \in Nat
      /\ Cardinality({x \in S : x < q}) <= Cardinality({x \in S : x < p})
  BY <1>1, CountBelow
<1>3. Cardinality({x \in S : x < q}) < n
  BY <1>1, <1>2
<1> QED
  BY <1>3 DEF FirstOf

\* The least member is among the first.
LEMMA FirstHas ==
  ASSUME NEW S \in SUBSET Nat, S # {}, NEW n \in Nat \ {0}
  PROVE  Min(S) \in FirstOf(S, n)
<1>1. PICK m \in S : m = Min(S) /\ \A y \in S : m <= y
  BY MinOf, Zenon
<1>2. {x \in S : x < m} = {}
  <2>1. \A x \in S : ~(x < m)
    BY <1>1
  <2> QED
    BY <2>1, Zenon
<1>3. Cardinality({x \in S : x < m}) = 0
  BY <1>2, FS_EmptySet, Zenon
<1>4. Cardinality({x \in S : x < m}) < n
  BY <1>3
<1> QED
  BY <1>1, <1>4, Zenon DEF FirstOf

\* If fewer members are asked for than there are, that many are taken.
LEMMA FirstAll ==
  ASSUME NEW S \in SUBSET Nat, IsFiniteSet(S), NEW n \in Nat, Cardinality(FirstOf(S, n)) < n
  PROVE  FirstOf(S, n) = S
<1> SUFFICES ASSUME S \ FirstOf(S, n) # {} PROVE FALSE
  BY DEF FirstOf
<1> DEFINE T == S \ FirstOf(S, n)
<1>1. Min(T) \in T /\ \A y \in T : Min(T) <= y
  BY MinOf
<1>2. PICK p \in S : p = Min(T) /\ p \notin FirstOf(S, n)
  BY <1>1, Zenon
<1>3. \A x \in S : x < p => x \in FirstOf(S, n)
  BY <1>1, <1>2
<1>4. FirstOf(S, n) \in SUBSET S /\ {x \in S : x < p} \in SUBSET FirstOf(S, n)
  BY <1>3, Zenon DEF FirstOf
<1>5. IsFiniteSet(FirstOf(S, n))
  BY <1>4, FS_Subset
<1>6. IsFiniteSet({x \in S : x < p}) /\ Cardinality({x \in S : x < p}) <= Cardinality(FirstOf(S, n))
  BY <1>4, <1>5, FS_Subset
<1>7. Cardinality({x \in S : x < p}) < n
  BY <1>5, <1>6, FS_CardinalityType
<1> QED
  BY <1>2, <1>7 DEF FirstOf

\* The first rows after a position.
LEMMA FirstRows ==
  ASSUME NEW a \in Nat, NEW f \in Nat, NEW n \in Nat
  PROVE  FirstOf(a + 1 .. f, n) = {r \in a + 1 .. f : r <= a + n}
<1>1. ASSUME NEW p \in a + 1 .. f PROVE Cardinality({q \in a + 1 .. f : q < p}) = p - 1 - a
  <2>1. {q \in a + 1 .. f : q < p} = a + 1 .. p - 1
    OBVIOUS
  <2>2. a + 1 \in Int /\ p - 1 \in Int
    OBVIOUS
  <2>3. Cardinality(a + 1 .. p - 1) = IF a + 1 > p - 1 THEN 0 ELSE p - 1 - (a + 1) + 1
    BY <2>2, FS_Interval, Zenon
  <2>4. Cardinality(a + 1 .. p - 1) = p - 1 - a
    BY <2>3
  <2> QED
    BY <2>1, <2>4, Zenon
<1>2. \A p \in a + 1 .. f : Cardinality({q \in a + 1 .. f : q < p}) < n <=> p <= a + n
  BY <1>1
<1> QED
  BY <1>2, Zenon DEF FirstOf

------------------------------------------------------------------------------
(* Pages *)

Verdicts == {"take", "skip", "not_ready", "expired", "unavailable"}

\* What a page of candidates S with verdicts v is: it serves all it may up to where it ends, it is
\* the last one only if nothing is left, and it is not refused without a reason.
PageIs(page, S, v, after, limit, exhausted) ==
  /\ page.code = "ok" =>
       /\ page.items = {p \in S : p <= page.at /\ v[p] = "take"}
       /\ \A p \in S : p <= page.at => v[p] \in {"take", "skip"}
       /\ page.at \in Nat /\ page.at >= after /\ (page.at = after \/ page.at \in S)
       /\ page.more \in BOOLEAN
       /\ ~page.more =>
            exhausted /\ \A p \in S : /\ p <= page.at
                                     /\ Cardinality({q \in S : q < p /\ v[q] = "take"}) < limit
  /\ page.code = "limit" => S = {} /\ ~exhausted
  /\ page.code = "unavailable" => \E p \in S : v[p] = "unavailable"

\* Assemble makes such a page of candidates that come after its position.
LEMMA AssembledPage ==
  ASSUME NEW S \in SUBSET Nat, NEW v \in [S -> Verdicts],
         NEW after \in Nat, NEW b \in Nat, \A p \in S : after < p /\ p <= b,
         NEW limit \in Nat \ {0}, NEW exhausted \in BOOLEAN,
         NEW page, page = Assemble(v, after, limit, exhausted)
  PROVE  PageIs(page, S, v, after, limit, exhausted)
<1> DEFINE before(p) == {q \in S : q < p /\ v[q] = "take"}
           examined == {p \in S : Cardinality(before(p)) < limit}
           refused == {p \in examined : v[p] \notin {"take", "skip"}}
           taken == {p \in examined : v[p] = "take"}
           kept == FirstOf(taken, Capacity)
           passed == {p \in examined : \A q \in taken \ kept : p < q}
           more == passed # S \/ ~exhausted
           at == Max({after} \cup passed)
<1>0. IsFiniteSet(S)
  BY FS_BoundedSetOfNaturals
<1>1. page = [code |-> IF refused # {} THEN v[Min(refused)]
                       ELSE IF more /\ at = after THEN "limit" ELSE "ok",
              items |-> kept, at |-> at, more |-> more]
  BY Zenon DEF Assemble
<1>a. /\ page.code = IF refused # {} THEN v[Min(refused)]
                     ELSE IF more /\ at = after THEN "limit" ELSE "ok"
      /\ page.items = kept /\ page.at = at /\ page.more = more
  <2> HIDE DEF refused, kept, at, more
  <2> QED
    BY <1>1
<1>2. Capacity \in Nat \ {0}
  BY SyncAssumption
<1>3. \A p, q \in S : q <= p /\ p \in examined => q \in examined
  <2> SUFFICES ASSUME NEW p \in S, NEW q \in S, q <= p, p \in examined PROVE Cardinality(before(q)) < limit
    BY Zenon
  <2>1. \A x \in S : x < q => x < p
    OBVIOUS
  <2>2. before(p) \in SUBSET S /\ before(q) \in SUBSET before(p)
    BY <2>1, Zenon
  <2>3. IsFiniteSet(before(p))
    BY <1>0, <2>2, FS_Subset
  <2>4. IsFiniteSet(before(q)) /\ Cardinality(before(q)) <= Cardinality(before(p))
    BY <2>2, <2>3, FS_Subset
  <2>5. Cardinality(before(p)) < limit
    BY Zenon
  <2> HIDE DEF before
  <2> QED
    BY <2>3, <2>4, <2>5, FS_CardinalityType
<1>4. taken \in SUBSET Nat /\ IsFiniteSet(taken) /\ taken \in SUBSET S
  BY <1>0, FS_Subset, Zenon
<1>5. kept \in SUBSET taken /\ \A p \in kept, q \in taken : q <= p => q \in kept
  <2> HIDE DEF taken
  <2>1. kept \in SUBSET taken
    BY Zenon DEF FirstOf
  <2> QED
    BY <1>2, <1>4, <2>1, FirstClosed
<1>6. kept = {p \in passed : v[p] = "take"}
  <2>1. ASSUME NEW p \in kept PROVE p \in passed /\ v[p] = "take"
    <3>1. ASSUME NEW q \in taken \ kept PROVE p < q
      <4>1. p \in Nat /\ q \in Nat
        BY <1>4, <1>5, Zenon
      <4>2. ~(q <= p)
        BY <1>5, Zenon
      <4> QED
        BY <4>1, <4>2
    <3> QED
      BY <1>5, <3>1, Zenon
  <2>2. ASSUME NEW p \in passed, v[p] = "take" PROVE p \in kept
    <3>1. p \in taken /\ p \in Nat /\ (p \in taken \ kept => p < p)
      BY <2>2, Zenon
    <3> QED
      BY <3>1
  <2> QED
    BY <2>1, <2>2, Zenon
<1>7. \A p, q \in S : q <= p /\ p \in passed => q \in passed
  <2> SUFFICES ASSUME NEW p \in S, NEW q \in S, q <= p, p \in passed PROVE q \in passed
    BY Zenon
  <2>1. q \in examined
    BY <1>3, Zenon
  <2>2. \A x \in taken \ kept : x \in Nat /\ p < x
    BY <1>4, Zenon
  <2>3. \A x \in taken \ kept : q < x
    BY <2>2
  <2> QED
    BY <2>1, <2>3, Zenon
<1>8. passed \in SUBSET S
  BY Zenon
<1>9. /\ at \in Nat /\ at >= after /\ at \in {after} \cup passed
      /\ \A p \in passed : p <= at
  <2>1. {after} \cup passed \in SUBSET Nat /\ {after} \cup passed # {}
    BY <1>8, Zenon
  <2>2. \A p \in {after} \cup passed : p <= after + b
    <3>1. \A p \in S : p <= after + b
      OBVIOUS
    <3>2. after <= after + b
      OBVIOUS
    <3> QED
      BY <1>8, <3>1, <3>2, Zenon
  <2>3. after + b \in Nat
    OBVIOUS
  <2> HIDE DEF passed
  <2>4. at \in {after} \cup passed /\ \A p \in {after} \cup passed : p <= at
    BY <2>1, <2>2, <2>3, MaxOf, Zenon
  <2> HIDE DEF at
  <2> QED
    BY <2>1, <2>4
<1>10. \A p \in S : p <= at => p \in passed
  <2> SUFFICES ASSUME NEW p \in S, p <= at PROVE p \in passed
    BY Zenon
  <2>1. at # after
    <3> HIDE DEF at
    <3> QED
      BY <1>9
  <2>2. at \in passed /\ at \in S
    BY <1>8, <1>9, <2>1, Zenon
  <2> QED
    BY <1>7, <2>2, Zenon
<1>11. S # {} => refused # {} \/ at # after
  <2> SUFFICES ASSUME S # {}, refused = {} PROVE at # after
    BY Zenon
  <2>1. PICK m \in S : \A y \in S : m <= y
    BY MinOf, Zenon
  <2>2. m \in examined
    <3>1. \A q \in S : ~(q < m)
      BY <2>1
    <3>2. before(m) = {}
      BY <3>1, Zenon
    <3>3. Cardinality(before(m)) = 0
      BY <3>2, FS_EmptySet, Zenon
    <3>4. Cardinality(before(m)) < limit
      BY <3>3
    <3> QED
      BY <3>4, Zenon
  <2>3. ASSUME NEW q \in taken \ kept PROVE m < q
    <3>1. q \in S /\ q \in taken /\ taken # {}
      BY Zenon
    <3>2. Min(taken) \in taken /\ Min(taken) \in kept
      <4> HIDE DEF taken
      <4> QED
        BY <1>2, <1>4, <3>1, MinOf, FirstHas, Zenon
    <3>3. PICK k \in S : ~(q <= k) /\ m <= k
      BY <1>4, <1>5, <2>1, <3>1, <3>2, Zenon
    <3> QED
      BY <3>1, <3>3
  <2>4. m \in passed
    BY <2>2, <2>3, Zenon
  <2>5. m <= at /\ after < m
    BY <1>9, <2>4, Zenon
  <2> HIDE DEF at
  <2> QED
    BY <2>5
<1>12. page.code = "ok" => refused = {}
  <2> SUFFICES ASSUME refused # {} PROVE page.code # "ok"
    BY Zenon
  <2>1. page.code = v[Min(refused)]
    BY <1>a, Zenon
  <2>2. refused \in SUBSET Nat
    BY Zenon
  <2>3. Min(refused) \in S
    BY <2>2, MinOf, Zenon
  <2>4. v[Min(refused)] \in Verdicts
    BY <2>3, Zenon
  <2> QED
    BY <2>1, <2>4, Zenon DEF Verdicts
<1>13. ASSUME page.code = "ok"
       PROVE  /\ page.items = {p \in S : p <= page.at /\ v[p] = "take"}
              /\ \A p \in S : p <= page.at => v[p] \in {"take", "skip"}
              /\ page.at \in Nat /\ page.at >= after /\ (page.at = after \/ page.at \in S)
              /\ page.more \in BOOLEAN
              /\ ~page.more => exhausted /\ \A p \in S : /\ p <= page.at
                                                         /\ Cardinality({q \in S : q < p /\ v[q] = "take"}) < limit
  <2>1. page.items = kept /\ page.at = at /\ page.more = more
    BY <1>a, Zenon
  <2>2. refused = {}
    BY <1>12, <1>13, Zenon
  <2>3. page.items = {p \in S : p <= page.at /\ v[p] = "take"}
    <3>1. \A p : p \in passed <=> p \in S /\ p <= at
      BY <1>8, <1>9, <1>10, Zenon
    <3> HIDE DEF passed, at, kept
    <3> QED
      BY <1>6, <2>1, <3>1, Zenon
  <2>4. \A p \in S : p <= page.at => v[p] \in {"take", "skip"}
    BY <1>10, <2>1, <2>2, Zenon
  <2>5. page.at \in Nat /\ page.at >= after /\ (page.at = after \/ page.at \in S)
    BY <1>8, <1>9, <2>1, Zenon
  <2>6. ~page.more => exhausted /\ \A p \in S : p <= page.at /\ Cardinality(before(p)) < limit
    BY <1>9, <2>1, Zenon
  <2>7. page.more \in BOOLEAN
    BY <2>1, Zenon
  <2> QED
    BY <2>3, <2>4, <2>5, <2>6, <2>7, Zenon
<1>14. page.code \in {"limit", "unavailable"} =>
         \/ page.code = "unavailable" /\ \E p \in S : v[p] = "unavailable"
         \/ page.code = "limit" /\ S = {} /\ ~exhausted
  <2>1. CASE refused # {}
    <3>1. page.code = v[Min(refused)]
      BY <1>a, <2>1, Zenon
    <3>2. refused \in SUBSET Nat
      BY Zenon
    <3>3. Min(refused) \in S
      BY <2>1, <3>2, MinOf, Zenon
    <3> QED
      BY <3>1, <3>3, Zenon DEF Verdicts
  <2>2. CASE refused = {}
    <3>1. page.code = IF more /\ at = after THEN "limit" ELSE "ok"
      BY <1>a, <2>2, Zenon
    <3>2. page.code \in {"limit", "unavailable"} => page.code = "limit" /\ more /\ at = after
      BY <3>1, Zenon
    <3>3. at = after => S = {}
      BY <1>11, <2>2, Zenon
    <3>4. S = {} /\ more => ~exhausted
      BY <1>8, Zenon
    <3> QED
      BY <3>2, <3>3, <3>4, Zenon
  <2> QED
    BY <2>1, <2>2, Zenon
<1> QED
  BY <1>13, <1>14, Zenon DEF PageIs

------------------------------------------------------------------------------
(* The changes *)

\* The rows of the changes, from 1 to the head.
LEMMA HeadIs ==
  ASSUME Types
  PROVE  head \in Nat /\ \A r \in 1 .. head : changes[r] \in Item /\ changes[r].conv \in Conv
<1>1. head \in Nat /\ \A r \in 1 .. head : changes[r] \in Item
  BY DEF Types, head
<1> QED
  BY <1>1 DEF Item

\* The last revision of a conversation up to a fence.
LEMMA LatestIs ==
  ASSUME NEW c, NEW fence \in Nat
  PROVE  /\ Latest(c, fence) \in 0 .. fence
         /\ Latest(c, fence) # 0 => changes[Latest(c, fence)].conv = c
         /\ \A r \in 1 .. fence : changes[r].conv = c => r <= Latest(c, fence)
<1> DEFINE S == {0} \cup {r \in 1 .. fence : changes[r].conv = c}
<1>1. S \in SUBSET Nat /\ S # {} /\ \A r \in S : r <= fence
  OBVIOUS
<1>2. Max(S) \in S /\ \A r \in S : r <= Max(S)
  BY <1>1, MaxOf, Zenon
<1>3. Latest(c, fence) = Max(S)
  BY Zenon DEF Latest
<1>4. PICK m \in S : m = Latest(c, fence) /\ \A r \in S : r <= m
  BY <1>2, <1>3, Zenon
<1>5. m \in 0 .. fence /\ (m # 0 => changes[m].conv = c)
  BY <1>4
<1>6. \A r \in 1 .. fence : changes[r].conv = c => r <= m
  BY <1>4
<1> QED
  BY <1>4, <1>5, <1>6, Zenon

\* A revision of a conversation after which it has none is its last.
LEMMA LatestAt ==
  ASSUME NEW c, NEW fence \in Nat, NEW r \in 1 .. fence, changes[r].conv = c,
         \A q \in 1 .. fence : changes[q].conv = c => q <= r
  PROVE  Latest(c, fence) = r
<1>1. PICK m : m = Latest(c, fence)
  BY Zenon
<1>2. m \in 0 .. fence /\ (m # 0 => changes[m].conv = c) /\ r <= m
  BY <1>1, LatestIs, Zenon
<1> QED
  BY <1>1, <1>2

\* What Verdict says of a revision: an upsert is served to members, and is never unavailable.
LEMMA VerdictIs ==
  ASSUME Types, NEW c, NEW r \in 1 .. head, Upsert(r), changes[r].conv = c
  PROVE  /\ Verdict(c, r) \in {"take", "not_ready", "expired"}
         /\ Verdict(c, r) = "take" => c \in members
<1>1. head \in Nat
  BY HeadIs
<1>2. PICK m : m = Latest(c, head)
  BY Zenon
<1>3. m \in 0 .. head /\ r <= m
  BY <1>1, <1>2, LatestIs, Zenon
<1>4. ~Upsert(m) => m > r
  BY <1>3
<1> QED
  BY <1>2, <1>4, Zenon DEF Verdict

\* A page of a bootstrap serves exactly the visible conversations of its range, all to a member,
\* and the last page has no more of them after it.
LEMMA DirectoryPage ==
  ASSUME Types, NEW t, Token(t), t.kind = "bootstrap",
         NEW page \in DirectoryPages(t.at, t.end, t.fence, t.limit)
  PROVE  /\ page.code = "ok" =>
              /\ page.items \in SUBSET {c \in Conv : c \in members /\ Upsert(Latest(c, t.fence))}
              /\ \A c \in Conv : t.at < c /\ c <= page.at /\ Upsert(Latest(c, t.fence)) => c \in page.items
              /\ page.at \in Nat /\ page.at >= t.at /\ page.at <= t.end
              /\ page.more \in BOOLEAN
              /\ ~page.more => \A c \in Conv : t.at < c /\ Upsert(Latest(c, t.fence)) => c <= page.at
         /\ page.code \notin {"limit", "unavailable"}
<1> DEFINE K == {c \in Keys : t.at < c /\ c <= t.end}
           scanned == FirstOf(K, ScanBudget)
<1>1. head \in Nat /\ \A r \in 1 .. head : changes[r].conv \in Conv
  BY HeadIs
<1>2. /\ t.fence \in Nat /\ t.fence <= head /\ t.at \in Nat /\ t.end \in Nat /\ t.at <= t.end
      /\ t.limit \in Nat \ {0} /\ \A r \in 1 .. t.fence : changes[r].conv <= t.end
  BY <1>1 DEF Token
<1>3. K \in SUBSET Conv /\ K \in SUBSET Nat /\ IsFiniteSet(K) /\ ScanBudget \in Nat \ {0}
  <2>1. K \in SUBSET Conv
    BY <1>1, Zenon DEF Keys
  <2>2. Conv \in SUBSET Nat
    BY DEF Conv
  <2>3. K \in SUBSET Nat /\ \A c \in K : c <= t.end
    BY <2>1, <2>2, Zenon
  <2>4. IsFiniteSet(K)
    BY <1>2, <2>3, FS_BoundedSetOfNaturals, Zenon
  <2> QED
    BY <2>1, <2>3, <2>4, SyncAssumption
<1>4. scanned \in SUBSET K
  BY Zenon DEF FirstOf
<1>5. PICK v : v = [c \in scanned |-> DirectoryVerdict(c, t.fence)]
  BY Zenon
<1>6. PICK x \in BOOLEAN : x = (Cardinality(DOMAIN v) < ScanBudget \/ t.end \in DOMAIN v)
  BY Zenon
<1>7. page = Assemble(v, t.at, t.limit, x) /\ DOMAIN v = scanned
  BY <1>5, <1>6, Zenon DEF DirectoryPages
<1>8. ASSUME NEW c \in Conv, Upsert(Latest(c, t.fence))
      PROVE  /\ Latest(c, t.fence) \in 1 .. head /\ changes[Latest(c, t.fence)].conv = c
             /\ c \in Keys /\ c <= t.end
             /\ Verdict(c, Latest(c, t.fence)) \in {"take", "not_ready", "expired"}
             /\ Verdict(c, Latest(c, t.fence)) = "take" => c \in members
  <2>1. PICK m : m = Latest(c, t.fence)
    BY Zenon
  <2>2. m \in 0 .. t.fence /\ m # 0 /\ changes[m].conv = c
    BY <1>2, <1>8, <2>1, LatestIs, Zenon DEF Upsert
  <2>3. m \in 1 .. head /\ m \in 1 .. t.fence
    BY <1>1, <1>2, <2>2
  <2>4. c \in Keys /\ c <= t.end
    BY <1>2, <2>2, <2>3, Zenon DEF Keys
  <2>5. Verdict(c, m) \in {"take", "not_ready", "expired"} /\ (Verdict(c, m) = "take" => c \in members)
    BY <1>8, <2>1, <2>2, <2>3, VerdictIs, Zenon
  <2> QED
    BY <2>1, <2>2, <2>3, <2>4, <2>5, Zenon
<1>9. ASSUME NEW c \in scanned
      PROVE  /\ c \in Conv /\ t.at < c /\ c <= t.end
             /\ v[c] \in Verdicts /\ v[c] # "unavailable"
             /\ v[c] = "take" => c \in members /\ Upsert(Latest(c, t.fence))
             /\ v[c] = "skip" => ~Upsert(Latest(c, t.fence))
  <2>1. c \in Conv /\ t.at < c /\ c <= t.end
    BY <1>3, <1>4, Zenon
  <2>2. v[c] = IF Upsert(Latest(c, t.fence)) THEN Verdict(c, Latest(c, t.fence)) ELSE "skip"
    BY <1>5, Zenon DEF DirectoryVerdict
  <2> QED
    BY <1>8, <2>1, <2>2, Zenon DEF Verdicts
<1>10. v \in [scanned -> Verdicts]
  BY <1>5, <1>9, Zenon
<1>11. scanned \in SUBSET Nat
  BY <1>3, <1>4, Zenon
<1> HIDE DEF scanned
<1>12. PageIs(page, scanned, v, t.at, t.limit, x)
  <2>1. \A p \in scanned : t.at < p /\ p <= t.end
    BY <1>9, Zenon
  <2> QED
    BY <1>2, <1>7, <1>10, <1>11, <2>1, AssembledPage, Zenon
<1>13. \A c, p \in K : p \in scanned /\ c <= p => c \in scanned
  BY <1>3, FirstClosed, Zenon DEF scanned
<1>14. x => \/ scanned = K
            \/ t.end \in scanned
  <2>1. Cardinality(scanned) < ScanBudget => scanned = K
    BY <1>3, FirstAll, Zenon DEF scanned
  <2> QED
    BY <1>6, <1>7, <2>1, Zenon
<1>15. ~x => scanned # {}
  <2>1. scanned = {} => Cardinality(scanned) = 0
    BY FS_EmptySet, Zenon
  <2>2. 0 < ScanBudget
    BY <1>3
  <2> QED
    BY <1>6, <1>7, <2>1, <2>2, Zenon
<1>16. page.code \notin {"limit", "unavailable"}
  BY <1>9, <1>12, <1>15, Zenon DEF PageIs
<1>17. ASSUME page.code = "ok", NEW c \in Conv, t.at < c, c <= page.at, Upsert(Latest(c, t.fence))
       PROVE  c \in page.items
  <2>1. c \in K
    BY <1>8, <1>17, Zenon
  <2>2. page.at # t.at
    <3>1. c \in Nat /\ page.at \in Nat /\ t.at \in Nat
      BY <1>2, <1>3, <1>12, <1>17, <2>1, Zenon DEF PageIs
    <3> QED
      BY <1>17, <3>1
  <2>3. c \in scanned
    BY <1>4, <1>12, <1>13, <1>17, <2>1, <2>2, Zenon DEF PageIs
  <2> QED
    BY <1>9, <1>12, <1>17, <2>3, Zenon DEF PageIs
<1>18. ASSUME page.code = "ok", ~page.more, NEW c \in Conv, t.at < c, Upsert(Latest(c, t.fence))
       PROVE  c <= page.at
  <2>1. c \in K
    BY <1>8, <1>18, Zenon
  <2>2. t.end \in scanned => c \in scanned
    BY <1>4, <1>13, <2>1, Zenon
  <2> QED
    BY <1>12, <1>14, <1>18, <2>1, <2>2, Zenon DEF PageIs
<1>19. page.code = "ok" => page.at <= t.end
  BY <1>2, <1>9, <1>12, Zenon DEF PageIs
<1>20. page.code = "ok" => page.items \in SUBSET {c \in Conv : c \in members /\ Upsert(Latest(c, t.fence))}
  BY <1>9, <1>12, Zenon DEF PageIs
<1> QED
  BY <1>12, <1>16, <1>17, <1>18, <1>19, <1>20, Zenon DEF PageIs

\* A page of a delta serves all changes of its range, the upserts to members; the last one reaches
\* the fence.
LEMMA DeltaPage ==
  ASSUME Types, NEW t, Token(t), t.kind = "delta", NEW page \in DeltaPages(t.at, t.fence, t.limit)
  PROVE  /\ page.code = "ok" =>
              /\ page.at \in Nat /\ page.at >= t.at /\ page.at <= t.fence
              /\ page.items = t.at + 1 .. page.at
              /\ \A r \in page.items : Upsert(r) => changes[r].conv \in members
              /\ page.more \in BOOLEAN
              /\ ~page.more => page.at = t.fence
         /\ page.code \notin {"limit", "unavailable"}
<1>1. head \in Nat
  BY HeadIs
<1>2. PICK a \in Nat, f \in Nat, n \in Nat \ {0} :
        a = t.at /\ f = t.fence /\ n = t.limit /\ a <= f /\ f <= head
  <2>1. t.at \in Nat /\ t.fence \in Nat /\ t.limit \in Nat \ {0} /\ t.at <= t.fence /\ t.fence <= head
    BY <1>1 DEF Token
  <2> QED
    BY <2>1, Zenon
<1>3. PICK S : S = FirstOf(a + 1 .. f, n + 1)
  BY Zenon
<1>4. S = {r \in a + 1 .. f : r <= a + n + 1}
  <2>1. PICK k \in Nat : k = n + 1
    BY <1>2
  <2>2. S = {r \in a + 1 .. f : r <= a + k}
    BY <1>2, <1>3, <2>1, FirstRows
  <2> QED
    BY <1>2, <2>1, <2>2
<1>5. PICK v : v = [r \in S |-> DeltaVerdict(r)]
  BY Zenon
<1>6. page = Assemble(v, a, n, TRUE)
  BY <1>2, <1>3, <1>5, Zenon DEF DeltaPages
<1>7. S \in SUBSET Nat /\ \A r \in S : a < r /\ r <= f /\ r \in 1 .. head
  BY <1>1, <1>2, <1>4
<1>8. ASSUME NEW r \in S
      PROVE  /\ v[r] \in Verdicts /\ v[r] # "unavailable" /\ v[r] # "skip"
             /\ v[r] = "take" /\ Upsert(r) => changes[r].conv \in members
  <2>1. v[r] = IF Upsert(r) THEN Verdict(changes[r].conv, r) ELSE "take"
    BY <1>5, Zenon DEF DeltaVerdict
  <2>2. Upsert(r) => /\ Verdict(changes[r].conv, r) \in {"take", "not_ready", "expired"}
                     /\ Verdict(changes[r].conv, r) = "take" => changes[r].conv \in members
    BY <1>7, VerdictIs, Zenon
  <2> QED
    BY <2>1, <2>2, Zenon DEF Verdicts
<1>9. v \in [S -> Verdicts]
  BY <1>5, <1>8, Zenon
<1>10. PageIs(page, S, v, a, n, TRUE)
  BY <1>2, <1>6, <1>7, <1>9, AssembledPage, Zenon
<1>11. page.code \notin {"limit", "unavailable"}
  BY <1>8, <1>10, Zenon DEF PageIs
<1>12. ASSUME page.code = "ok"
       PROVE  /\ page.at \in Nat /\ page.at >= a /\ page.at <= f
              /\ page.items = a + 1 .. page.at
              /\ \A r \in page.items : Upsert(r) => changes[r].conv \in members
              /\ page.more \in BOOLEAN
              /\ ~page.more => page.at = f
  <2>1. PICK at : at = page.at
    BY Zenon
  <2>2. /\ at \in Nat /\ at >= a /\ (at = a \/ at \in S) /\ page.more \in BOOLEAN
        /\ page.items = {p \in S : p <= at /\ v[p] = "take"}
        /\ \A p \in S : p <= at => v[p] \in {"take", "skip"}
    BY <1>10, <1>12, <2>1, Zenon DEF PageIs
  <2>3. \A p \in S : p <= at => v[p] = "take"
    BY <1>8, <2>2, Zenon
  <2>4. at <= f
    BY <1>2, <1>7, <2>2
  <2>5. page.items = {p \in S : p <= at}
    BY <2>2, <2>3, Zenon
  <2>6. {p \in S : p <= at} = a + 1 .. at
    BY <1>2, <1>4, <2>2
  <2>7. \A r \in page.items : Upsert(r) => changes[r].conv \in members
    BY <1>8, <2>3, <2>5, Zenon
  <2>8. ASSUME ~page.more PROVE at = f
    <3>1. /\ \A p \in S : p <= at
          /\ \A p \in S : Cardinality({q \in S : q < p /\ v[q] = "take"}) < n
      BY <1>10, <1>12, <2>1, <2>8, Zenon DEF PageIs
    <3>2. CASE f <= a + n + 1
      <4>1. f = a \/ f \in S
        BY <1>2, <1>4, <3>2
      <4> QED
        BY <1>2, <2>2, <2>4, <3>1, <4>1
    <3>3. CASE f > a + n + 1
      <4>1. PICK p \in S : p = a + n + 1
        BY <1>2, <1>4, <3>3
      <4>2. {q \in S : q < p /\ v[q] = "take"} = {q \in S : q < p}
        BY <2>3, <3>1, Zenon
      <4>3. {q \in S : q < p} = a + 1 .. a + n
        BY <1>2, <1>4, <3>3, <4>1
      <4>4. PICK d \in Int, e \in Int : d = a + 1 /\ e = a + n
        BY <1>2
      <4>5. Cardinality(d .. e) = IF d > e THEN 0 ELSE e - d + 1
        BY <4>4, FS_Interval
      <4>6. Cardinality(a + 1 .. a + n) = n
        <5>1. (IF d > e THEN 0 ELSE e - d + 1) = n
          BY <1>2, <4>4
        <5>2. Cardinality(d .. e) = n
          BY <4>5, <5>1, Zenon
        <5> QED
          BY <4>4, <5>2, Zenon
      <4>7. n < n
        BY <3>1, <4>1, <4>2, <4>3, <4>6, Zenon
      <4> QED
        BY <1>2, <4>7
    <3> QED
      BY <1>2, <3>2, <3>3
  <2> QED
    BY <2>1, <2>2, <2>4, <2>5, <2>6, <2>7, <2>8, Zenon
<1> QED
  BY <1>2, <1>11, <1>12, Zenon

\* The consumer keeps the greatest of the revisions it has and gets.
LEMMA MergeIs ==
  ASSUME NEW old \in [Conv -> Nat], NEW b \in Nat, NEW R \in SUBSET (1 .. b), NEW c \in Conv
  PROVE  /\ Merge(old, R)[c] = old[c] \/ (Merge(old, R)[c] \in R /\ changes[Merge(old, R)[c]].conv = c)
         /\ Merge(old, R)[c] \in Nat /\ Merge(old, R)[c] >= old[c]
         /\ \A r \in R : changes[r].conv = c => r <= Merge(old, R)[c]
<1> DEFINE S == {old[c]} \cup {r \in R : changes[r].conv = c}
<1>1. old[c] \in Nat
  OBVIOUS
<1>2. S \in SUBSET Nat /\ S # {} /\ old[c] + b \in Nat /\ \A y \in S : y <= old[c] + b
  <2>1. \A r \in R : r \in Nat /\ r <= old[c] + b
    BY <1>1
  <2>2. old[c] <= old[c] + b /\ old[c] + b \in Nat
    BY <1>1
  <2> QED
    BY <1>1, <2>1, <2>2, Zenon
<1>3. Max(S) \in S /\ \A y \in S : y <= Max(S)
  BY <1>2, MaxOf, Zenon
<1>4. Merge(old, R)[c] = Max(S)
  BY Zenon DEF Merge
<1>5. PICK m \in S : m = Merge(old, R)[c] /\ \A y \in S : y <= m
  BY <1>3, <1>4, Zenon
<1>6. m \in Nat /\ m >= old[c] /\ (m = old[c] \/ (m \in R /\ changes[m].conv = c))
  <2>1. m = old[c] \/ (m \in R /\ changes[m].conv = c)
    BY <1>5, Zenon
  <2>2. old[c] <= m
    BY <1>5, Zenon
  <2> QED
    BY <1>1, <2>1, <2>2
<1>7. \A r \in R : changes[r].conv = c => r <= m
  BY <1>5, Zenon
<1> QED
  BY <1>5, <1>6, <1>7, Zenon

------------------------------------------------------------------------------
(* Writers *)

\* The rows are never altered: what a cursor is, and what a client knows, does not depend on the
\* rows that are added.
LEMMA Unaltered ==
  ASSUME Types, head' \in Nat, head <= head', \A r \in 1 .. head : changes'[r] = changes[r],
         NEW V \in [Conv -> 0 .. head], NEW k, NEW p, Token(k), Token(p), NEW c \in Conv,
         Knows(V, k, c), Applied(V, p, k, c)
  PROVE  Token(k)' /\ Token(p)' /\ Knows(V, k, c)' /\ Applied(V, p, k, c)'
<1>1. head \in Nat
  BY HeadIs
<1>2. \A f \in 0 .. head : Latest(c, f)' = Latest(c, f)
  <2> SUFFICES ASSUME NEW f \in 0 .. head PROVE Latest(c, f)' = Latest(c, f)
    BY Zenon
  <2>1. \A r \in 1 .. f : changes'[r] = changes[r]
    BY <1>1
  <2>2. {r \in 1 .. f : changes'[r].conv = c} = {r \in 1 .. f : changes[r].conv = c}
    BY <2>1, Zenon
  <2> QED
    BY <2>2, Zenon DEF Latest
<1>3. \A r \in 0 .. head : Upsert(r)' <=> Upsert(r)
  <2> SUFFICES ASSUME NEW r \in 0 .. head PROVE Upsert(r)' <=> Upsert(r)
    BY Zenon
  <2>1. r = 0 \/ changes'[r] = changes[r]
    BY <1>1
  <2> QED
    BY <2>1, Zenon DEF Upsert
<1>4. ASSUME NEW t, Token(t) PROVE Token(t)' /\ t.fence \in 0 .. head /\ t.at \in Nat
  <2>1. t.fence \in 0 .. head /\ t.at \in Nat
    BY <1>4, Zenon DEF Token
  <2>2. t.fence \in 0 .. head' /\ \A r \in 1 .. t.fence : changes'[r] = changes[r]
    BY <1>1, <2>1
  <2> QED
    BY <1>4, <2>1, <2>2, Zenon DEF Token
<1>5. \A f \in 0 .. head : Latest(c, f) \in 0 .. head
  <2> SUFFICES ASSUME NEW f \in 0 .. head PROVE Latest(c, f) \in 0 .. head
    BY Zenon
  <2>1. f \in Nat /\ f <= head
    BY <1>1
  <2>2. Latest(c, f) \in 0 .. f
    BY <2>1, LatestIs, Zenon
  <2> QED
    BY <1>1, <2>1, <2>2
<1>6. \A f \in 0 .. head : Exact(V, c, f)' <=> Exact(V, c, f)
  <2> SUFFICES ASSUME NEW f \in 0 .. head PROVE Exact(V, c, f)' <=> Exact(V, c, f)
    BY Zenon
  <2>1. Latest(c, f)' = Latest(c, f) /\ (Upsert(Latest(c, f))' <=> Upsert(Latest(c, f)))
    BY <1>2, <1>3, <1>5, Zenon
  <2>2. Upsert(V[c])' <=> Upsert(V[c])
    BY <1>3, Zenon
  <2> QED
    BY <2>1, <2>2, Zenon DEF Exact
<1>7. k.kind = "delta" => k.at \in 0 .. head
  BY <1>1 DEF Token
<1>8. Knows(V, k, c)'
  <2>1. V[c] # 0 => changes'[V[c]].conv = c
    <3>1. V[c] = 0 \/ V[c] \in 1 .. head
      BY <1>1
    <3> QED
      BY <3>1, Zenon DEF Knows
  <2>2. k.fence \in 0 .. head
    BY <1>4, Zenon
  <2>3. /\ Latest(c, k.fence)' = Latest(c, k.fence)
        /\ Upsert(Latest(c, k.fence))' <=> Upsert(Latest(c, k.fence))
        /\ Upsert(V[c])' <=> Upsert(V[c])
    BY <1>2, <1>3, <1>5, <2>2, Zenon
  <2> QED
    BY <1>6, <1>7, <2>1, <2>2, <2>3, Zenon DEF Knows
<1>9. Applied(V, p, k, c)'
  <2> SUFFICES ASSUME p.kind = "delta", NEW r \in p.at + 1 .. Position(k), changes'[r].conv = c PROVE r <= V[c]
    BY Zenon DEF Applied, Position
  <2>1. Position(k) \in 0 .. head /\ p.at \in Nat
    BY <1>4, <1>7, Zenon DEF Position
  <2>2. r \in 1 .. head
    BY <1>1, <2>1
  <2> QED
    BY <2>2, Zenon DEF Applied
<1> QED
  BY <1>4, <1>8, <1>9, Zenon

\* A step that leaves the client alone and alters no row.
LEMMA WriterKeeps ==
  ASSUME IndInv, Types', UNCHANGED client, head <= head', \A r \in 1 .. head : changes'[r] = changes[r]
  PROVE  IndInv'
<1>1. Types /\ Token(cursor) /\ Token(previous) /\ view \in [Conv -> 0 .. head]
  BY Zenon DEF IndInv, Types
<1>2. head' \in Nat
  BY DEF Types, head
<1>3. view' = view /\ cursor' = cursor /\ previous' = previous /\ begun' = begun
  BY Zenon DEF client
<1>4. ASSUME NEW c \in Conv
      PROVE  /\ Token(cursor)' /\ Token(previous)'
             /\ Knows(view, cursor, c)' /\ Applied(view, previous, cursor, c)'
  <2>1. PICK V, k, p : V = view /\ k = cursor /\ p = previous
    BY Zenon
  <2>2. Token(k)' /\ Token(p)' /\ Knows(V, k, c)' /\ Applied(V, p, k, c)'
    BY <1>1, <1>2, <2>1, Unaltered, Zenon DEF IndInv
  <2> QED
    BY <1>3, <2>1, <2>2, Zenon DEF Token, Knows, Applied, Exact, Position
<1>5. RoundOK'
  BY <1>3, Zenon DEF IndInv, RoundOK, RoundsBounded, Position
<1>6. 1 \in Conv
  BY SyncAssumption DEF Conv
<1> QED
  BY <1>4, <1>5, <1>6, Zenon DEF IndInv

\* A batch adds at most one row.
LEMMA BatchKeeps ==
  ASSUME IndInv, NEW c \in Conv, Batch(c)
  PROVE  IndInv'
<1>1. /\ members \subseteq Conv /\ last \in [Conv -> 0 .. MaxMessages]
      /\ changes \in Seq(Item) /\ head <= MaxSequence
  BY DEF IndInv, Types
<1>2. members' \subseteq Conv /\ last' \in [Conv -> 0 .. MaxMessages]
  BY <1>1, SyncAssumption DEF Batch, Mutate
<1>3. \/ changes' = changes
      \/ \E item \in Item : head < MaxSequence /\ changes' = Append(changes, item)
  <2>1. PICK kind \in {"upsert", "remove"} : Record(c, kind)
    BY Zenon DEF Batch
  <2>2. [conv |-> c, kind |-> kind, seq |-> IF kind = "upsert" THEN last'[c] ELSE 0] \in Item
    BY <1>2, <2>1, SyncAssumption DEF Item
  <2> QED
    BY <2>1, <2>2, Zenon DEF Record
<1>4. /\ changes' \in Seq(Item) /\ head' <= MaxSequence /\ head <= head'
      /\ \A r \in 1 .. head : changes'[r] = changes[r]
  <2>1. CASE changes' = changes
    BY <1>1, <2>1 DEF head
  <2>2. ASSUME NEW item \in Item, head < MaxSequence, changes' = Append(changes, item)
        PROVE  /\ changes' \in Seq(Item) /\ head' <= MaxSequence /\ head <= head'
               /\ \A r \in 1 .. head : changes'[r] = changes[r]
    <3>1. MaxSequence \in Nat
      BY SyncAssumption
    <3> QED
      BY <1>1, <2>2, <3>1 DEF head
  <2> QED
    BY <1>3, <2>1, <2>2, Zenon
<1>5. head \in Nat /\ head' \in Nat
  BY <1>1, <1>4 DEF head
<1>6. floor \in 0 .. head' /\ view \in [Conv -> 0 .. head']
  <2>1. 0 .. head \subseteq 0 .. head'
    BY <1>4, <1>5
  <2>2. floor \in 0 .. head /\ view \in [Conv -> 0 .. head]
    BY Zenon DEF IndInv, Types
  <2> QED
    BY <2>1, <2>2
<1>7. UNCHANGED <<ready, epoch, floor, now, client>>
  BY Zenon DEF Batch
<1>8. Types'
  BY <1>2, <1>4, <1>6, <1>7, Zenon DEF IndInv, Types, client
<1> QED
  BY <1>4, <1>7, <1>8, WriterKeeps, Zenon

\* The other steps that the client does not take leave the rows alone.
LEMMA WriteKeeps ==
  ASSUME IndInv, Write \/ Tick
  PROVE  IndInv'
<1>1. head \in Nat
  BY HeadIs, Zenon DEF IndInv
<1>2. ASSUME changes' = changes, UNCHANGED client, Types' PROVE IndInv'
  <2>1. head' = head /\ head <= head'
    BY <1>1, <1>2 DEF head
  <2> QED
    BY <1>2, <2>1, WriterKeeps, Zenon
<1>3. CASE InitializeEmptyAccount
  <2>1. Types'
    BY <1>3, Zenon DEF IndInv, Types, InitializeEmptyAccount, source, client, head
  <2> QED
    BY <1>2, <1>3, <2>1, Zenon DEF InitializeEmptyAccount
<1>4. CASE AdvanceFloor
  <2>1. floor' \in 0 .. head /\ epoch' \in 1 .. MaxEpoch
    BY <1>1, <1>4, SyncAssumption DEF IndInv, Types, AdvanceFloor
  <2>2. Types'
    BY <1>4, <2>1, Zenon DEF IndInv, Types, AdvanceFloor, source, client, head
  <2> QED
    BY <1>2, <1>4, <2>2, Zenon DEF AdvanceFloor
<1>5. CASE Tick
  <2>1. now' \in 0 .. MaxTime /\ begun \in 0 .. now'
    BY <1>5, SyncAssumption DEF IndInv, Types, Tick
  <2>2. Types'
    BY <1>5, <2>1, Zenon DEF IndInv, Types, Tick, source, client, head
  <2> QED
    BY <1>2, <1>5, <2>2, Zenon DEF Tick
<1>6. ASSUME NEW c \in Conv, Bypass(c) PROVE IndInv'
  <2>1. members' \subseteq Conv /\ last' \in [Conv -> 0 .. MaxMessages]
    <3>1. MaxMessages \in Nat
      BY SyncAssumption
    <3>2. Mutate(c) /\ members \subseteq Conv /\ last \in [Conv -> 0 .. MaxMessages]
      BY <1>6, Zenon DEF IndInv, Types, Bypass
    <3> QED
      BY <3>1, <3>2 DEF Mutate
  <2>2. Types'
    BY <1>6, <2>1, Zenon DEF IndInv, Types, Bypass, client, head
  <2> QED
    BY <1>2, <1>6, <2>2, Zenon DEF Bypass
<1> QED
  BY <1>3, <1>4, <1>5, <1>6, BatchKeeps, Zenon DEF Write

------------------------------------------------------------------------------
(* Pages that are taken *)

\* What the consumer has after a page is a revision or nothing.
LEMMA MergeView ==
  ASSUME Types, NEW B \in [Conv -> 0 .. head], NEW R \in SUBSET (1 .. head)
  PROVE  Merge(B, R) \in [Conv -> 0 .. head]
<1>1. head \in Nat
  BY HeadIs
<1>2. B \in [Conv -> Nat]
  BY <1>1
<1>3. \A c \in Conv : B[c] \in 0 .. head
  OBVIOUS
<1>4. \A r \in R : r \in 0 .. head
  BY <1>1
<1>5. \A c \in Conv : Merge(B, R)[c] \in 0 .. head
  <2> SUFFICES ASSUME NEW c \in Conv PROVE Merge(B, R)[c] \in 0 .. head
    BY Zenon
  <2>1. Merge(B, R)[c] = B[c] \/ Merge(B, R)[c] \in R
    BY <1>1, <1>2, MergeIs, Zenon
  <2> QED
    BY <1>3, <1>4, <2>1, Zenon
<1>6. PICK V : V = Merge(B, R)
  BY Zenon
<1>7. V = [c \in Conv |-> V[c]]
  BY <1>6, Zenon DEF Merge
<1>8. V \in [Conv -> 0 .. head]
  BY <1>5, <1>6, <1>7, Zenon
<1> QED
  BY <1>6, <1>8, Zenon

\* A page of a bootstrap gives a conversation its state at the fence.
LEMMA DirectoryMerge ==
  ASSUME Types, NEW t, Token(t), t.kind = "bootstrap",
         NEW page \in DirectoryPages(t.at, t.end, t.fence, t.limit), page.code = "ok",
         NEW B \in [Conv -> 0 .. head], NEW V, V = Merge(B, Revisions(t, page.items))
  PROVE  /\ V \in [Conv -> 0 .. head]
         /\ \A c \in Conv :
              /\ V[c] = B[c] \/ (V[c] = Latest(c, t.fence) /\ Upsert(V[c]) /\ c \in members)
              /\ V[c] >= B[c] /\ (c \in page.items => V[c] >= Latest(c, t.fence))
<1>1. head \in Nat /\ t.fence \in Nat /\ t.fence <= head
  BY HeadIs DEF Token
<1>2. page.items \in SUBSET {c \in Conv : c \in members /\ Upsert(Latest(c, t.fence))}
  BY DirectoryPage, Zenon
<1>3. PICK R : R = {Latest(c, t.fence) : c \in page.items}
  BY Zenon
<1>4. ASSUME NEW x \in page.items PROVE Latest(x, t.fence) \in 1 .. head /\ changes[Latest(x, t.fence)].conv = x
  <2>1. PICK m : m = Latest(x, t.fence)
    BY Zenon
  <2>2. m \in 0 .. t.fence /\ m # 0 /\ changes[m].conv = x
    BY <1>1, <1>2, <2>1, LatestIs, Zenon DEF Upsert
  <2>3. m \in 1 .. head
    BY <1>1, <2>2
  <2> QED
    BY <2>1, <2>2, <2>3, Zenon
<1>5. R \in SUBSET (1 .. head)
  BY <1>3, <1>4, Zenon
<1>6. V = Merge(B, R)
  BY <1>3, Zenon DEF Revisions
<1>7. V \in [Conv -> 0 .. head]
  BY <1>5, <1>6, MergeView, Zenon
<1>8. B \in [Conv -> Nat]
  BY <1>1
<1>9. ASSUME NEW c \in Conv
      PROVE  /\ V[c] = B[c] \/ (V[c] = Latest(c, t.fence) /\ Upsert(V[c]) /\ c \in members)
             /\ V[c] >= B[c] /\ (c \in page.items => V[c] >= Latest(c, t.fence))
  <2>1. /\ V[c] = B[c] \/ (V[c] \in R /\ changes[V[c]].conv = c)
        /\ V[c] >= B[c]
        /\ \A r \in R : changes[r].conv = c => r <= V[c]
    <3>1. /\ Merge(B, R)[c] = B[c] \/ (Merge(B, R)[c] \in R /\ changes[Merge(B, R)[c]].conv = c)
          /\ Merge(B, R)[c] >= B[c]
          /\ \A r \in R : changes[r].conv = c => r <= Merge(B, R)[c]
      BY <1>1, <1>5, <1>8, MergeIs, Zenon
    <3> QED
      BY <1>6, <3>1
  <2>2. ASSUME V[c] \in R, changes[V[c]].conv = c
        PROVE  V[c] = Latest(c, t.fence) /\ Upsert(V[c]) /\ c \in members
    <3>1. PICK x \in page.items : V[c] = Latest(x, t.fence)
      BY <1>3, <2>2, Zenon
    <3>2. x = c
      BY <1>4, <2>2, <3>1, Zenon
    <3> QED
      BY <1>2, <3>1, <3>2, Zenon
  <2>3. ASSUME c \in page.items PROVE V[c] >= Latest(c, t.fence)
    <3>1. PICK m \in R : m = Latest(c, t.fence)
      BY <1>3, <2>3, Zenon
    <3>2. m <= V[c]
      BY <1>4, <2>1, <2>3, <3>1, Zenon
    <3>3. m \in Nat /\ V[c] \in Nat
      BY <1>1, <1>5, <1>7
    <3>4. V[c] >= m
      BY <3>2, <3>3
    <3> QED
      BY <3>1, <3>4, Zenon
  <2> QED
    BY <2>1, <2>2, <2>3, Zenon
<1> QED
  BY <1>7, <1>9, Zenon

\* What a client knows after a page of a bootstrap: all conversations up to its key, and after
\* the last page all of them.
LEMMA BootstrapTaken ==
  ASSUME Types, NEW t, Token(t), t.kind = "bootstrap",
         NEW page \in DirectoryPages(t.at, t.end, t.fence, t.limit), page.code = "ok",
         NEW B \in [Conv -> 0 .. head], \A x \in Conv : Knows(B, t, x),
         NEW V, V = Merge(B, Revisions(t, page.items)), NEW k, k = NextCursor(t, page), NEW c \in Conv
  PROVE  Knows(V, k, c)
<1>1. head \in Nat /\ t.fence \in Nat /\ t.fence <= head /\ t.at \in Nat /\ c \in Nat
  BY HeadIs DEF Token, Conv
<1>2. /\ t.at < c /\ c <= page.at /\ Upsert(Latest(c, t.fence)) => c \in page.items
      /\ page.at \in Nat /\ page.more \in BOOLEAN
      /\ ~page.more /\ t.at < c /\ Upsert(Latest(c, t.fence)) => c <= page.at
  BY DirectoryPage, Zenon
<1>3. /\ V \in [Conv -> 0 .. head]
      /\ V[c] = B[c] \/ (V[c] = Latest(c, t.fence) /\ Upsert(V[c]))
      /\ c \in page.items => V[c] >= Latest(c, t.fence)
  BY DirectoryMerge, Zenon
<1>4. PICK m : m = Latest(c, t.fence)
  BY Zenon
<1>5. m \in 0 .. t.fence /\ (m # 0 => changes[m].conv = c)
  BY <1>1, <1>4, LatestIs, Zenon
<1>6. /\ B[c] # 0 => B[c] = m /\ Upsert(B[c])
      /\ c <= t.at /\ Upsert(m) => B[c] = m
  BY <1>4, Zenon DEF Knows
<1>7. V[c] # 0 => V[c] = m /\ Upsert(V[c])
  BY <1>3, <1>4, <1>6, Zenon
<1>8. V[c] \in 0 .. t.fence /\ V[c] \in Nat
  BY <1>1, <1>3, <1>5, <1>7
<1>9. V[c] <= t.fence
  BY <1>1, <1>8
<1>10. Upsert(m) /\ (c <= t.at \/ c <= page.at) => V[c] = m
  <2>1. Upsert(m) => m # 0
    BY Zenon DEF Upsert
  <2>2. ASSUME Upsert(m), c <= t.at PROVE V[c] = m
    BY <1>3, <1>4, <1>6, <2>2, Zenon
  <2>3. ASSUME Upsert(m), t.at < c, c <= page.at PROVE V[c] = m
    <3>1. V[c] >= m
      BY <1>2, <1>3, <1>4, <2>3, Zenon
    <3>2. V[c] # 0
      BY <1>1, <1>5, <1>8, <2>1, <2>3, <3>1
    <3> QED
      BY <1>7, <3>2
  <2>4. c <= t.at \/ t.at < c
    BY <1>1
  <2> QED
    BY <2>2, <2>3, <2>4, Zenon
<1>11. CASE page.more
  <2>1. k.kind = "bootstrap" /\ k.fence = t.fence /\ k.at = page.at
    BY <1>11 DEF NextCursor, Token, CursorType
  <2> QED
    BY <1>4, <1>5, <1>7, <1>9, <1>10, <2>1 DEF Knows
<1>12. CASE ~page.more
  <2>1. k.kind = "checkpoint" /\ k.fence = t.fence
    BY <1>12 DEF NextCursor, NoCursor
  <2>2. Upsert(m) => V[c] = m
    <3>1. c <= t.at \/ t.at < c
      BY <1>1
    <3> QED
      BY <1>2, <1>4, <1>10, <1>12, <3>1, Zenon
  <2>3. ~Upsert(m) => ~Upsert(V[c])
    BY <1>7, Zenon DEF Upsert
  <2>4. Exact(V, c, k.fence)
    BY <1>4, <2>1, <2>2, <2>3, Zenon DEF Exact
  <2> QED
    BY <1>5, <1>7, <1>9, <2>1, <2>4 DEF Knows
<1> QED
  BY <1>2, <1>11, <1>12, Zenon

\* A page of a bootstrap that is read again gives a conversation the state it already has.
LEMMA BootstrapAgain ==
  ASSUME Types, NEW t, Token(t), t.kind = "bootstrap",
         NEW page \in DirectoryPages(t.at, t.end, t.fence, t.limit), page.code = "ok",
         NEW B \in [Conv -> 0 .. head], NEW V, V = Merge(B, Revisions(t, page.items)),
         NEW k, Token(k), k.fence = t.fence, k.kind \in {"bootstrap", "checkpoint"},
         NEW c \in Conv, Knows(B, k, c)
  PROVE  Knows(V, k, c)
<1>1. t.fence \in Nat
  BY DEF Token, CursorType
<1>2. PICK m : m = Latest(c, t.fence)
  BY Zenon
<1>3. m \in 0 .. t.fence /\ (m # 0 => changes[m].conv = c)
  BY <1>1, <1>2, LatestIs, Zenon
<1>4. m <= t.fence
  BY <1>1, <1>3
<1>5. V[c] = B[c] \/ (V[c] = m /\ Upsert(m))
  BY <1>2, DirectoryMerge, Zenon
<1>6. CASE V[c] = m /\ Upsert(m)
  <2>1. m # 0
    BY <1>6, Zenon DEF Upsert
  <2>2. Exact(V, c, k.fence)
    BY <1>2, <1>6, Zenon DEF Exact
  <2> QED
    BY <1>2, <1>3, <1>4, <1>6, <2>1, <2>2, Zenon DEF Knows
<1> QED
  BY <1>5, <1>6, Zenon DEF Knows, Exact

\* The rows of a range have been applied to what a client had of a conversation.
Merged(V, B, c, a, e) ==
  /\ V[c] = B[c] \/ (V[c] \in a + 1 .. e /\ changes[V[c]].conv = c)
  /\ V[c] >= B[c]
  /\ \A r \in a + 1 .. e : changes[r].conv = c => r <= V[c]

\* A page of a delta applies the rows of its range.
LEMMA DeltaMerge ==
  ASSUME Types, NEW t, Token(t), t.kind = "delta",
         NEW page \in DeltaPages(t.at, t.fence, t.limit), page.code = "ok",
         NEW B \in [Conv -> 0 .. head], NEW V, V = Merge(B, Revisions(t, page.items))
  PROVE  /\ V \in [Conv -> 0 .. head]
         /\ \A c \in Conv :
              /\ Merged(V, B, c, t.at, page.at)
              /\ V[c] # B[c] /\ Upsert(V[c]) => c \in members
<1>1. head \in Nat /\ t.fence \in Nat /\ t.fence <= head /\ t.at \in Nat
  BY HeadIs DEF Token
<1>2. /\ page.at \in Nat /\ page.at >= t.at /\ page.at <= t.fence
      /\ page.items = t.at + 1 .. page.at
      /\ \A r \in page.items : Upsert(r) => changes[r].conv \in members
  BY DeltaPage, Zenon
<1>3. PICK R : R = page.items
  BY Zenon
<1>4. R \in SUBSET (1 .. head)
  BY <1>1, <1>2, <1>3
<1>5. V = Merge(B, R)
  BY <1>3, Zenon DEF Revisions
<1>6. V \in [Conv -> 0 .. head]
  BY <1>4, <1>5, MergeView, Zenon
<1>7. B \in [Conv -> Nat]
  BY <1>1
<1>8. ASSUME NEW c \in Conv
      PROVE  /\ V[c] = B[c] \/ (V[c] \in R /\ changes[V[c]].conv = c)
             /\ V[c] >= B[c]
             /\ \A r \in R : changes[r].conv = c => r <= V[c]
  <2>1. /\ Merge(B, R)[c] = B[c] \/ (Merge(B, R)[c] \in R /\ changes[Merge(B, R)[c]].conv = c)
        /\ Merge(B, R)[c] >= B[c]
        /\ \A r \in R : changes[r].conv = c => r <= Merge(B, R)[c]
    BY <1>1, <1>4, <1>7, MergeIs
  <2> QED
    BY <1>5, <2>1
<1>9. \A r \in R : Upsert(r) => changes[r].conv \in members
  BY <1>2, <1>3, Zenon
<1>10. ASSUME NEW c \in Conv, V[c] # B[c], Upsert(V[c]) PROVE c \in members
  <2>1. V[c] \in R /\ changes[V[c]].conv = c
    BY <1>8, <1>10, Zenon
  <2>2. changes[V[c]].conv \in members
    BY <1>9, <1>10, <2>1, Zenon
  <2> QED
    BY <2>1, <2>2, Zenon
<1>11. R = t.at + 1 .. page.at
  BY <1>2, <1>3, Zenon
<1>12. \A c \in Conv : Merged(V, B, c, t.at, page.at)
  BY <1>8, <1>11 DEF Merged
<1> QED
  BY <1>6, <1>10, <1>12, Zenon

\* What a client knows after a page of a delta: each conversation is in its state at the end
\* of the page, or a page that was read twice has brought a younger one.
LEMMA DeltaTaken ==
  ASSUME Types, NEW t, Token(t), t.kind = "delta",
         NEW page \in DeltaPages(t.at, t.fence, t.limit), page.code = "ok",
         NEW B \in [Conv -> 0 .. head], NEW V, V = Merge(B, Revisions(t, page.items)),
         NEW k, k = NextCursor(t, page), NEW c \in Conv, Knows(B, t, c)
  PROVE  Knows(V, k, c) /\ Applied(V, t, k, c)
<1>1. PICK a \in Nat, f \in Nat, e \in Nat :
        a = t.at /\ f = t.fence /\ e = page.at /\ a <= e /\ e <= f /\ f <= head /\ head \in Nat
  <2>1. head \in Nat /\ t.fence \in Nat /\ t.fence <= head /\ t.at \in Nat
    BY HeadIs DEF Token
  <2>2. page.at \in Nat /\ page.at >= t.at /\ page.at <= t.fence
    BY DeltaPage, Zenon
  <2> QED
    BY <2>1, <2>2
<1>2. page.more \in BOOLEAN /\ (~page.more => e = f)
  BY <1>1, DeltaPage, Zenon
<1>3. PICK b, v : b = B[c] /\ v = V[c]
  BY Zenon
<1>4. /\ V \in [Conv -> 0 .. head]
      /\ v = b \/ (v \in a + 1 .. e /\ changes[v].conv = c)
      /\ v >= b
      /\ \A r \in a + 1 .. e : changes[r].conv = c => r <= v
  <2>1. /\ V \in [Conv -> 0 .. head]
        /\ Merged(V, B, c, t.at, page.at)
    BY DeltaMerge, Zenon
  <2> QED
    BY <1>1, <1>3, <2>1 DEF Merged
<1>5. v \in Nat /\ b \in Nat
  BY <1>1, <1>3, <1>4
<1>6. /\ b # 0 => changes[b].conv = c
      /\ b <= f
      /\ b > a \/ Exact(B, c, a)
  BY <1>1, <1>3, Zenon DEF Knows
<1>7. v # 0 => changes[v].conv = c
  BY <1>4, <1>6, Zenon
<1>8. v <= f
  BY <1>1, <1>4, <1>5, <1>6
<1>9. v > e \/ Exact(V, c, e)
  <2> SUFFICES ASSUME v <= e PROVE Exact(V, c, e)
    BY <1>1, <1>5
  <2>1. CASE v > a
    <3>1. v \in 1 .. e /\ v # 0
      BY <1>1, <1>5, <2>1
    <3>2. ASSUME NEW q \in 1 .. e, changes[q].conv = c PROVE q <= v
      <4>1. q \in a + 1 .. e \/ q <= a
        BY <1>1
      <4>2. q <= a => q <= v
        BY <1>1, <1>5, <2>1
      <4> QED
        BY <1>4, <3>2, <4>1, <4>2, Zenon
    <3>3. Latest(c, e) = v
      BY <1>1, <1>7, <3>1, <3>2, LatestAt
    <3> QED
      BY <1>3, <3>3, Zenon DEF Exact
  <2>2. CASE v <= a
    <3>1. v = b /\ ~(b > a)
      BY <1>1, <1>4, <1>5, <2>2
    <3>2. \A r \in a + 1 .. e : changes[r].conv # c
      <4> SUFFICES ASSUME NEW r \in a + 1 .. e, changes[r].conv = c PROVE FALSE
        BY Zenon
      <4>1. r <= v
        BY <1>4, Zenon
      <4> QED
        BY <1>1, <1>5, <2>2, <4>1
    <3>3. {r \in 1 .. e : changes[r].conv = c} = {r \in 1 .. a : changes[r].conv = c}
      <4>1. \A r \in 1 .. e : r \in 1 .. a \/ r \in a + 1 .. e
        BY <1>1
      <4>2. \A r \in 1 .. a : r \in 1 .. e
        BY <1>1
      <4> QED
        BY <3>2, <4>1, <4>2, Zenon
    <3>4. Latest(c, e) = Latest(c, a)
      BY <3>3, Zenon DEF Latest
    <3> QED
      BY <1>3, <1>6, <3>1, <3>4, Zenon DEF Exact
  <2> QED
    BY <1>1, <1>5, <2>1, <2>2
<1>10. CASE page.more
  <2>1. k.kind = "delta" /\ k.fence = f /\ k.at = e
    BY <1>1, <1>10 DEF NextCursor, Token, CursorType
  <2> QED
    BY <1>1, <1>3, <1>4, <1>7, <1>8, <1>9, <2>1 DEF Knows, Applied, Position
<1>11. CASE ~page.more
  <2>1. k.kind = "checkpoint" /\ k.fence = f /\ e = f
    BY <1>1, <1>2, <1>11 DEF NextCursor, NoCursor
  <2>2. Exact(V, c, f)
    BY <1>1, <1>5, <1>8, <1>9, <2>1
  <2> QED
    BY <1>1, <1>3, <1>4, <1>7, <1>8, <2>1, <2>2 DEF Knows, Applied, Position
<1> QED
  BY <1>2, <1>10, <1>11, Zenon

\* A page of a delta that is read again brings only rows beyond the cursor.
LEMMA DeltaAgain ==
  ASSUME Types, NEW t, Token(t), t.kind = "delta",
         NEW page \in DeltaPages(t.at, t.fence, t.limit), page.code = "ok",
         NEW B \in [Conv -> 0 .. head], NEW V, V = Merge(B, Revisions(t, page.items)),
         NEW k, Token(k), k.fence = t.fence, k.kind \in {"delta", "checkpoint"},
         NEW c \in Conv, Knows(B, k, c), Applied(B, t, k, c)
  PROVE  Knows(V, k, c) /\ Applied(V, t, k, c)
<1>1. PICK a \in Nat, f \in Nat, e \in Nat, p \in Nat :
        a = t.at /\ f = t.fence /\ e = page.at /\ p = Position(k) /\ e <= f
  <2>1. t.fence \in Nat /\ t.at \in Nat /\ Position(k) \in Nat
    BY DEF Token, CursorType, Position
  <2>2. page.at \in Nat /\ page.at <= t.fence
    BY DeltaPage, Zenon
  <2> QED
    BY <2>1, <2>2
<1>2. PICK b, v : b = B[c] /\ v = V[c]
  BY Zenon
<1>3. /\ V \in [Conv -> 0 .. head]
      /\ v = b \/ (v \in a + 1 .. e /\ changes[v].conv = c)
      /\ v >= b
  <2>1. /\ V \in [Conv -> 0 .. head]
        /\ Merged(V, B, c, t.at, page.at)
    BY DeltaMerge, Zenon
  <2> QED
    BY <1>1, <1>2, <2>1 DEF Merged
<1>4. v \in Nat /\ b \in Nat
  BY <1>2, <1>3, HeadIs
<1>5. \A r \in a + 1 .. p : changes[r].conv = c => r <= b
  BY <1>1, <1>2, Zenon DEF Applied
<1>6. \A r \in a + 1 .. p : changes[r].conv = c => r <= v
  <2>1. \A r \in a + 1 .. p : r <= b => r <= v
    BY <1>1, <1>3, <1>4
  <2> QED
    BY <1>5, <2>1, Zenon
<1>7. Applied(V, t, k, c)
  BY <1>1, <1>2, <1>6, Zenon DEF Applied
<1>8. CASE v = b
  BY <1>2, <1>7, <1>8, Zenon DEF Knows, Exact
<1>9. CASE v # b
  <2>1. v \in a + 1 .. e /\ changes[v].conv = c
    BY <1>3, <1>9, Zenon
  <2>2. v > p
    <3>1. v \in a + 1 .. p => v <= b
      BY <1>5, <2>1, Zenon
    <3> QED
      BY <1>1, <1>3, <1>4, <1>9, <2>1, <3>1
  <2>3. v <= f /\ f > p
    BY <1>1, <2>1, <2>2
  <2>4. k.kind = "delta" /\ p = k.at
    BY <1>1, <2>3 DEF Position
  <2> QED
    BY <1>1, <1>2, <1>7, <2>1, <2>2, <2>3, <2>4 DEF Knows
<1> QED
  BY <1>8, <1>9, Zenon

------------------------------------------------------------------------------
(* The steps of the client *)

\* The cursor after a page: it keeps the fence and the expiry of the round, or ends the round.
LEMMA NextToken ==
  ASSUME Types, NEW t, Token(t), t.kind \in {"bootstrap", "delta"}, NEW page \in PagesOf(t), page.code = "ok",
         NEW k, k = NextCursor(t, page)
  PROVE  /\ Token(k) /\ k.fence = t.fence /\ k.kind \in {t.kind, "checkpoint"}
         /\ t.kind = "delta" => t.at <= Position(k)
         /\ k.kind \in {"bootstrap", "delta"} => k.expires = t.expires
         /\ k.kind = "checkpoint" => k.expires = now + CheckpointLife
<1>1. now \in Nat /\ CheckpointLife \in Nat /\ t \in CursorType
  BY SyncAssumption DEF Types, Token
<1>2. /\ page.at \in Nat /\ page.at >= t.at
      /\ t.kind = "bootstrap" => page.at <= t.end
      /\ t.kind = "delta" => page.at <= t.fence
  <2>1. CASE t.kind = "bootstrap"
    <3>1. page \in DirectoryPages(t.at, t.end, t.fence, t.limit)
      BY <2>1, Zenon DEF PagesOf
    <3>2. page.at \in Nat /\ page.at >= t.at /\ page.at <= t.end
      BY <2>1, <3>1, DirectoryPage, Zenon
    <3> QED
      BY <2>1, <3>2
  <2>2. CASE t.kind = "delta"
    <3>1. page \in DeltaPages(t.at, t.fence, t.limit)
      BY <2>2 DEF PagesOf
    <3>2. page.at \in Nat /\ page.at >= t.at /\ page.at <= t.fence
      BY <2>2, <3>1, DeltaPage, Zenon
    <3> QED
      BY <2>2, <3>2
  <2> QED
    BY <2>1, <2>2, Zenon
<1>3. CASE page.more
  <2>1. /\ k \in CursorType /\ k.kind = t.kind /\ k.fence = t.fence /\ k.at = page.at /\ k.end = t.end
        /\ k.limit = t.limit /\ k.expires = t.expires
    BY <1>1, <1>2, <1>3 DEF NextCursor, CursorType
  <2>2. Token(k)
    BY <1>2, <2>1, Zenon DEF Token
  <2> QED
    BY <1>1, <1>2, <2>1, <2>2 DEF Position, CursorType
<1>4. CASE ~page.more
  <2>1. /\ k \in CursorType /\ k.kind = "checkpoint" /\ k.fence = t.fence /\ k.at = 0 /\ k.end = 0
        /\ k.limit = t.limit /\ k.expires = now + CheckpointLife
    <3>1. k = [kind |-> "checkpoint", epoch |-> t.epoch, fence |-> t.fence, at |-> 0, end |-> 0,
               limit |-> t.limit, expires |-> now + CheckpointLife]
      BY <1>4, Zenon DEF NextCursor, NoCursor
    <3> QED
      BY <1>1, <3>1 DEF CursorType
  <2>2. Token(k)
    BY <1>1, <2>1 DEF Token, CursorType
  <2> QED
    BY <1>1, <2>1, <2>2 DEF Position, Token
<1> QED
  BY <1>3, <1>4

\* NoCursor is a cursor with which a client has followed nothing.
LEMMA NoToken ==
  ASSUME Types
  PROVE  Token(NoCursor) /\ NoCursor.kind = "none"
BY HeadIs DEF Token, NoCursor, CursorType

\* The read steps leave the projection alone.
LEMMA ServedFrame ==
  ASSUME Types, Served
  PROVE  /\ head' = head /\ now' = now /\ changes' = changes /\ head \in Nat
         /\ view' \in [Conv -> 0 .. head] /\ begun' \in 0 .. now => Types'
<1>1. head' = head
  BY Zenon DEF Served, head
<1> QED
  BY <1>1, HeadIs, Zenon DEF Types, Served, source

\* What holds of a client of the projection as it is holds after a read step.
LEMMA ClientPrimed ==
  ASSUME Types, Served, NEW V \in [Conv -> 0 .. head], NEW k, NEW p, Token(k), Token(p),
         \A c \in Conv : Knows(V, k, c) /\ Applied(V, p, k, c),
         view' = V, cursor' = k, previous' = p
  PROVE  Token(cursor)' /\ Token(previous)' /\ \A c \in Conv : (Knows(view, cursor, c) /\ Applied(view, previous, cursor, c))'
<1>1. head' = head /\ changes' = changes /\ head \in Nat
  BY ServedFrame, Zenon
<1>2. head' \in Nat /\ head <= head'
  BY <1>1
<1>3. \A c \in Conv : Token(k)' /\ Token(p)' /\ Knows(V, k, c)' /\ Applied(V, p, k, c)'
  BY <1>1, <1>2, Unaltered, Zenon
<1>4. 1 \in Conv
  BY SyncAssumption DEF Conv
<1>5. Token(cursor)' /\ Token(previous)'
  BY <1>3, <1>4, Zenon DEF Token
<1>6. ASSUME NEW c \in Conv PROVE Knows(view, cursor, c)' /\ Applied(view, previous, cursor, c)'
  <2>1. Knows(V, k, c)' /\ Applied(V, p, k, c)'
    BY <1>3, Zenon
  <2> QED
    BY <2>1, Zenon DEF Knows, Applied, Exact, Position
<1> QED
  BY <1>5, <1>6, Zenon

\* A page that is taken.
LEMMA PageTaken ==
  ASSUME IndInv, Served, NEW t, Token(t), t.kind \in {"bootstrap", "delta"},
         NEW page \in PagesOf(t), page.code = "ok",
         NEW B \in [Conv -> 0 .. head], \A x \in Conv : Knows(B, t, x),
         view' = Merge(B, Revisions(t, page.items)), cursor' = NextCursor(t, page),
         previous' \in {t, NoCursor}, begun' \in 0 .. now, t.expires = begun' + RoundLife, now < t.expires
  PROVE  IndInv'
<1>1. Types
  BY Zenon DEF IndInv
<1>2. PICK V, k, p : V = view' /\ k = cursor' /\ p = previous'
  BY Zenon
<1>3. /\ Token(k) /\ k.fence = t.fence /\ k.kind \in {t.kind, "checkpoint"}
      /\ t.kind = "delta" => t.at <= Position(k)
      /\ k.kind \in {"bootstrap", "delta"} => k.expires = t.expires
      /\ k.kind = "checkpoint" => k.expires = now + CheckpointLife
  BY <1>1, <1>2, NextToken, Zenon
<1>4. V \in [Conv -> 0 .. head] /\ \A c \in Conv : Knows(V, k, c) /\ Applied(V, t, k, c)
  <2>1. CASE t.kind = "bootstrap"
    <3>1. page \in DirectoryPages(t.at, t.end, t.fence, t.limit)
      BY <2>1, Zenon DEF PagesOf
    <3>2. V \in [Conv -> 0 .. head]
      BY <1>1, <1>2, <2>1, <3>1, DirectoryMerge, Zenon
    <3>3. \A c \in Conv : Knows(V, k, c)
      BY <1>1, <1>2, <2>1, <3>1, BootstrapTaken, Zenon
    <3>4. \A c \in Conv : Applied(V, t, k, c)
      BY <2>1 DEF Applied
    <3> QED
      BY <3>2, <3>3, <3>4, Zenon
  <2>2. CASE t.kind = "delta"
    <3>1. page \in DeltaPages(t.at, t.fence, t.limit)
      BY <2>2 DEF PagesOf
    <3>2. V \in [Conv -> 0 .. head]
      BY <1>1, <1>2, <2>2, <3>1, DeltaMerge, Zenon
    <3>3. \A c \in Conv : Knows(V, k, c) /\ Applied(V, t, k, c)
      <4>1. V = Merge(B, Revisions(t, page.items)) /\ k = NextCursor(t, page)
        BY <1>2, Zenon
      <4> QED
        BY <1>1, <2>2, <3>1, <4>1, DeltaTaken
    <3> QED
      BY <3>2, <3>3, Zenon
  <2> QED
    BY <2>1, <2>2, Zenon
<1>5. p = t \/ p = NoCursor
  BY <1>2, Zenon
<1>6. Token(p) /\ \A c \in Conv : Applied(V, p, k, c)
  <2>1. p = NoCursor => \A c \in Conv : Applied(V, p, k, c)
    BY DEF Applied, NoCursor
  <2> QED
    BY <1>1, <1>4, <1>5, <2>1, NoToken, Zenon
<1>7. Token(cursor)' /\ Token(previous)' /\ \A c \in Conv : (Knows(view, cursor, c) /\ Applied(view, previous, cursor, c))'
  BY <1>1, <1>2, <1>3, <1>4, <1>6, ClientPrimed, Zenon
<1>8. Types' /\ now' = now
  BY <1>1, <1>2, <1>4, ServedFrame, Zenon
<1>9. RoundOK'
  <2>1. p.kind # "checkpoint" /\ (p.kind # "none" => p = t)
    BY <1>5, <1>1, NoToken
  <2>2. k.kind \in {"bootstrap", "delta"} => k.expires = begun' + RoundLife
    BY <1>3, Zenon
  <2>3. k.kind = "checkpoint" => k.expires - CheckpointLife < begun' + RoundLife
    <3>1. CheckpointLife \in Nat /\ now \in Nat
      BY <1>1, SyncAssumption DEF Types
    <3>2. k.kind = "checkpoint" => k.expires = now + CheckpointLife
      BY <1>3, Zenon
    <3> QED
      BY <3>1, <3>2
  <2>4. Position(cursor)' = Position(k)
    BY <1>2, Zenon DEF Position
  <2> QED
    BY <1>2, <1>3, <2>1, <2>2, <2>3, <2>4, Zenon DEF RoundOK, RoundsBounded
<1> QED
  BY <1>7, <1>8, <1>9, Zenon DEF IndInv

\* A client that drops its cursor keeps its view.
LEMMA Dropped ==
  ASSUME IndInv, Served, cursor' = NoCursor, previous' = NoCursor, UNCHANGED <<view, begun>>
  PROVE  IndInv'
<1>1. Types
  BY Zenon DEF IndInv
<1>2. PICK V, k : V = view' /\ k = NoCursor
  BY Zenon
<1>3. V = view /\ V \in [Conv -> 0 .. head] /\ begun' \in 0 .. now
  BY <1>1, <1>2, Zenon DEF Types
<1>4. Token(k) /\ k.kind = "none"
  BY <1>1, <1>2, NoToken, Zenon
<1>5. \A c \in Conv : Knows(V, k, c) /\ Applied(V, k, k, c)
  BY <1>3, <1>4 DEF IndInv, Knows, Applied
<1>6. Token(cursor)' /\ Token(previous)' /\ \A c \in Conv : (Knows(view, cursor, c) /\ Applied(view, previous, cursor, c))'
  BY <1>1, <1>2, <1>3, <1>4, <1>5, ClientPrimed, Zenon
<1>7. Types'
  BY <1>1, <1>2, <1>3, ServedFrame, Zenon
<1>8. RoundOK'
  BY <1>2, <1>4 DEF RoundOK, RoundsBounded
<1> QED
  BY <1>6, <1>7, <1>8, Zenon DEF IndInv

\* The answer to a request of a client that knows what its cursor says.
LEMMA AnswerKeeps ==
  ASSUME IndInv, Served, NEW t, Token(t), t.kind \in {"bootstrap", "delta"}, NEW start, Answer(t, start),
         start = "no" => t = cursor,
         \A x \in Conv : Knows(IF start = "bootstrap" THEN [c \in Conv |-> 0] ELSE view, t, x),
         t.expires = (IF start = "no" THEN begun ELSE now) + RoundLife, now < t.expires
  PROVE  IndInv'
<1>1. Types
  BY Zenon DEF IndInv
<1>2. PICK page \in PagesOf(t) :
        \/ /\ page.code = "ok"
           /\ view' = Merge(IF start = "bootstrap" THEN [c \in Conv |-> 0] ELSE view, Revisions(t, page.items))
           /\ cursor' = NextCursor(t, page)
           /\ previous' = IF start = "no" THEN cursor ELSE NoCursor
           /\ begun' = IF start = "no" THEN begun ELSE now
        \/ /\ cursor' = NoCursor /\ previous' = NoCursor
           /\ UNCHANGED <<view, begun>>
        \/ UNCHANGED client
  BY Zenon DEF Answer
<1>3. CASE page.code = "ok" /\ cursor' = NextCursor(t, page)
           /\ view' = Merge(IF start = "bootstrap" THEN [c \in Conv |-> 0] ELSE view, Revisions(t, page.items))
           /\ previous' = (IF start = "no" THEN cursor ELSE NoCursor)
           /\ begun' = (IF start = "no" THEN begun ELSE now)
  <2>1. PICK B : B = IF start = "bootstrap" THEN [c \in Conv |-> 0] ELSE view
    BY Zenon
  <2>2. B \in [Conv -> 0 .. head]
    <3>1. 0 \in 0 .. head
      BY <1>1, HeadIs
    <3>2. [c \in Conv |-> 0] \in [Conv -> 0 .. head]
      BY <3>1, Zenon
    <3> QED
      BY <1>1, <2>1, <3>2, Zenon DEF Types
  <2>3. begun' \in 0 .. now /\ t.expires = begun' + RoundLife
    BY <1>1, <1>3 DEF Types
  <2>4. previous' \in {t, NoCursor}
    BY <1>3, Zenon
  <2>5. \A x \in Conv : Knows(B, t, x)
    BY <2>1, Zenon
  <2>6. view' = Merge(B, Revisions(t, page.items))
    BY <1>3, <2>1, Zenon
  <2> QED
    BY <1>3, <2>2, <2>3, <2>4, <2>5, <2>6, PageTaken, Zenon
<1>4. CASE UNCHANGED client
  <2>1. view' \in [Conv -> 0 .. head] /\ begun' \in 0 .. now
    BY <1>1, <1>4, Zenon DEF Types, client
  <2>2. Types' /\ head' = head /\ changes' = changes /\ head \in Nat
    BY <1>1, <2>1, ServedFrame, Zenon
  <2>3. head <= head'
    BY <2>2
  <2> QED
    BY <1>4, <2>2, <2>3, WriterKeeps, Zenon
<1> QED
  BY <1>2, <1>3, <1>4, Dropped, Zenon

\* The cursor a bootstrap begins with: its end is the greatest key.
LEMMA BootstrapToken ==
  ASSUME Types, NEW limit \in PageLimits
  PROVE  Token(BootstrapStart(limit))
<1>1. head \in Nat /\ \A r \in 1 .. head : changes[r].conv \in Conv
  BY HeadIs
<1>2. PICK S : S = {0} \cup Keys
  BY Zenon
<1>3. Conversations \in Nat /\ limit \in Nat \ {0} /\ now + RoundLife \in Nat /\ epoch \in Nat
  BY SyncAssumption DEF Types
<1>4. Keys \in SUBSET Conv
  BY <1>1, Zenon DEF Keys
<1>5. S \in SUBSET Nat /\ S # {} /\ \A y \in S : y <= Conversations
  BY <1>2, <1>3, <1>4 DEF Conv
<1>6. Max(S) \in S /\ \A y \in S : y <= Max(S)
  BY <1>3, <1>5, MaxOf, Zenon
<1>7. PICK m \in Nat : m = Max(S) /\ \A r \in 1 .. head : changes[r].conv <= m
  <2>1. \A r \in 1 .. head : changes[r].conv \in S
    BY <1>2, Zenon DEF Keys
  <2> QED
    BY <1>5, <1>6, <2>1, Zenon
<1>8. PICK t : t = BootstrapStart(limit)
  BY Zenon
<1>9. t = [kind |-> "bootstrap", epoch |-> epoch, fence |-> head, at |-> 0, end |-> m, limit |-> limit,
           expires |-> now + RoundLife]
  BY <1>2, <1>7, <1>8, Zenon DEF BootstrapStart
<1>10. /\ t \in CursorType /\ t.kind = "bootstrap" /\ t.fence = head /\ t.at = 0 /\ t.end = m
  BY <1>1, <1>3, <1>9 DEF CursorType
<1>11. Token(t)
  <2>1. t.fence \in 0 .. head /\ t.at <= t.end
    BY <1>1, <1>10
  <2>2. t.at \in Nat /\ t.end \in Nat /\ t.limit \in Nat \ {0} /\ t.expires \in Nat
    BY <1>10 DEF CursorType
  <2> QED
    BY <1>7, <1>10, <2>1, <2>2 DEF Token
<1> QED
  BY <1>8, <1>11, Zenon

\* The cursor a delta begins with goes on from the checkpoint.
LEMMA DeltaToken ==
  ASSUME Types, Token(cursor), NEW limit \in PageLimits
  PROVE  Token(DeltaStart(cursor, limit))
<1>1. head \in Nat
  BY HeadIs
<1>2. limit \in Nat \ {0} /\ now + RoundLife \in Nat /\ epoch \in Nat
  BY SyncAssumption DEF Types
<1>3. PICK f \in 0 .. head : f = cursor.fence
  BY Zenon DEF Token
<1>4. PICK t : t = DeltaStart(cursor, limit)
  BY Zenon
<1>5. t = [kind |-> "delta", epoch |-> epoch, fence |-> head, at |-> f, end |-> 0, limit |-> limit,
           expires |-> now + RoundLife]
  BY <1>3, <1>4, Zenon DEF DeltaStart
<1>6. t \in CursorType /\ t.kind = "delta" /\ t.fence = head /\ t.at = f /\ t.at <= t.fence
  BY <1>1, <1>2, <1>5 DEF CursorType
<1>7. Token(t)
  BY <1>1, <1>6 DEF Token, CursorType
<1> QED
  BY <1>4, <1>7, Zenon

\* A request for the page before: the view may get ahead of the cursor, and nothing is undone.
LEMMA ReplayKeeps ==
  ASSUME IndInv, Replay
  PROVE  IndInv'
<1>1. Types /\ Token(cursor) /\ Token(previous) /\ RoundOK
  BY Zenon DEF IndInv
<1>2. PICK t, k, B : t = previous /\ k = cursor /\ B = view
  BY Zenon
<1>3. /\ Served /\ t.kind \in {"bootstrap", "delta"} /\ cursor' = k /\ previous' = t /\ begun' = begun
      /\ \E page \in PagesOf(t) : page.code = "ok" /\ view' = Merge(B, Revisions(t, page.items))
  BY <1>2, Zenon DEF Replay
<1>4. PICK page \in PagesOf(t) : page.code = "ok" /\ view' = Merge(B, Revisions(t, page.items))
  BY <1>3, Zenon
<1>5. Token(t) /\ Token(k) /\ B \in [Conv -> 0 .. head] /\ begun \in 0 .. now
  BY <1>1, <1>2, Zenon DEF Types
<1>6. t.fence = k.fence /\ k.kind \in {t.kind, "checkpoint"}
  BY <1>1, <1>2, <1>3 DEF RoundOK
<1>7. PICK V : V = view'
  BY Zenon
<1>8. \A c \in Conv : Knows(B, k, c) /\ Applied(B, t, k, c)
  BY <1>2, Zenon DEF IndInv
<1>9. V \in [Conv -> 0 .. head] /\ \A c \in Conv : Knows(V, k, c) /\ Applied(V, t, k, c)
  <2>1. CASE t.kind = "bootstrap"
    <3>1. page \in DirectoryPages(t.at, t.end, t.fence, t.limit)
      BY <2>1, Zenon DEF PagesOf
    <3>2. V \in [Conv -> 0 .. head]
      BY <1>1, <1>4, <1>5, <1>7, <2>1, <3>1, DirectoryMerge, Zenon
    <3>3. \A c \in Conv : Knows(V, k, c)
      <4>1. k.fence = t.fence /\ k.kind \in {"bootstrap", "checkpoint"}
        BY <1>6, <2>1, Zenon
      <4>2. V = Merge(B, Revisions(t, page.items))
        BY <1>4, <1>7, Zenon
      <4> QED
        BY <1>1, <1>4, <1>5, <1>8, <2>1, <3>1, <4>1, <4>2, BootstrapAgain
    <3>4. \A c \in Conv : Applied(V, t, k, c)
      BY <2>1 DEF Applied
    <3> QED
      BY <3>2, <3>3, <3>4, Zenon
  <2>2. CASE t.kind = "delta"
    <3>1. page \in DeltaPages(t.at, t.fence, t.limit)
      BY <2>2 DEF PagesOf
    <3>2. V \in [Conv -> 0 .. head]
      BY <1>1, <1>4, <1>5, <1>7, <2>2, <3>1, DeltaMerge, Zenon
    <3>3. \A c \in Conv : Knows(V, k, c) /\ Applied(V, t, k, c)
      <4>1. k.fence = t.fence /\ k.kind \in {"delta", "checkpoint"}
        BY <1>6, <2>2, Zenon
      <4>2. V = Merge(B, Revisions(t, page.items))
        BY <1>4, <1>7, Zenon
      <4> QED
        BY <1>1, <1>4, <1>5, <1>8, <2>2, <3>1, <4>1, <4>2, DeltaAgain
    <3> QED
      BY <3>2, <3>3, Zenon
  <2> QED
    BY <1>3, <2>1, <2>2, Zenon
<1>10. Token(cursor)' /\ Token(previous)' /\ \A c \in Conv : (Knows(view, cursor, c) /\ Applied(view, previous, cursor, c))'
  BY <1>1, <1>3, <1>5, <1>7, <1>9, ClientPrimed, Zenon
<1>11. Types'
  BY <1>1, <1>3, <1>5, <1>7, <1>9, ServedFrame, Zenon
<1>12. RoundOK'
  BY <1>1, <1>2, <1>3, Zenon DEF RoundOK, RoundsBounded, Position
<1> QED
  BY <1>10, <1>11, <1>12, Zenon DEF IndInv

\* The first page of a bootstrap: the view starts over.
LEMMA BeginBootstrapKeeps ==
  ASSUME IndInv, BeginBootstrap
  PROVE  IndInv'
<1>1. Types
  BY Zenon DEF IndInv
<1>2. PICK limit \in PageLimits : Answer(BootstrapStart(limit), "bootstrap")
  BY Zenon DEF BeginBootstrap
<1>3. PICK t : t = BootstrapStart(limit)
  BY Zenon
<1>4. t.kind = "bootstrap" /\ t.fence = head /\ t.at = 0 /\ t.expires = now + RoundLife
  BY <1>3 DEF BootstrapStart
<1>5. Token(t)
  BY <1>1, <1>3, BootstrapToken, Zenon
<1>6. \A x \in Conv : Knows([c \in Conv |-> 0], t, x)
  <2>1. \A x \in Conv : ~(x <= 0) /\ 0 <= head
    BY <1>1, HeadIs, SyncAssumption DEF Conv
  <2> QED
    BY <1>4, <2>1 DEF Knows
<1>7. now < t.expires
  BY <1>1, <1>4, SyncAssumption DEF Types
<1>8. Served
  BY Zenon DEF BeginBootstrap
<1> QED
  BY <1>2, <1>3, <1>4, <1>5, <1>6, <1>7, <1>8, AnswerKeeps

\* The first page of a delta goes on from what the checkpoint says.
LEMMA BeginDeltaKeeps ==
  ASSUME IndInv, BeginDelta
  PROVE  IndInv'
<1>1. Types /\ Token(cursor)
  BY Zenon DEF IndInv
<1>2. PICK limit \in PageLimits : Answer(DeltaStart(cursor, limit), "delta")
  BY Zenon DEF BeginDelta
<1>3. PICK t : t = DeltaStart(cursor, limit)
  BY Zenon
<1>4. t.kind = "delta" /\ t.fence = head /\ t.at = cursor.fence /\ t.expires = now + RoundLife
  BY <1>3 DEF DeltaStart
<1>5. Token(t)
  BY <1>1, <1>3, DeltaToken, Zenon
<1>6. ASSUME NEW x \in Conv PROVE Knows(view, t, x)
  <2>1. Knows(view, cursor, x) /\ cursor.kind = "checkpoint"
    BY Zenon DEF IndInv, BeginDelta
  <2>2. (view[x] # 0 => changes[view[x]].conv = x) /\ Exact(view, x, cursor.fence)
    BY <2>1, Zenon DEF Knows
  <2>3. view[x] <= head
    BY <1>1, HeadIs DEF Types
  <2> QED
    BY <1>4, <2>2, <2>3 DEF Knows
<1>7. now < t.expires
  BY <1>1, <1>4, SyncAssumption DEF Types
<1>8. Served
  BY Zenon DEF BeginDelta
<1> QED
  BY <1>2, <1>3, <1>4, <1>5, <1>6, <1>7, <1>8, AnswerKeeps

\* A round goes on within its lifetime.
LEMMA ContinueKeeps ==
  ASSUME IndInv, ContinueBootstrap \/ ContinueDelta
  PROVE  IndInv'
<1>1. PICK t : t = cursor
  BY Zenon
<1>2. Served /\ t.kind \in {"bootstrap", "delta"} /\ now < t.expires /\ Answer(t, "no")
  BY <1>1, Zenon DEF ContinueBootstrap, ContinueDelta, Current
<1>3. Token(t) /\ t.expires = begun + RoundLife /\ \A x \in Conv : Knows(view, t, x)
  BY <1>1, <1>2, Zenon DEF IndInv, RoundOK
<1> QED
  BY <1>1, <1>2, <1>3, AnswerKeeps

\* The invariant of the rounds holds in every reachable state.
THEOREM Inductive == Spec => []IndInv
<1>1. Init => IndInv
  <2> SUFFICES ASSUME Init PROVE IndInv
    OBVIOUS
  <2>1. head = 0 /\ changes \in Seq(Item)
    BY DEF Init, head
  <2>2. Types
    <3>1. /\ 0 \in 0 .. MaxMessages /\ 0 <= MaxSequence /\ 1 \in 1 .. MaxEpoch /\ 0 \in 0 .. MaxTime
          /\ 0 \in 0 .. 0
      BY SyncAssumption
    <3>2. last \in [Conv -> 0 .. MaxMessages] /\ view \in [Conv -> 0 .. 0]
      BY <3>1, Zenon DEF Init
    <3>3. /\ ready \in BOOLEAN /\ members \subseteq Conv /\ epoch = 1 /\ floor = 0 /\ now = 0 /\ begun = 0
      BY Zenon DEF Init
    <3> QED
      BY <2>1, <3>1, <3>2, <3>3, Zenon DEF Types
  <2>3. Token(cursor) /\ Token(previous) /\ cursor.kind = "none" /\ previous.kind = "none"
    BY <2>2, NoToken, Zenon DEF Init
  <2>4. RoundOK
    BY <2>3 DEF RoundOK, RoundsBounded
  <2>5. \A c \in Conv : view[c] = 0
    BY DEF Init
  <2>6. \A c \in Conv : Knows(view, cursor, c) /\ Applied(view, previous, cursor, c)
    BY <2>3, <2>5 DEF Knows, Applied
  <2> QED
    BY <2>2, <2>3, <2>4, <2>6, Zenon DEF IndInv
<1>2. IndInv /\ [Next]_vars => IndInv'
  <2> SUFFICES ASSUME IndInv, [Next]_vars PROVE IndInv'
    OBVIOUS
  <2>1. CASE UNCHANGED vars
    <3>1. Types /\ UNCHANGED client /\ changes' = changes
      BY <2>1, Zenon DEF IndInv, vars
    <3>2. Types' /\ head' = head
      BY <2>1, <3>1, Zenon DEF Types, vars, source, client, head
    <3>3. head <= head'
      BY <3>1, <3>2, HeadIs
    <3> QED
      BY <3>1, <3>2, <3>3, WriterKeeps, Zenon
  <2>2. CASE Expired
    BY <2>2, Dropped, Zenon DEF Expired
  <2> QED
    BY <2>1, <2>2, WriteKeeps, BeginBootstrapKeeps, BeginDeltaKeeps, ContinueKeeps, ReplayKeeps, Zenon
       DEF Next, Read
<1> QED
  BY <1>1, <1>2, PTL DEF Spec

------------------------------------------------------------------------------
(* Theorems *)

\* A client with a checkpoint knows exactly what was visible at its fence: the directory scan,
\* the delta rounds, pages that are read again and writers between two pages lose, repeat and
\* invent nothing, for every number of conversations, page limit, budget and capacity
\* (assemble..., renderAssembledPage).
THEOREM CheckpointIsComplete == Spec => []CheckpointComplete
<1>1. IndInv => CheckpointComplete
  BY Zenon DEF IndInv, Knows, Exact, CheckpointComplete
<1> QED
  BY <1>1, Inductive, PTL

\* A page request is never answered with the size limit alone, nor with a code that leaves the
\* client nowhere to go.
LEMMA PagesDoAdvance ==
  ASSUME IndInv
  PROVE  PagesAdvance
<1>1. Types /\ Token(cursor) /\ Token(previous)
  BY Zenon DEF IndInv
<1>2. \A limit \in PageLimits : Token(BootstrapStart(limit))
  BY <1>1, BootstrapToken, Zenon
<1>3. SUFFICES ASSUME NEW t, Token(t), t.kind \in {"bootstrap", "delta"}, NEW page \in PagesOf(t)
               PROVE  page.code \notin {"limit", "unavailable"}
  BY <1>1, <1>2, Zenon DEF PagesAdvance
<1>4. CASE t.kind = "bootstrap"
  BY <1>1, <1>3, <1>4, DirectoryPage, Zenon DEF PagesOf
<1>5. CASE t.kind = "delta"
  <2>1. page \in DeltaPages(t.at, t.fence, t.limit)
    BY <1>5 DEF PagesOf
  <2> QED
    BY <1>1, <1>3, <1>5, <2>1, DeltaPage, Zenon
<1> QED
  BY <1>3, <1>4, <1>5, Zenon

\* Cursors stay within their bounds, a round within its lifetime, and every page of a round makes
\* progress or tells the client to start over (cursorAdvanced, roundExpires, decodeCursor).
THEOREM RoundsKeepBounds == Spec => []RoundInv
<1>1. IndInv => TypeOK
  <2> SUFFICES ASSUME IndInv PROVE TypeOK
    OBVIOUS
  <2>1. Types /\ Token(cursor)
    BY Zenon DEF IndInv
  <2>2. head \in Nat /\ \A r \in 1 .. head : changes[r] \in Item
    BY <2>1, HeadIs, Zenon
  <2>3. cursor.fence <= head /\ cursor.at <= IF cursor.kind = "delta" THEN cursor.fence ELSE cursor.end
    BY <2>1, <2>2 DEF Token
  <2> QED
    BY <2>1, <2>2, <2>3, Zenon DEF Types, TypeOK
<1>2. IndInv => RoundsBounded
  BY Zenon DEF IndInv, RoundOK
<1>3. IndInv => RoundInv
  BY <1>1, <1>2, PagesDoAdvance, Zenon DEF RoundInv
<1> QED
  BY <1>3, Inductive, PTL

\* A page gives a user only conversations of which they are a member.
LEMMA PageAuthorized ==
  ASSUME Types, NEW t, Token(t), t.kind \in {"bootstrap", "delta"}, NEW page \in PagesOf(t), page.code = "ok",
         NEW B \in [Conv -> 0 .. head], NEW V, V = Merge(B, Revisions(t, page.items)), NEW c \in Conv,
         V[c] # B[c], Upsert(V[c])
  PROVE  c \in members
<1>1. CASE t.kind = "bootstrap"
  <2>1. page \in DirectoryPages(t.at, t.end, t.fence, t.limit)
    BY <1>1, Zenon DEF PagesOf
  <2>2. V[c] = B[c] \/ (V[c] = Latest(c, t.fence) /\ Upsert(V[c]) /\ c \in members)
    BY <1>1, <2>1, DirectoryMerge
  <2> QED
    BY <2>2, Zenon
<1>2. CASE t.kind = "delta"
  <2>1. page \in DeltaPages(t.at, t.fence, t.limit)
    BY <1>2 DEF PagesOf
  <2>2. V[c] # B[c] /\ Upsert(V[c]) => c \in members
    BY <1>2, <2>1, DeltaMerge
  <2> QED
    BY <2>2, Zenon
<1> QED
  BY <1>1, <1>2, Zenon

\* The same of an answer, whatever the client had before.
LEMMA AnswerAuthorized ==
  ASSUME Types, NEW t, Token(t), t.kind \in {"bootstrap", "delta"}, NEW start, Answer(t, start),
         NEW c \in Conv, view'[c] # view[c], Upsert(view'[c])
  PROVE  c \in members
<1>1. PICK B : B = IF start = "bootstrap" THEN [x \in Conv |-> 0] ELSE view
  BY Zenon
<1>2. B \in [Conv -> 0 .. head] /\ (B[c] = view[c] \/ B[c] = 0)
  <2>1. 0 \in 0 .. head
    BY HeadIs
  <2>2. [x \in Conv |-> 0] \in [Conv -> 0 .. head]
    BY <2>1, Zenon
  <2> QED
    BY <1>1, <2>2, Zenon DEF Types
<1>3. PICK page \in PagesOf(t) : page.code = "ok" /\ view' = Merge(B, Revisions(t, page.items))
  BY <1>1, Zenon DEF Answer, client
<1>4. view'[c] # 0
  BY Zenon DEF Upsert
<1>5. view'[c] # B[c]
  BY <1>2, <1>4, Zenon
<1>6. PICK V : V = view'
  BY Zenon
<1>7. V = Merge(B, Revisions(t, page.items)) /\ V[c] # B[c] /\ Upsert(V[c])
  BY <1>3, <1>5, <1>6, Zenon
<1> QED
  BY <1>2, <1>3, <1>7, PageAuthorized

\* No step shows a user the summary of a conversation they are not a member of when the page is
\* read, however old the cursor and whatever page is asked for again (authorize).
THEOREM RemovedSeeNothing == Spec => NothingAfterRemoval
<1>1. ASSUME IndInv, [Next]_vars, NEW c \in Conv, view'[c] # view[c], Upsert(view'[c])
      PROVE  c \in members
  <2>1. Types /\ Token(cursor) /\ Token(previous)
    BY <1>1, Zenon DEF IndInv
  <2>2. view' # view
    BY <1>1, Zenon
  <2>3. CASE BeginBootstrap
    <3>1. PICK limit \in PageLimits : Answer(BootstrapStart(limit), "bootstrap")
      BY <2>3, Zenon DEF BeginBootstrap
    <3>2. BootstrapStart(limit).kind = "bootstrap"
      BY DEF BootstrapStart
    <3> QED
      BY <1>1, <2>1, <3>1, <3>2, BootstrapToken, AnswerAuthorized, Zenon
  <2>4. CASE BeginDelta
    <3>1. PICK limit \in PageLimits : Answer(DeltaStart(cursor, limit), "delta")
      BY <2>4, Zenon DEF BeginDelta
    <3>2. DeltaStart(cursor, limit).kind = "delta"
      BY DEF DeltaStart
    <3> QED
      BY <1>1, <2>1, <3>1, <3>2, DeltaToken, AnswerAuthorized, Zenon
  <2>5. CASE ContinueBootstrap \/ ContinueDelta
    BY <1>1, <2>1, <2>5, AnswerAuthorized, Zenon DEF ContinueBootstrap, ContinueDelta
  <2>6. CASE Replay
    <3>1. PICK page \in PagesOf(previous) : page.code = "ok" /\ view' = Merge(view, Revisions(previous, page.items))
      BY <2>6, Zenon DEF Replay
    <3>2. view \in [Conv -> 0 .. head] /\ previous.kind \in {"bootstrap", "delta"}
      BY <2>1, <2>6, Zenon DEF Types, Replay
    <3>3. PICK V : V = view'
      BY Zenon
    <3>4. V = Merge(view, Revisions(previous, page.items)) /\ V[c] # view[c] /\ Upsert(V[c])
      BY <1>1, <3>1, <3>3, Zenon
    <3> QED
      BY <2>1, <3>1, <3>2, <3>4, PageAuthorized
  <2>7. UNCHANGED vars \/ Write \/ Tick \/ Expired => view' = view
    BY Zenon DEF vars, client, Write, Tick, Expired, InitializeEmptyAccount, AdvanceFloor, Batch, Bypass
  <2> QED
    BY <1>1, <2>2, <2>3, <2>4, <2>5, <2>6, <2>7, Zenon DEF Next, Read
<1>2. IndInv /\ [Next]_vars
        => [\A c \in Conv : view'[c] # view[c] /\ Upsert(view'[c]) => c \in members]_vars
  BY <1>1, Zenon
<1> QED
  BY <1>2, Inductive, PTL DEF Spec, NothingAfterRemoval
===============================================================================
