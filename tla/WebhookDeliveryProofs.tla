------------------------ MODULE WebhookDeliveryProofs ------------------------
(***************************************************************************)
(* Proofs about module WebhookDelivery, for any number of workers and      *)
(* deliveries and every configuration ConfigAssumption admits.             *)
(*                                                                         *)
(* First the inductive invariant is shown to be preserved by every step of *)
(* the queue and of the workers. Then the promise of the queue: the rows   *)
(* implement AtLeastOnceDelivery, a settled row stays settled, and a       *)
(* worker that has lost its claim changes nothing.                         *)
(***************************************************************************)
EXTENDS WebhookDelivery, TLAPS

\* The lease BeginAttempt requires, and its margin over the request.
LEMMA RequiredMargin ==
  /\ Required \in Nat
  /\ Required > CommitDelay + RequestTimeout
  /\ Required < LeaseTTL
BY ConfigAssumption DEF Required

\* The initial rows satisfy the inductive invariant.
LEMMA InitIndInv == Init => IndInv
<1> SUFFICES ASSUME Init PROVE IndInv
  OBVIOUS
<1>1. TypeOK
  BY ConfigAssumption DEF Init, TypeOK, Row, Job, NoJob, Terminal, Queued
<1>2. TokenDiscipline
  BY ConfigAssumption DEF Init, TokenDiscipline, NoJob
<1>3. LeaseCovers /\ SingleFlight
  BY DEF Init, LeaseCovers, SingleFlight, InAttempt, NoJob
<1>4. TriesAgree /\ AttemptBudget /\ DeadLetterJustified
  BY DEF Init, TriesAgree, AttemptBudget, DeadLetterJustified, NoJob
<1> QED
  BY <1>1, <1>2, <1>3, <1>4 DEF IndInv

\* A number is at least itself; the proofs below cite it where only the order is needed.
LEMMA GeqItself == \A n \in Nat : n >= n
OBVIOUS

\* Steps that touch neither rows nor jobs.
LEMMA FrameIndInv ==
  ASSUME IndInv, UNCHANGED <<row, job, posts, rejected>>,
         active' \in SUBSET Destination, lock' \in Worker \cup {NoWorker},
         phase' \in [Worker -> {"stopped", "cancel", "claim", "drain"}],
         accepted' \in SUBSET Delivery, faults' \in 0 .. MaxFaults
  PROVE  IndInv'
BY DEF IndInv, TypeOK, TokenDiscipline, LeaseCovers, TriesAgree, SingleFlight,
       AttemptBudget, DeadLetterJustified

\* Time passes: lease and countdown of an attempt go down together.
LEMMA TickIndInv ==
  ASSUME IndInv, Tick
  PROVE  IndInv'
<1> USE ConfigAssumption
<1>1. ASSUME NEW d \in Delivery
      PROVE  /\ row'[d] \in Row
             /\ row'[d].status = row[d].status
             /\ row'[d].attempts = row[d].attempts
             /\ row'[d].token = row[d].token
             /\ row'[d].lease = Down(row[d].lease)
             /\ row[d].lease \in Nat
  <2>1. row[d] \in Row /\ row'[d] = RowTick(row[d])
    BY DEF Tick, IndInv, TypeOK
  <2> QED
    BY <2>1 DEF RowTick, Row, Down
<1>2. ASSUME NEW w \in Worker, NEW d \in Delivery
      PROVE  /\ job'[w][d] \in Job
             /\ job'[w][d].pc = job[w][d].pc
             /\ job'[w][d].token = job[w][d].token
             /\ job'[w][d].tries = job[w][d].tries
             /\ job'[w][d].outcome = job[w][d].outcome
             /\ job'[w][d].left = Down(job[w][d].left)
             /\ job[w][d].left \in Nat
  <2>1. /\ job[w][d] \in Job
        /\ job'[w][d] = Moved(job[w][d], job[w][d].pc, Down(job[w][d].left), job[w][d].outcome)
    BY DEF Tick, IndInv, TypeOK
  <2> QED
    BY <2>1 DEF Moved, Job, Down
<1>3. TypeOK'
  <2>1. row' \in [Delivery -> Row]
    BY <1>1 DEF Tick
  <2>2. job' \in [Worker -> [Delivery -> Job]]
    <3>1. job' = [w \in Worker |-> [d \in Delivery |-> job'[w][d]]]
      BY DEF Tick
    <3> QED
      BY <1>2, <3>1
  <2> QED
    BY <2>1, <2>2 DEF Tick, IndInv, TypeOK
<1>4. TokenDiscipline'
  BY <1>1, <1>2 DEF IndInv, TokenDiscipline
<1>5. LeaseCovers'
  <2> SUFFICES ASSUME NEW w \in Worker, NEW d \in Delivery,
                      InAttempt(job[w][d]), row[d].status # "cancelled"
               PROVE  /\ row[d].status = "leased"
                      /\ row[d].token = job[w][d].token
                      /\ Down(row[d].lease) > Down(job[w][d].left)
                           + (IF job[w][d].pc = "begun" THEN RequestTimeout ELSE 0)
    BY <1>1, <1>2 DEF LeaseCovers, InAttempt
  <2>1. job[w][d].left > 0
    BY DEF Tick
  <2>2. row[d].lease \in Nat /\ job[w][d].left \in Nat
    BY <1>1, <1>2, SMTT(30)
  <2> QED
    BY <2>1, <2>2 DEF IndInv, LeaseCovers, Down
<1>6. TriesAgree'
  <2> SUFFICES ASSUME NEW w \in Worker, NEW d \in Delivery
               PROVE  TriesAgree!(w, d)'
    BY DEF TriesAgree
  <2> QED
    BY <1>1, <1>2, SMTT(30) DEF Tick, IndInv, TriesAgree
<1>7. SingleFlight'
  BY <1>2, Zenon DEF IndInv, SingleFlight, InAttempt
<1>8. AttemptBudget' /\ DeadLetterJustified'
  BY <1>1, <1>2, SMTT(30) DEF Tick, IndInv, AttemptBudget, DeadLetterJustified
<1> QED
  BY <1>3, <1>4, <1>5, <1>6, <1>7, <1>8 DEF IndInv

\* A step of one job: it changes the job to j, at most its own live row, to r, and nothing
\* of the others.
LocalStep(w, d, j, r) ==
  /\ job' = [job EXCEPT ![w][d] = j]
  /\ row' = [row EXCEPT ![d] = r]
  /\ UNCHANGED <<active, lock, phase, accepted>>
  /\ faults' \in 0 .. MaxFaults
  /\ posts' \in [Delivery -> Nat]
  /\ \A e \in Delivery : e # d => posts'[e] = posts[e]
  /\ rejected' \in SUBSET Delivery
  /\ rejected \subseteq rejected'
  /\ job[w][d].pc # "idle"
  /\ posts'[d] = posts[d] \/ job[w][d].pc = "begun"
  /\ r = row[d] \/ HoldsLease(d, job[w][d].token) \/ Exhausted(d, job[w][d].token)
  /\ InAttempt(j) => InAttempt(job[w][d]) \/ HoldsLease(d, job[w][d].token)
  /\ r.token \in {NoToken, row[d].token}
  /\ r.attempts >= row[d].attempts

\* What j and r have to satisfy between themselves.
LocalInv(d, t, j, r) ==
  /\ j \in Job
  /\ r \in Row
  /\ j.pc = "idle" <=> j.token = NoToken
  /\ j.pc # "idle" => j.token = t
  /\ r.status = "leased" <=> r.token # NoToken
  /\ InAttempt(j) /\ r.status # "cancelled" =>
       /\ r.status = "leased"
       /\ r.token = j.token
       /\ r.lease > j.left + (IF j.pc = "begun" THEN RequestTimeout ELSE 0)
  /\ r.status = "leased" /\ r.token = j.token =>
       r.attempts = j.tries + (IF j.pc \in {"begun", "posting", "answered"} THEN 1 ELSE 0)
  /\ j.pc = "answered" <=> j.outcome # "none"
  /\ j.outcome = "dead_letter" => d \in rejected' \/ j.tries + 1 >= MaxAttempts
  /\ posts'[d] <= r.attempts
  /\ j.pc = "begun" => posts'[d] < r.attempts
  /\ r.status = "dead_letter" => r.attempts = MaxAttempts \/ d \in rejected'

\* Such a step preserves the invariant: no other worker is in an attempt for d when the row
\* changes or when w's attempt begins.
LEMMA JobStepIndInv ==
  ASSUME IndInv, NEW w \in Worker, NEW d \in Delivery, NEW j, NEW r,
         LocalStep(w, d, j, r), LocalInv(d, job[w][d].token, j, r)
  PROVE  IndInv'
<1> USE ConfigAssumption DEF LocalStep, LocalInv
<1>1. ASSUME NEW v \in Worker, NEW e \in Delivery
      PROVE  job'[v][e] = IF v = w /\ e = d THEN j ELSE job[v][e]
  BY Zenon DEF IndInv, TypeOK
<1>2. ASSUME NEW e \in Delivery
      PROVE  row'[e] = IF e = d THEN r ELSE row[e]
  BY DEF IndInv, TypeOK
\* No other worker is in an attempt for d once the row changes or w's attempt begins.
<1>3. ASSUME NEW v \in Worker, v # w, InAttempt(job[v][d])
      PROVE  /\ r = row[d]
             /\ ~InAttempt(j)
             /\ posts'[d] = posts[d]
  <2>1. row[d].status # "leased" \/ row[d].token # job[w][d].token
    BY <1>3 DEF IndInv, TokenDiscipline, LeaseCovers, InAttempt
  <2>2. ~InAttempt(job[w][d])
    BY <1>3, Zenon DEF IndInv, SingleFlight
  <2> QED
    BY <2>1, <2>2, Zenon DEF HoldsLease, Exhausted, InAttempt
<1>4. TypeOK'
  <2>1. job' \in [Worker -> [Delivery -> Job]]
    BY Zenon DEF IndInv, TypeOK
  <2>2. row' \in [Delivery -> Row]
    BY Zenon DEF IndInv, TypeOK
  <2> QED
    BY <2>1, <2>2, Zenon DEF IndInv, TypeOK
<1>5. TokenDiscipline'
  <2>1. \A e \in Delivery : row'[e].status = "leased" <=> row'[e].token # NoToken
    BY <1>2 DEF IndInv, TokenDiscipline
  <2>2. \A v \in Worker, e \in Delivery : job'[v][e].pc = "idle" <=> job'[v][e].token = NoToken
    BY <1>1 DEF IndInv, TokenDiscipline
  <2>3. \A v \in Worker, e \in Delivery :
          job'[v][e].pc # "idle" => job[v][e].pc # "idle" /\ job'[v][e].token = job[v][e].token
    BY <1>1
  <2>4. ASSUME NEW u \in Worker, NEW v \in Worker, NEW e \in Delivery,
               job'[u][e].token = job'[v][e].token, job'[u][e].pc # "idle"
        PROVE  u = v
    <3>1. job'[v][e].pc # "idle"
      BY <2>2, <2>4
    <3> QED
      BY <2>3, <2>4, <3>1 DEF IndInv, TokenDiscipline
  <2> QED
    BY <2>1, <2>2, <2>4 DEF TokenDiscipline
<1>6. LeaseCovers'
  <2> SUFFICES ASSUME NEW v \in Worker, NEW e \in Delivery
               PROVE  LeaseCovers!(v, e)'
    BY Zenon DEF LeaseCovers
  <2>1. CASE v = w /\ e = d
    BY <1>1, <1>2, <2>1
  <2>2. CASE e # d
    BY <1>1, <1>2, <2>2 DEF IndInv, LeaseCovers
  <2>3. CASE v # w /\ e = d
    <3>1. job'[v][e] = job[v][e]
      BY <1>1, <2>3
    <3>2. InAttempt(job[v][e]) => row'[e] = row[e]
      BY <1>2, <1>3, <2>3, Zenon
    <3> QED
      BY <3>1, <3>2 DEF IndInv, LeaseCovers
  <2> QED
    BY <2>1, <2>2, <2>3, Zenon
<1>7. SingleFlight'
  BY <1>1, <1>3, SMTT(30) DEF IndInv, SingleFlight
<1>8. TriesAgree'
  <2> SUFFICES ASSUME NEW v \in Worker, NEW e \in Delivery
               PROVE  TriesAgree!(v, e)'
    BY Zenon DEF TriesAgree
  <2>1. CASE v = w /\ e = d
    BY <1>1, <1>2, <2>1
  <2>2. CASE e # d
    BY <1>1, <1>2, <2>2 DEF IndInv, TriesAgree
  <2>3. CASE v # w /\ e = d
    <3>1. job'[v][e] = job[v][e] /\ row'[e] = r
      BY <1>1, <1>2, <2>3
    <3>2. r.status = "leased" /\ r.token = job[v][d].token => r = row[d]
      BY <2>3 DEF IndInv, TokenDiscipline, HoldsLease, Exhausted
    <3> QED
      BY <2>3, <3>1, <3>2 DEF IndInv, TriesAgree
  <2> QED
    BY <2>1, <2>2, <2>3, Zenon
<1>9. AttemptBudget'
  <2> SUFFICES ASSUME NEW e \in Delivery
               PROVE  /\ posts'[e] <= row'[e].attempts
                      /\ (\E v \in Worker : job'[v][e].pc = "begun") => posts'[e] < row'[e].attempts
    BY Zenon DEF AttemptBudget
  <2>1. CASE e # d
    BY <1>1, <1>2, <2>1 DEF IndInv, AttemptBudget
  <2>2. CASE e = d
    <3>1. ASSUME NEW v \in Worker, v # w, job[v][d].pc = "begun"
          PROVE  posts'[d] < r.attempts
      BY <1>3, <3>1, Zenon DEF IndInv, AttemptBudget, InAttempt
    <3> QED
      BY <1>1, <1>2, <2>2, <3>1
  <2> QED
    BY <2>1, <2>2, Zenon
<1>10. DeadLetterJustified'
  BY <1>2 DEF IndInv, DeadLetterJustified
<1> QED
  BY <1>4, <1>5, <1>6, <1>7, <1>8, <1>9, <1>10, Zenon DEF IndInv

\* What requeueing an expired lease does to a row.
LEMMA RequeuedRow ==
  ASSUME NEW r \in Row, r.status = "leased" <=> r.token # NoToken
  PROVE  /\ RequeueExpired(r) \in Row
         /\ RequeueExpired(r).attempts = r.attempts
         /\ RequeueExpired(r).status = "leased" <=> RequeueExpired(r).token # NoToken
         /\ RequeueExpired(r).status \in {"leased", "dead_letter", "cancelled", "delivered", "pending"}
              => RequeueExpired(r) = r
         /\ r.status # "leased" \/ r.lease > 0 => RequeueExpired(r) = r
BY ConfigAssumption DEF RequeueExpired, Unleased, Row, Queued, Terminal

\* Start changes neither rows nor jobs.
LEMMA StartIndInv ==
  ASSUME IndInv, NEW w \in Worker, Start(w)
  PROVE  IndInv'
BY DEF IndInv, Start, TypeOK, TokenDiscipline, LeaseCovers, TriesAgree, SingleFlight,
       AttemptBudget, DeadLetterJustified

\* Dropping the jobs of a worker preserves the invariant.
LEMMA StopIndInv ==
  ASSUME IndInv, NEW w \in Worker, StopWorker(w), lock' \in Worker \cup {NoWorker},
         faults' \in 0 .. MaxFaults, UNCHANGED <<row, active, posts, accepted, rejected>>
  PROVE  IndInv'
<1> USE ConfigAssumption DEF StopWorker
<1>1. TypeOK'
  BY DEF IndInv, TypeOK, Job, NoJob
<1>2. TokenDiscipline'
  BY DEF IndInv, TokenDiscipline, TypeOK, NoJob
<1>3. LeaseCovers' /\ SingleFlight'
  BY DEF IndInv, LeaseCovers, SingleFlight, TypeOK, NoJob, InAttempt
<1>4. TriesAgree' 
  BY DEF IndInv, TriesAgree, TypeOK, NoJob, TokenDiscipline
<1>5. AttemptBudget' /\ DeadLetterJustified'
  BY DEF IndInv, AttemptBudget, DeadLetterJustified, TypeOK, NoJob
<1> QED
  BY <1>1, <1>2, <1>3, <1>4, <1>5, Zenon DEF IndInv

\* The transaction of CancelRevoked: an expired lease covers no attempt, and the rows of
\* revoked endpoints become cancelled.
LEMMA CancelRevokedIndInv ==
  ASSUME IndInv, NEW w \in Worker, CancelRevoked(w)
  PROVE  IndInv'
<1> USE ConfigAssumption
<1>1. phase' \in [Worker -> {"stopped", "cancel", "claim", "drain"}] /\ faults' \in 0 .. MaxFaults
  BY SMTT(30) DEF CancelRevoked, IndInv, TypeOK, Fault, NoFault
<1>2. CASE UNCHANGED row
  BY <1>1, <1>2 DEF CancelRevoked, IndInv, TypeOK, TokenDiscipline, LeaseCovers,
       TriesAgree, SingleFlight, AttemptBudget, DeadLetterJustified
<1>3. CASE row' = [d \in Delivery |-> CancelIfRevoked(d, RequeueExpired(row[d]))]
  <2> DEFINE R(d) == CancelIfRevoked(d, RequeueExpired(row[d]))
  <2>1. ASSUME NEW d \in Delivery
        PROVE  /\ row'[d] \in Row
               /\ row'[d].attempts = row[d].attempts
               /\ row'[d].status = "leased" <=> row'[d].token # NoToken
               /\ row'[d].status = "leased" => row'[d] = row[d]
               /\ row'[d].status = "dead_letter" => row[d].status = "dead_letter"
               /\ row[d].status = "leased" /\ row[d].lease > 0 => row'[d].status \in {"leased", "cancelled"}
               /\ row[d].status = "cancelled" => row'[d].status = "cancelled"
    BY <1>3 DEF CancelIfRevoked, RequeueExpired, Unleased, IndInv, TypeOK, Row, Queued,
                Terminal, TokenDiscipline
  <2>2. TypeOK'
    BY <1>1, <1>3, <2>1, Zenon DEF CancelRevoked, IndInv, TypeOK
  <2>3. TokenDiscipline'
    BY <2>1 DEF CancelRevoked, IndInv, TokenDiscipline
  <2>4. LeaseCovers' /\ SingleFlight'
    <3> SUFFICES ASSUME NEW v \in Worker, NEW d \in Delivery,
                        InAttempt(job[v][d]), row'[d].status # "cancelled"
                 PROVE  row'[d] = row[d] /\ row[d].status # "cancelled"
      BY DEF CancelRevoked, IndInv, LeaseCovers, SingleFlight
    <3>1. row[d].status = "leased" /\ row[d].lease > 0
      BY <2>1 DEF IndInv, LeaseCovers, TypeOK, Job, Row, InAttempt
    <3> QED
      BY <2>1, <3>1, Zenon
  <2>5. TriesAgree' /\ AttemptBudget' /\ DeadLetterJustified'
    BY <2>1 DEF CancelRevoked, IndInv, TriesAgree, AttemptBudget, DeadLetterJustified
  <2> QED
    BY <2>2, <2>3, <2>4, <2>5, Zenon DEF IndInv
<1> QED
  BY <1>2, <1>3 DEF CancelRevoked

\* Claim leases only rows whose lease is over, with tokens nobody holds.
LEMMA ClaimIndInv ==
  ASSUME IndInv, NEW w \in Worker, Claim(w)
  PROVE  IndInv'
<1> USE ConfigAssumption
<1>1. phase' \in [Worker -> {"stopped", "cancel", "claim", "drain"}] /\ faults' \in 0 .. MaxFaults
  BY SMTT(30) DEF Claim, IndInv, TypeOK, Fault, NoFault
<1>2. CASE UNCHANGED <<row, job>>
  BY <1>1, <1>2 DEF Claim, IndInv, TypeOK, TokenDiscipline, LeaseCovers,
       TriesAgree, SingleFlight, AttemptBudget, DeadLetterJustified
<1>3. ASSUME NEW S \in SUBSET Due([d \in Delivery |-> RequeueExpired(row[d])]),
             NEW f \in [S -> Token \ TokensInUse],
             \A d, e \in S : f[d] = f[e] => d = e,
             row' = ClaimRows(S, f),
             \/ UNCHANGED job
             \/ job' = [job EXCEPT ![w] = [d \in Delivery |->
                          IF d \in S THEN ClaimedJob(f[d], row[d].attempts) ELSE NoJob]]
      PROVE  IndInv'
  <2>3. S \subseteq Delivery /\ \A d \in S : RequeueExpired(row[d]).status \in Queued
    BY Zenon DEF Due
  <2>1. ASSUME NEW d \in Delivery
        PROVE  /\ row'[d] \in Row
               /\ row'[d].attempts = row[d].attempts
               /\ row'[d].status = "leased" <=> row'[d].token # NoToken
               /\ row'[d].status = "leased" =>
                    \/ row'[d] = row[d]
                    \/ d \in S /\ row'[d].token = f[d]
               /\ row'[d].status = "dead_letter" => row[d].status = "dead_letter"
               /\ row[d].status = "leased" /\ row[d].lease > 0 => row'[d] = row[d] /\ d \notin S
               /\ row[d].status = "cancelled" => row'[d] = row[d] /\ d \notin S
               /\ d \in S => f[d] \in Token
    <3> DEFINE q == RequeueExpired(row[d])
    <3>1. row[d] \in Row /\ (row[d].status = "leased" <=> row[d].token # NoToken)
      BY DEF IndInv, TypeOK, TokenDiscipline
    <3>2. row'[d] = IF d \in S THEN Claimed(q, f[d]) ELSE q
      BY <1>3, Zenon DEF ClaimRows
    <3>3. CASE d \notin S
      BY <3>1, <3>2, <3>3, RequeuedRow, Zenon DEF Row
    <3>4. CASE d \in S
      <4>1. q.status \in Queued /\ f[d] \in Token
        BY <3>4, <2>3, Zenon
      <4>2. q \in Row /\ q.attempts = row[d].attempts
        BY <3>1, RequeuedRow
      <4>3. row'[d] = [status |-> "leased", attempts |-> row[d].attempts, token |-> f[d],
                       lease |-> LeaseTTL, wait |-> 0]
        BY <3>2, <3>4, <4>2, Zenon DEF Claimed
      <4>4. row'[d] \in Row
        BY <3>1, <4>1, <4>3 DEF Row, Queued, Terminal
      <4>5. row[d].status = "leased" => ~(row[d].lease > 0)
        BY <3>1, <4>1, RequeuedRow, Zenon DEF Queued
      <4>6. row[d].status \notin {"cancelled", "dead_letter"}
        BY <3>1, <4>1, RequeuedRow, Zenon DEF Queued
      <4> QED
        BY <3>4, <4>1, <4>3, <4>4, <4>5, <4>6
    <3> QED
      BY <3>3, <3>4, Zenon
  <2>2. ASSUME NEW d \in S, NEW v \in Worker
        PROVE  job[v][d].token # f[d]
    <3>1. d \in Delivery /\ f[d] \notin TokensInUse
      BY <2>3, Zenon
    <3> QED
      BY <3>1 DEF TokensInUse
  <2>4. ASSUME NEW d \in Delivery
        PROVE  /\ NoJob \in Job
               /\ d \in S => ClaimedJob(f[d], row[d].attempts) \in Job
    <3>1. row[d].attempts \in 0 .. MaxAttempts
      BY Zenon DEF IndInv, TypeOK, Row
    <3>2. d \in S => f[d] \in Token
      BY <2>1, Zenon
    <3> QED
      BY <3>1, <3>2 DEF Job, NoJob, ClaimedJob
  <2>5. TypeOK'
    <3>1. row' \in [Delivery -> Row]
      BY <1>3, <2>1 DEF ClaimRows
    <3>2. job' \in [Worker -> [Delivery -> Job]]
      <4> DEFINE J == [d \in Delivery |-> IF d \in S THEN ClaimedJob(f[d], row[d].attempts) ELSE NoJob]
      <4>1. J \in [Delivery -> Job]
        BY <2>4
      <4>2. job' = job \/ job' = [job EXCEPT ![w] = J]
        BY <1>3, Zenon
      <4> HIDE DEF J
      <4> QED
        BY <4>1, <4>2 DEF IndInv, TypeOK
    <3> QED
      BY <1>1, <3>1, <3>2, Zenon DEF Claim, IndInv, TypeOK
  <2>6. ASSUME NEW v \in Worker, NEW d \in Delivery
        PROVE  \/ job'[v][d] = job[v][d]
               \/ v = w /\ job'[v][d] = NoJob
               \/ v = w /\ d \in S /\ job'[v][d] = ClaimedJob(f[d], row[d].attempts)
    BY <1>3, <2>3, SMTT(30) DEF IndInv, TypeOK
  <2>7. ASSUME NEW v \in Worker, NEW d \in Delivery
        PROVE  \/ job'[v][d] = job[v][d]
               \/ /\ v = w
                  /\ job'[v][d].pc = "idle"
                  /\ job'[v][d].token = NoToken
                  /\ job'[v][d].outcome = "none"
               \/ /\ v = w
                  /\ d \in S
                  /\ job'[v][d].pc = "claimed"
                  /\ job'[v][d].token = f[d]
                  /\ f[d] \in Token
                  /\ job'[v][d].tries = row[d].attempts
                  /\ job'[v][d].outcome = "none"
    <3>1. CASE v = w /\ job'[v][d] = NoJob
      BY <3>1 DEF NoJob
    <3>2. CASE v = w /\ d \in S /\ job'[v][d] = ClaimedJob(f[d], row[d].attempts)
      BY <2>1, <3>2 DEF ClaimedJob
    <3> QED
      BY <2>6, <3>1, <3>2, Zenon
  <2>8. TokenDiscipline'
    <3>1. \A d \in Delivery : row'[d].status = "leased" <=> row'[d].token # NoToken
      BY <2>1, Zenon
    <3>2. \A v \in Worker, d \in Delivery : job'[v][d].pc = "idle" <=> job'[v][d].token = NoToken
      BY <2>7 DEF IndInv, TokenDiscipline
    <3>3. ASSUME NEW u \in Worker, NEW v \in Worker, NEW d \in Delivery,
                 job'[u][d].token = job'[v][d].token, job'[u][d].pc # "idle"
          PROVE  u = v
      <4>1. CASE job'[u][d] = job[u][d] /\ job'[v][d] = job[v][d]
        BY <3>3, <4>1 DEF IndInv, TokenDiscipline
      <4>2. CASE job'[u][d] # job[u][d]
        BY <3>3, <4>2, <2>2, <2>7
      <4>3. CASE job'[v][d] # job[v][d]
        BY <3>2, <3>3, <4>3, <2>2, <2>7
      <4> QED
        BY <4>1, <4>2, <4>3, Zenon
    <3> QED
      BY <3>1, <3>2, <3>3, Zenon DEF TokenDiscipline
  <2>9. LeaseCovers' /\ SingleFlight'
    <3>1. ASSUME NEW v \in Worker, NEW d \in Delivery, InAttempt(job'[v][d])
          PROVE  job'[v][d] = job[v][d] /\ row'[d] = row[d]
      <4>1. job'[v][d] = job[v][d]
        BY <2>7, <3>1, Zenon DEF InAttempt
      <4>2. InAttempt(job[v][d]) /\ job[v][d] \in Job /\ row[d] \in Row
        BY <3>1, <4>1 DEF IndInv, TypeOK
      <4>3. row[d].status = "cancelled" \/ (row[d].status = "leased" /\ row[d].lease > 0)
        BY <4>2 DEF IndInv, LeaseCovers, Job, Row
      <4> QED
        BY <2>1, <4>1, <4>3, Zenon
    <3> QED
      BY <3>1 DEF IndInv, LeaseCovers, SingleFlight
  <2>10. TriesAgree'
    <3> SUFFICES ASSUME NEW v \in Worker, NEW d \in Delivery
                 PROVE  TriesAgree!(v, d)'
      BY SMTT(30) DEF TriesAgree
    <3>1. CASE job'[v][d] = job[v][d]
      <4>1. row'[d].status = "leased" /\ row'[d].token = job[v][d].token => row'[d] = row[d]
        BY <2>1, <2>2, SMTT(30)
      <4> QED
        BY <3>1, <4>1, SMTT(30) DEF Claim, IndInv, TriesAgree
    <3>2. CASE job'[v][d] # job[v][d]
      BY <2>1, <2>7, <3>2, SMTT(30) DEF IndInv, TypeOK, Row
    <3> QED
      BY <3>1, <3>2, SMTT(30)
  <2>11. AttemptBudget' /\ DeadLetterJustified'
    BY <2>1, <2>7, SMTT(30) DEF Claim, IndInv, AttemptBudget, DeadLetterJustified
  <2> QED
    BY <2>5, <2>8, <2>9, <2>10, <2>11 DEF IndInv
<1> QED
  BY <1>2, <1>3 DEF Claim

\* Facts about a job and its row that every action of deliver starts from.
LEMMA JobFacts ==
  ASSUME IndInv, NEW w \in Worker, NEW d \in Delivery
  PROVE  /\ job[w][d] \in Job
         /\ row[d] \in Row
         /\ row[d].status = "leased" <=> row[d].token # NoToken
         /\ job[w][d].pc = "idle" <=> job[w][d].token = NoToken
         /\ LeaseCovers!(w, d)
         /\ TriesAgree!(w, d)
         /\ posts \in [Delivery -> Nat]
         /\ posts[d] <= row[d].attempts
         /\ job[w][d].pc = "begun" => posts[d] < row[d].attempts
         /\ row[d].status = "dead_letter" => row[d].attempts = MaxAttempts \/ d \in rejected
         /\ rejected \in SUBSET Delivery
         /\ NoJob \in Job
         /\ row = [row EXCEPT ![d] = row[d]]
<1>1. NoJob \in Job
  BY ConfigAssumption DEF NoJob, Job
<1> QED
  BY <1>1 DEF IndInv, TypeOK, TokenDiscipline, LeaseCovers, TriesAgree, AttemptBudget, DeadLetterJustified

\* The limiter admits a job: only its program counter moves.
LEMMA DispatchIndInv ==
  ASSUME IndInv, NEW w \in Worker, NEW d \in Delivery, Dispatch(w, d)
  PROVE  IndInv'
<1> DEFINE j == Moved(job[w][d], "dispatched", 0, "none")
           r == row[d]
<1>1. /\ j \in Job /\ j.pc = "dispatched" /\ j.token = job[w][d].token
      /\ j.tries = job[w][d].tries /\ j.outcome = "none" /\ ~InAttempt(j)
  BY JobFacts, ConfigAssumption DEF Moved, Job, InAttempt
<1>2. job' = [job EXCEPT ![w][d] = j] /\ row' = [row EXCEPT ![d] = r] /\ job[w][d].pc = "claimed"
  BY JobFacts, Zenon DEF Dispatch
<1>3. faults' \in 0 .. MaxFaults /\ UNCHANGED <<active, lock, phase, accepted, posts, rejected>>
  BY Zenon DEF Dispatch, IndInv, TypeOK
<1>4. r.attempts \in Nat
  BY JobFacts DEF Row
<1> HIDE DEF j
<1>5. LocalStep(w, d, j, r)
  BY <1>1, <1>2, <1>3, <1>4, JobFacts DEF LocalStep
<1>6. LocalInv(d, job[w][d].token, j, r)
  BY <1>1, <1>2, <1>3, JobFacts DEF LocalInv
<1> QED
  BY <1>5, <1>6, JobStepIndInv, Zenon

\* A job that ends without an attempt: Finish's fenced UPDATE, or no UPDATE at all.
LEMMA EndJobIndInv ==
  ASSUME IndInv, NEW w \in Worker, NEW d \in Delivery, NEW status \in {"retry", "delivered", "dead_letter"},
         NEW wait \in 0 .. MaxBackoff,
         job[w][d].pc # "idle",
         FinishRow(d, job[w][d].token, status, wait) \/ UNCHANGED row,
         status = "dead_letter" /\ HoldsLease(d, job[w][d].token) =>
           row[d].attempts = MaxAttempts \/ d \in rejected,
         job' = [job EXCEPT ![w][d] = NoJob],
         faults' \in 0 .. MaxFaults,
         UNCHANGED <<active, lock, phase, posts, accepted, rejected>>
  PROVE  IndInv'
<1> DEFINE r == row'[d]
<1>1. row' = [row EXCEPT ![d] = r]
  BY JobFacts, SMTT(30) DEF FinishRow
<1>2. \/ r = row[d]
      \/ /\ HoldsLease(d, job[w][d].token)
         /\ r = Unleased(row[d], status, wait)
  BY JobFacts, Zenon DEF FinishRow, IndInv, TypeOK
<1>3. /\ r \in Row
      /\ r.status = "leased" <=> r.token # NoToken
      /\ r.token \in {NoToken, row[d].token}
      /\ r.attempts = row[d].attempts
      /\ r.status = "dead_letter" => r.attempts = MaxAttempts \/ d \in rejected
  <2>1. CASE r = row[d]
    BY <2>1, JobFacts, SMTT(30)
  <2>2. CASE HoldsLease(d, job[w][d].token) /\ r = Unleased(row[d], status, wait)
    BY <2>2, JobFacts, ConfigAssumption DEF Unleased, Row, Queued, Terminal
  <2> QED
    BY <1>2, <2>1, <2>2, Zenon
<1>4. NoJob.pc = "idle" /\ NoJob.token = NoToken /\ NoJob.outcome = "none" /\ ~InAttempt(NoJob)
  BY Zenon DEF NoJob, InAttempt
<1>5. r.attempts \in Nat
  BY <1>3, JobFacts DEF Row
<1> HIDE DEF r
<1>6. r.token # NoJob.token \/ r.status # "leased"
  BY <1>3, <1>4, Zenon
<1>7. LocalStep(w, d, NoJob, r)
  BY <1>1, <1>2, <1>3, <1>4, <1>5, JobFacts DEF LocalStep
<1>8. LocalInv(d, job[w][d].token, NoJob, r)
  BY <1>3, <1>4, <1>5, <1>6, JobFacts DEF LocalInv
<1> QED
  BY <1>7, <1>8, JobStepIndInv, Zenon

\* deferDelivery gives the lease back as a retry.
LEMMA DeferIndInv ==
  ASSUME IndInv, NEW w \in Worker, NEW d \in Delivery, Defer(w, d)
  PROVE  IndInv'
<1>1. faults' \in 0 .. MaxFaults /\ BaseBackoff \in 0 .. MaxBackoff
  BY ConfigAssumption DEF Defer, IndInv, TypeOK, Fault, NoFault
<1> QED
  BY <1>1, EndJobIndInv, Zenon DEF Defer

\* Finish writes the outcome of an answered attempt; a dead letter is justified because
\* the attempts the job counted are the row's.
LEMMA FinishIndInv ==
  ASSUME IndInv, NEW w \in Worker, NEW d \in Delivery, Finish(w, d)
  PROVE  IndInv'
<1> DEFINE o == job[w][d].outcome
<1>1. o \in {"retry", "delivered", "dead_letter"} /\ job[w][d].pc = "answered"
  BY JobFacts, Zenon DEF Finish, Job
<1>2. ASSUME o = "dead_letter", HoldsLease(d, job[w][d].token)
      PROVE  row[d].attempts = MaxAttempts \/ d \in rejected
  <2>1. row[d].attempts = job[w][d].tries + 1
    BY <1>1, <1>2, JobFacts, Zenon DEF HoldsLease
  <2>2. d \in rejected \/ job[w][d].tries + 1 >= MaxAttempts
    BY <1>2, JobFacts, Zenon
  <2>3. row[d].attempts \in 0 .. MaxAttempts /\ job[w][d].tries \in 0 .. MaxAttempts
    BY JobFacts, Zenon DEF Row, Job
  <2> QED
    BY <2>1, <2>2, <2>3, ConfigAssumption
<1>3. faults' \in 0 .. MaxFaults
  BY ConfigAssumption DEF Finish, IndInv, TypeOK, Fault, NoFault
<1>4. PICK wait \in 0 .. MaxBackoff : FinishRow(d, job[w][d].token, o, wait) \/ UNCHANGED row
  BY ConfigAssumption DEF Finish
<1>5. /\ job' = [job EXCEPT ![w][d] = NoJob]
      /\ UNCHANGED <<active, lock, phase, posts, accepted, rejected>>
  BY Zenon DEF Finish
<1> HIDE DEF o
<1> QED
  BY <1>1, <1>2, <1>3, <1>4, <1>5, EndJobIndInv, Zenon

\* BeginAttempt: the attempt is counted and its lease outlives it, or the row is exhausted,
\* or nothing happens; in the last two cases, and on an error, the job is over.
LEMMA BeginAttemptIndInv ==
  ASSUME IndInv, NEW w \in Worker, NEW d \in Delivery, BeginAttempt(w, d)
  PROVE  IndInv'
<1> DEFINE t == job[w][d].token
           r == row'[d]
           j == job'[w][d]
<1>1. job[w][d].pc = "dispatched" /\ UNCHANGED <<active, lock, phase, posts, accepted, rejected>>
  BY Zenon DEF BeginAttempt
<1>2. faults' \in 0 .. MaxFaults
  BY ConfigAssumption DEF BeginAttempt, IndInv, TypeOK, Fault, NoFault
<1>3. row' = [row EXCEPT ![d] = r]
  BY JobFacts, Zenon DEF BeginAttempt, BeginRow
<1>4. job' = [job EXCEPT ![w][d] = j]
  BY Zenon DEF BeginAttempt, IndInv, TypeOK
<1>5. \/ r = row[d]
      \/ MayBegin(d, t) /\ r = Begun(row[d], 1)
      \/ Exhausted(d, t) /\ r = Unleased(row[d], "dead_letter", 0)
  BY Zenon DEF BeginAttempt, BeginRow, IndInv, TypeOK
<1>6. \/ j = NoJob
      \/ MayBegin(d, t) /\ r = Begun(row[d], 1) /\ j = Moved(job[w][d], "begun", CommitDelay, "none")
  BY SMTT(30) DEF BeginAttempt, BeginRow, IndInv, TypeOK
<1>7. /\ r \in Row
      /\ r.status = "leased" <=> r.token # NoToken
      /\ r.token \in {NoToken, row[d].token}
      /\ r.attempts \in Nat
      /\ r.attempts >= row[d].attempts
      /\ r.status = "dead_letter" => r.attempts = MaxAttempts \/ d \in rejected
  <2>1. CASE r = row[d]
    BY <2>1, JobFacts, SMTT(30) DEF Row
  <2>2. CASE MayBegin(d, t) /\ r = Begun(row[d], 1)
    BY <2>2, JobFacts, RequiredMargin, ConfigAssumption, SMTT(30) DEF MayBegin, Begun, Row
  <2>3. CASE Exhausted(d, t) /\ r = Unleased(row[d], "dead_letter", 0)
    <3>1. row[d].attempts = MaxAttempts /\ row[d].attempts \in 0 .. MaxAttempts
      <4>1. row[d].attempts \in 0 .. MaxAttempts
        BY JobFacts, SMTT(30) DEF Row
      <4>2. row[d].attempts >= MaxAttempts
        BY <2>3, Zenon DEF Exhausted
      <4> QED
        BY <4>1, <4>2, ConfigAssumption
    <3>2. r = [status |-> "dead_letter", attempts |-> MaxAttempts, token |-> NoToken,
               lease |-> 0, wait |-> 0]
      BY <2>3, <3>1, Zenon DEF Unleased
    <3>3. r \in Row
      BY <3>2, ConfigAssumption DEF Row, Terminal
    <3> QED
      BY <3>1, <3>2, <3>3
  <2> QED
    BY <1>5, <2>1, <2>2, <2>3, Zenon
<1>8. CASE j = NoJob
  <2>1. NoJob.pc = "idle" /\ NoJob.token = NoToken /\ NoJob.outcome = "none" /\ ~InAttempt(NoJob)
    BY Zenon DEF NoJob, InAttempt
  <2>2. MayBegin(d, t) => HoldsLease(d, t)
    BY RequiredMargin, JobFacts, ConfigAssumption, SMTT(30) DEF MayBegin, HoldsLease, Row
  <2> HIDE DEF r, t, j
  <2>3. LocalStep(w, d, NoJob, r)
    BY <1>1, <1>2, <1>3, <1>4, <1>5, <1>7, <1>8, <2>1, <2>2, JobFacts, Zenon DEF LocalStep, t
  <2>4. posts'[d] <= r.attempts
    BY <1>1, <1>7, JobFacts DEF Row
  <2>5. LocalInv(d, job[w][d].token, NoJob, r)
    BY <1>1, <1>7, <2>1, <2>4, JobFacts, Zenon DEF LocalInv
  <2> QED
    BY <2>3, <2>5, JobStepIndInv, Zenon
<1>9. CASE MayBegin(d, t) /\ r = Begun(row[d], 1) /\ j = Moved(job[w][d], "begun", CommitDelay, "none")
  <2>1. /\ j \in Job /\ j.pc = "begun" /\ j.token = t /\ j.tries = job[w][d].tries
        /\ j.left = CommitDelay /\ j.outcome = "none" /\ InAttempt(j)
    BY <1>9, JobFacts, ConfigAssumption, SMTT(30) DEF Moved, Job, InAttempt
  <2>2. /\ HoldsLease(d, t)
        /\ r.status = "leased" /\ r.token = t /\ r.attempts = row[d].attempts + 1
        /\ r.lease > CommitDelay + RequestTimeout
    BY <1>9, RequiredMargin, JobFacts, ConfigAssumption, SMTT(30) DEF MayBegin, HoldsLease, Begun, Row
  <2>3. row[d].attempts = job[w][d].tries
    BY <1>1, <2>2, JobFacts DEF HoldsLease, Job, Row
  <2>4. posts'[d] < r.attempts
    BY <1>1, <2>2, JobFacts, SMTT(30) DEF Row
  <2> HIDE DEF r, t, j
  <2>5. LocalStep(w, d, j, r)
    BY <1>1, <1>2, <1>3, <1>4, <1>7, <2>2, JobFacts, SMTT(30) DEF LocalStep, t
  <2>6. LocalInv(d, job[w][d].token, j, r)
    <3>1. posts'[d] \in Nat /\ CommitDelay \in Nat /\ RequestTimeout \in Nat
      BY <1>1, JobFacts, ConfigAssumption, SMTT(30)
    <3> QED
      BY <1>1, <1>7, <2>1, <2>2, <2>3, <2>4, <3>1, JobFacts DEF LocalInv, t
  <2> QED
    BY <2>5, <2>6, JobStepIndInv, SMTT(30)
<1> QED
  BY <1>6, <1>8, <1>9, Zenon

\* The request leaves: the lease still covers all of RequestTimeout.
LEMMA SendRequestIndInv ==
  ASSUME IndInv, NEW w \in Worker, NEW d \in Delivery, SendRequest(w, d)
  PROVE  IndInv'
<1> DEFINE j == Moved(job[w][d], "posting", RequestTimeout, "none")
<1>1. /\ j \in Job /\ j.pc = "posting" /\ j.token = job[w][d].token /\ InAttempt(j)
      /\ j.tries = job[w][d].tries /\ j.left = RequestTimeout /\ j.outcome = "none"
  BY JobFacts, ConfigAssumption DEF Moved, Job, InAttempt
<1>2. /\ job' = [job EXCEPT ![w][d] = j]
      /\ row' = [row EXCEPT ![d] = row[d]]
      /\ job[w][d].pc = "begun" /\ InAttempt(job[w][d])
      /\ posts' = [posts EXCEPT ![d] = posts[d] + 1]
      /\ UNCHANGED <<active, lock, phase, accepted, rejected, faults>>
  BY JobFacts, SMTT(30) DEF SendRequest, InAttempt
<1>3. row[d].attempts \in Nat /\ faults' \in 0 .. MaxFaults /\ job[w][d].left \in Nat
  BY <1>2, JobFacts DEF Row, Job, IndInv, TypeOK
<1>4. /\ posts' \in [Delivery -> Nat]
      /\ \A e \in Delivery : e # d => posts'[e] = posts[e]
      /\ posts'[d] <= row[d].attempts
  BY <1>2, <1>3, JobFacts
<1>5. row[d].status # "cancelled" =>
        /\ row[d].status = "leased"
        /\ row[d].token = job[w][d].token
        /\ row[d].lease > RequestTimeout
  BY <1>2, <1>3, JobFacts, ConfigAssumption, SMTT(30) DEF Row
<1> HIDE DEF j
<1>6. LocalStep(w, d, j, row[d])
  BY <1>1, <1>2, <1>3, <1>4, JobFacts DEF LocalStep
<1>7. /\ row[d].status = "leased" /\ row[d].token = j.token => row[d].attempts = j.tries + 1
      /\ row[d].status = "dead_letter" => row[d].attempts = MaxAttempts \/ d \in rejected'
      /\ row[d] \in Row /\ (row[d].status = "leased" <=> row[d].token # NoToken)
      /\ job[w][d].token # NoToken
  BY <1>1, <1>2, JobFacts, SMTT(30)
<1>8. LocalInv(d, job[w][d].token, j, row[d])
  BY <1>1, <1>4, <1>5, <1>7, ConfigAssumption, SMTT(30) DEF LocalInv
<1> QED
  BY <1>6, <1>8, JobStepIndInv, SMTT(30)

\* An attempt ends with an outcome: dead_letter only after a final failure or with the
\* budget used.
LEMMA AnswerIndInv ==
  ASSUME IndInv, NEW w \in Worker, NEW d \in Delivery,
         NEW outcome \in {"delivered", "retry", "dead_letter"},
         InAttempt(job[w][d]), Answer(w, d, outcome),
         rejected' = rejected \/ rejected' = rejected \cup {d},
         outcome = "dead_letter" => d \in rejected' \/ job[w][d].tries + 1 >= MaxAttempts,
         UNCHANGED <<row, active, lock, phase, posts, accepted, faults>>
  PROVE  IndInv'
<1> DEFINE j == Moved(job[w][d], "answered", 0, outcome)
<1>1. /\ j \in Job /\ j.pc = "answered" /\ j.token = job[w][d].token /\ ~InAttempt(j)
      /\ j.tries = job[w][d].tries /\ j.outcome = outcome
  BY JobFacts, ConfigAssumption DEF Moved, Job, InAttempt
<1>2. /\ job' = [job EXCEPT ![w][d] = j]
      /\ row' = [row EXCEPT ![d] = row[d]]
      /\ job[w][d].pc \in {"begun", "posting"}
  BY JobFacts, Zenon DEF Answer, InAttempt
<1>3. row[d].attempts \in Nat /\ faults' \in 0 .. MaxFaults /\ rejected' \in SUBSET Delivery
  BY JobFacts DEF Row, IndInv, TypeOK
<1> HIDE DEF j
<1>4. posts' \in [Delivery -> Nat] /\ posts' = posts /\ rejected \subseteq rejected'
  BY JobFacts
<1>5. LocalStep(w, d, j, row[d])
  <2>1. row[d].attempts >= row[d].attempts
    BY <1>3, GeqItself, Zenon
  <2> QED
    BY <1>1, <1>2, <1>3, <1>4, <2>1, Zenon DEF LocalStep
<1>6. LocalInv(d, job[w][d].token, j, row[d])
  BY <1>1, <1>2, <1>3, JobFacts, SMTT(30) DEF LocalInv
<1> QED
  BY <1>5, <1>6, JobStepIndInv, SMTT(30)

\* Both ways an attempt ends: without a request, and with the receiver's answer or none.
LEMMA RespondIndInv ==
  ASSUME IndInv, NEW w \in Worker, NEW d \in Delivery, PrepareFails(w, d) \/ Respond(w, d)
  PROVE  IndInv'
<1>1. InAttempt(job[w][d])
  BY Zenon DEF PrepareFails, Respond, InAttempt
<1>2. /\ RetryOutcome(job[w][d]) \in {"delivered", "retry", "dead_letter"}
      /\ RetryOutcome(job[w][d]) = "dead_letter" => job[w][d].tries + 1 >= MaxAttempts
  BY Zenon DEF RetryOutcome
<1>3. UNCHANGED <<row, active, lock, phase, posts, accepted, faults>>
  BY Zenon DEF PrepareFails, Respond
<1>4. PICK outcome \in {"delivered", "retry", "dead_letter"} :
        /\ Answer(w, d, outcome)
        /\ rejected' = rejected \/ rejected' = rejected \cup {d}
        /\ outcome = "dead_letter" => d \in rejected' \/ job[w][d].tries + 1 >= MaxAttempts
  BY <1>2, Zenon DEF PrepareFails, Respond
<1> QED
  BY <1>1, <1>3, <1>4, AnswerIndInv, Zenon

\* Every step of the worker, of its jobs and of the environment preserves the invariant.
LEMMA NextIndInv == IndInv /\ [Next]_vars => IndInv'
<1> SUFFICES ASSUME IndInv, [Next]_vars PROVE IndInv'
  BY Zenon
<1> USE ConfigAssumption
<1>0. /\ active \in SUBSET Destination /\ lock \in Worker \cup {NoWorker}
      /\ phase \in [Worker -> {"stopped", "cancel", "claim", "drain"}]
      /\ accepted \in SUBSET Delivery /\ faults \in 0 .. MaxFaults
  BY Zenon DEF IndInv, TypeOK
<1>1. ASSUME NEW w \in Worker, WorkerStep(w) PROVE IndInv'
  <2>1. CASE Start(w)
    BY <2>1, StartIndInv, Zenon
  <2>2. CASE LockCheck(w)
    BY <1>0, <2>2, StopIndInv, Zenon DEF LockCheck
  <2>3. CASE Exit(w)
    <3>1. faults' \in 0 .. MaxFaults /\ lock' \in Worker \cup {NoWorker}
      BY <1>0, <2>3 DEF Exit, Fault
    <3> QED
      BY <2>3, <3>1, StopIndInv, Zenon DEF Exit
  <2>4. CASE CancelRevoked(w)
    BY <2>4, CancelRevokedIndInv
  <2>5. CASE Claim(w)
    BY <2>5, ClaimIndInv
  <2>6. CASE EndCycle(w)
    <3>1. phase' \in [Worker -> {"stopped", "cancel", "claim", "drain"}]
      BY <1>0, <2>6, Zenon DEF EndCycle
    <3> QED
      BY <1>0, <2>6, <3>1, FrameIndInv, Zenon DEF EndCycle
  <2> QED
    BY <1>1, <2>1, <2>2, <2>3, <2>4, <2>5, <2>6, Zenon DEF WorkerStep
<1>2. ASSUME NEW w \in Worker, NEW d \in Delivery, JobStep(w, d) PROVE IndInv'
  BY Zenon, <1>2, DispatchIndInv, DeferIndInv, BeginAttemptIndInv, RespondIndInv, SendRequestIndInv,
     FinishIndInv DEF JobStep
<1>3. CASE LoseLock
  <2>1. faults' \in 0 .. MaxFaults
    BY <1>0, <1>3 DEF LoseLock, Fault
  <2> QED
    BY <1>0, <1>3, <2>1, FrameIndInv, Zenon DEF LoseLock
<1>4. ASSUME NEW d \in Delivery, Receive(d) PROVE IndInv'
  BY <1>0, <1>4, FrameIndInv, Zenon DEF Receive
<1>5. ASSUME NEW t \in Destination, Revoke(t) PROVE IndInv'
  BY <1>0, <1>5, FrameIndInv, Zenon DEF Revoke
<1>6. CASE Tick
  BY <1>6, TickIndInv, Zenon
<1>7. CASE UNCHANGED vars
  BY <1>0, <1>7, FrameIndInv DEF vars
<1> QED
  BY <1>1, <1>2, <1>3, <1>4, <1>5, <1>6, <1>7 DEF Next

\* The inductive invariant holds in every reachable state, however many workers overlap
\* after lost advisory locks and whatever crashes and storage errors occur.
THEOREM InvariantHolds == Spec => []IndInv
<1>1. Init => IndInv
  BY InitIndInv
<1>2. IndInv /\ [Next]_vars => IndInv'
  BY NextIndInv
<1> QED
  BY <1>1, <1>2, PTL DEF Spec

\* Rows, jobs and counters keep their types; in particular attempts never exceeds MaxAttempts.
THEOREM TypeCorrect == Spec => []TypeOK
BY InvariantHolds, PTL DEF IndInv

\* Two workers never have a request for one delivery under way at the same time.
THEOREM SingleFlightHolds == Spec => []SingleFlight
BY InvariantHolds, PTL DEF IndInv

\* No request is sent that a durable attempt did not pay for.
THEOREM AttemptBudgetHolds == Spec => []AttemptBudget
BY InvariantHolds, PTL DEF IndInv

\* Deliveries are given up only with the budget used or after a final failure.
THEOREM DeadLetterJustifiedHolds == Spec => []DeadLetterJustified
BY InvariantHolds, PTL DEF IndInv

\* HistoryInv is inductive relative to IndInv.
LEMMA InitHistory == Init => HistoryInv
BY DEF Init, HistoryInv, NoJob

\* A step of one job of a draining worker preserves HistoryInv.
LEMMA JobStepHistory ==
  ASSUME IndInv, HistoryInv, NEW w \in Worker, NEW d \in Delivery, NEW j,
         job[w][d].pc # "idle",
         job' = [job EXCEPT ![w][d] = j],
         UNCHANGED <<phase, accepted>>,
         \A e \in Delivery : row[e].attempts > 0 => row'[e].attempts > 0,
         j.pc \in {"begun", "posting", "answered"} => row'[d].attempts > 0,
         j.outcome = "delivered" => d \in accepted
  PROVE  HistoryInv'
<1>1. ASSUME NEW v \in Worker, NEW e \in Delivery
      PROVE  job'[v][e] = IF v = w /\ e = d THEN j ELSE job[v][e]
  BY Zenon DEF IndInv, TypeOK
<1> QED
  BY <1>1 DEF HistoryInv

\* Rows keep their attempts when Finish or deferDelivery writes them.
LEMMA FinishKeepsAttempts ==
  ASSUME IndInv, NEW d \in Delivery, NEW t, NEW status, NEW wait,
         FinishRow(d, t, status, wait) \/ UNCHANGED row
  PROVE  \A e \in Delivery : row'[e].attempts = row[e].attempts
<1> SUFFICES ASSUME NEW e \in Delivery PROVE row'[e].attempts = row[e].attempts
  BY Zenon
<1>1. row'[e] = row[e] \/ row'[e] = Unleased(row[e], status, wait)
  BY Zenon DEF FinishRow, IndInv, TypeOK
<1> QED
  BY <1>1 DEF Unleased

\* BeginAttempt's row, in its three cases.
LEMMA BegunRow ==
  ASSUME IndInv, NEW w \in Worker, NEW d \in Delivery, BeginAttempt(w, d)
  PROVE  /\ \A e \in Delivery : e # d => row'[e] = row[e]
         /\ \/ row'[d] = row[d]
            \/ MayBegin(d, job[w][d].token) /\ row'[d] = Begun(row[d], 1)
            \/ /\ Exhausted(d, job[w][d].token)
               /\ row'[d] = Unleased(row[d], "dead_letter", 0)
         /\ row' \in [Delivery -> Row] /\ row \in [Delivery -> Row]
         /\ \/ job' = [job EXCEPT ![w][d] = NoJob]
            \/ /\ job' = [job EXCEPT ![w][d] = Moved(job[w][d], "begun", CommitDelay, "none")]
               /\ row'[d] = Begun(row[d], 1)
<1>1. row' \in [Delivery -> Row]
  BY BeginAttemptIndInv, Zenon DEF IndInv, TypeOK
<1> QED
  BY <1>1, Zenon DEF BeginAttempt, BeginRow, IndInv, TypeOK

\* Every step preserves HistoryInv.
LEMMA NextHistory == IndInv /\ HistoryInv /\ [Next]_vars => HistoryInv'
<1> SUFFICES ASSUME IndInv, HistoryInv, [Next]_vars PROVE HistoryInv'
  BY Zenon
<1> USE ConfigAssumption
<1>0. NoJob.pc = "idle" /\ NoJob.outcome = "none"
  BY Zenon DEF NoJob
<1>1. ASSUME NEW w \in Worker, CancelRevoked(w) PROVE HistoryInv'
  <2>1. ASSUME NEW d \in Delivery PROVE row'[d].attempts = row[d].attempts
    BY <1>1 DEF CancelRevoked, CancelIfRevoked, RequeueExpired, Unleased
  <2>2. ASSUME NEW v \in Worker PROVE phase'[v] = "drain" <=> phase[v] = "drain"
    BY <1>1, Zenon DEF CancelRevoked, IndInv, TypeOK
  <2> QED
    BY <1>1, <2>1, <2>2, Zenon DEF CancelRevoked, HistoryInv
<1>2. ASSUME NEW w \in Worker, Claim(w) PROVE HistoryInv'
  <2>1. ASSUME NEW d \in Delivery PROVE row'[d].attempts = row[d].attempts
    BY <1>2 DEF Claim, ClaimRows, Claimed, RequeueExpired, Unleased
  <2>2. ASSUME NEW v \in Worker, NEW d \in Delivery
        PROVE  \/ job'[v][d] = job[v][d] /\ (phase'[v] # "drain" => phase[v] # "drain")
               \/ job'[v][d].pc \in {"idle", "claimed"} /\ job'[v][d].outcome = "none"
                    /\ phase'[v] = "drain"
    BY <1>2 DEF Claim, IndInv, TypeOK, ClaimedJob, NoJob
  <2> QED
    BY <1>2, <2>1, <2>2 DEF Claim, HistoryInv
<1>3. ASSUME NEW w \in Worker, LockCheck(w) \/ Exit(w) PROVE HistoryInv'
  <2>1. StopWorker(w) /\ UNCHANGED <<row, accepted>>
    BY <1>3, Zenon DEF LockCheck, Exit
  <2>2. ASSUME NEW v \in Worker, NEW d \in Delivery
        PROVE  IF v = w THEN job'[v][d] = NoJob ELSE job'[v][d] = job[v][d] /\ phase'[v] = phase[v]
    BY <2>1, Zenon DEF StopWorker, IndInv, TypeOK
  <2> QED
    BY <1>0, <2>1, <2>2 DEF HistoryInv
<1>4. ASSUME NEW w \in Worker, Start(w) \/ EndCycle(w) PROVE HistoryInv'
  <2>1. UNCHANGED <<row, job, accepted>> /\ \A d \in Delivery : job[w][d].pc = "idle"
    BY <1>4, Zenon DEF Start, EndCycle, HistoryInv
  <2>2. ASSUME NEW v \in Worker PROVE v = w \/ phase'[v] = phase[v]
    BY <1>4, Zenon DEF Start, EndCycle, IndInv, TypeOK
  <2> QED
    BY <2>1, <2>2, Zenon DEF HistoryInv
<1>5. ASSUME NEW w \in Worker, NEW d \in Delivery, Dispatch(w, d) PROVE HistoryInv'
  <2> DEFINE j == Moved(job[w][d], "dispatched", 0, "none")
  <2>1. j.pc = "dispatched" /\ j.outcome = "none"
    BY DEF Moved
  <2> HIDE DEF j
  <2> QED
    BY <1>5, <2>1, JobStepHistory, Zenon DEF Dispatch, j
<1>6. ASSUME NEW w \in Worker, NEW d \in Delivery, Defer(w, d) \/ Finish(w, d) PROVE HistoryInv'
  <2>1. \A e \in Delivery : row'[e].attempts = row[e].attempts
    BY <1>6, FinishKeepsAttempts DEF Defer, Finish
  <2> QED
    BY <1>0, <1>6, <2>1, JobStepHistory DEF Defer, Finish
<1>7. ASSUME NEW w \in Worker, NEW d \in Delivery, BeginAttempt(w, d) PROVE HistoryInv'
  <2> DEFINE j == Moved(job[w][d], "begun", CommitDelay, "none")
  <2>1. j.pc = "begun" /\ j.outcome = "none"
    BY Zenon DEF Moved
  <2>2. ASSUME NEW e \in Delivery
        PROVE  /\ row[e].attempts > 0 => row'[e].attempts > 0
               /\ row'[e] = Begun(row[e], 1) => row'[e].attempts > 0
    <3>1. row[e].attempts \in Nat
      BY DEF IndInv, TypeOK, Row
    <3>2. Begun(row[e], 1).attempts = row[e].attempts + 1
      BY Zenon DEF Begun
    <3>3. Unleased(row[e], "dead_letter", 0).attempts = row[e].attempts
      BY Zenon DEF Unleased
    <3> QED
      BY <1>7, <3>1, <3>2, <3>3, BegunRow
  <2>3. job[w][d].pc # "idle" /\ UNCHANGED <<phase, accepted>>
    BY <1>7, Zenon DEF BeginAttempt
  <2> HIDE DEF j
  <2>4. CASE job' = [job EXCEPT ![w][d] = NoJob]
    BY <1>0, <2>2, <2>3, <2>4, JobStepHistory, Zenon
  <2>5. CASE job' = [job EXCEPT ![w][d] = j] /\ row'[d] = Begun(row[d], 1)
    BY <2>1, <2>2, <2>3, <2>5, JobStepHistory, Zenon
  <2> QED
    BY <1>7, <2>4, <2>5, BegunRow DEF j
<1>8. ASSUME NEW w \in Worker, NEW d \in Delivery, SendRequest(w, d) PROVE HistoryInv'
  <2> DEFINE j == Moved(job[w][d], "posting", RequestTimeout, "none")
  <2>1. j.pc = "posting" /\ j.outcome = "none"
    BY DEF Moved
  <2>2. row'[d].attempts > 0
    BY <1>8 DEF SendRequest, HistoryInv
  <2> HIDE DEF j
  <2> QED
    BY <1>8, <2>1, <2>2, JobStepHistory, Zenon DEF SendRequest, j
<1>9. ASSUME NEW w \in Worker, NEW d \in Delivery, PrepareFails(w, d) \/ Respond(w, d)
      PROVE  HistoryInv'
  <2>1. PICK o : Answer(w, d, o) /\ (o = "delivered" => d \in accepted)
    BY <1>9 DEF PrepareFails, Respond, RetryOutcome
  <2> DEFINE j == Moved(job[w][d], "answered", 0, o)
  <2>2. j.pc = "answered" /\ j.outcome = o
    BY DEF Moved
  <2>3. row[d].attempts > 0 /\ job[w][d].pc # "idle" /\ UNCHANGED <<row, phase, accepted>>
    BY <1>9, Zenon DEF PrepareFails, Respond, HistoryInv
  <2> HIDE DEF j
  <2> QED
    BY <2>1, <2>2, <2>3, JobStepHistory, Zenon DEF Answer, j
<1>10. CASE Tick
  <2>1. ASSUME NEW v \in Worker, NEW d \in Delivery
        PROVE  /\ row'[d].attempts = row[d].attempts
               /\ job'[v][d].pc = job[v][d].pc
               /\ job'[v][d].outcome = job[v][d].outcome
    BY <1>10, Zenon DEF Tick, RowTick, Moved
  <2>2. UNCHANGED <<phase, accepted>>
    BY <1>10, Zenon DEF Tick
  <2> QED
    BY <2>1, <2>2 DEF HistoryInv
<1>11. CASE LoseLock \/ (\E d \in Delivery : Receive(d)) \/ (\E t \in Destination : Revoke(t))
            \/ UNCHANGED vars
  BY <1>11, Zenon DEF LoseLock, Receive, Revoke, vars, HistoryInv
<1> QED
  BY <1>1, <1>2, <1>3, <1>4, <1>5, <1>6, <1>7, <1>8, <1>9, <1>10, <1>11, Zenon
     DEF Next, WorkerStep, JobStep

------------------------------------------------------------------------------
(* What a step may do to a row, seen from the promise. *)

\* Row d keeps its attempts, keeps its status if it is terminal, and becomes terminal
\* only for the reason that the new status names.
RowSettles(d) ==
  /\ row'[d].attempts = row[d].attempts
  /\ row[d].status \in Terminal => row'[d].status = row[d].status
  /\ row[d].status \notin Terminal /\ row'[d].status \in Terminal =>
       \/ row'[d].status = "delivered" /\ d \in accepted
       \/ row'[d].status = "dead_letter" /\ (row[d].attempts = MaxAttempts \/ d \in rejected)
       \/ row'[d].status = "cancelled" /\ Dest[d] \notin active

\* A step in which all rows settle, and nothing else the promise sees changes, is a Settle step.
LEMMA SettleStep ==
  ASSUME \A d \in Delivery : RowSettles(d), UNCHANGED <<active, posts, accepted, rejected>>
  PROVE  Promise!ANext
<1> DEFINE out(r) == IF r.status \in Terminal THEN r.status ELSE "open"
<1>1. ASSUME NEW d \in Delivery
      PROVE  \/ out(row'[d]) = out(row[d])
             \/ out(row[d]) = "open" /\ Promise!Settleable(d, out(row'[d]))
  BY <1>1, Zenon DEF RowSettles, Promise!Settleable
<1>2. [d \in Delivery |-> row'[d].attempts] = [d \in Delivery |-> row[d].attempts]
  BY Zenon DEF RowSettles
<1> QED
  BY <1>1, <1>2, Zenon DEF Promise!ANext, Promise!Settle

\* RequeueExpired changes a leased row only, and keeps its attempts.
LEMMA RequeueChanges ==
  ASSUME NEW r
  PROVE  \/ RequeueExpired(r) = r
         \/ /\ r.status = "leased"
            /\ RequeueExpired(r).status = "retry" /\ RequeueExpired(r).attempts = r.attempts
BY Zenon DEF RequeueExpired, Unleased

\* CancelIfRevoked changes an open row of a revoked endpoint only, and keeps its attempts.
LEMMA CancelChanges ==
  ASSUME NEW d \in Delivery, NEW r
  PROVE  \/ CancelIfRevoked(d, r) = r
         \/ /\ Dest[d] \notin active /\ r.status \notin Terminal
            /\ CancelIfRevoked(d, r).status = "cancelled"
            /\ CancelIfRevoked(d, r).attempts = r.attempts
BY Zenon DEF CancelIfRevoked, Unleased

\* CancelRevoked requeues expired leases and cancels the open rows of revoked endpoints.
LEMMA CancelRevokedSettles ==
  ASSUME IndInv, NEW w \in Worker, CancelRevoked(w), NEW d \in Delivery
  PROVE  RowSettles(d)
<1>1. CASE row' = row
  BY <1>1, Zenon DEF RowSettles
<1>2. CASE row'[d] = CancelIfRevoked(d, RequeueExpired(row[d]))
  <2>1. PICK r : r = RequeueExpired(row[d])
    BY Zenon
  <2>2. \/ r = row[d]
        \/ row[d].status = "leased" /\ r.status = "retry" /\ r.attempts = row[d].attempts
    BY <2>1, RequeueChanges, Zenon
  <2>3. \/ row'[d] = r
        \/ /\ Dest[d] \notin active /\ r.status \notin Terminal
           /\ row'[d].status = "cancelled" /\ row'[d].attempts = r.attempts
    BY <1>2, <2>1, CancelChanges, Zenon
  <2>4. "leased" \notin Terminal /\ "retry" \notin Terminal
    BY Zenon DEF Terminal
  <2> QED
    BY <2>2, <2>3, <2>4, Zenon DEF RowSettles
<1> QED
  BY <1>1, <1>2, Zenon DEF CancelRevoked

\* Claim requeues and leases; it settles nothing.
LEMMA ClaimSettles ==
  ASSUME IndInv, NEW w \in Worker, Claim(w), NEW d \in Delivery
  PROVE  RowSettles(d)
<1> DEFINE q == RequeueExpired(row[d])
<1>1. \/ row'[d] = row[d]
      \/ row'[d] = q
      \/ q.status \in Queued /\ \E t : row'[d] = Claimed(q, t)
  <2>1. CASE UNCHANGED row
    BY <2>1, Zenon
  <2>2. ASSUME NEW S \in SUBSET Due([e \in Delivery |-> RequeueExpired(row[e])]), NEW f,
               row' = ClaimRows(S, f)
        PROVE  row'[d] = q \/ (q.status \in Queued /\ row'[d] = Claimed(q, f[d]))
    <3>1. d \in S => q.status \in Queued
      BY Zenon DEF Due
    <3> QED
      BY <2>2, <3>1, Zenon DEF ClaimRows
  <2> QED
    BY <2>1, <2>2, Zenon DEF Claim
<1>2. q.attempts = row[d].attempts /\ (q = row[d] \/ (row[d].status = "leased" /\ q.status = "retry"))
  BY DEF RequeueExpired, Unleased
<1>3. CASE row'[d] = row[d]
  BY <1>3 DEF RowSettles
<1>4. CASE row'[d] = q
  BY <1>2, <1>4, Zenon DEF RowSettles, Terminal
<1>5. ASSUME NEW t, q.status \in Queued, row'[d] = Claimed(q, t) PROVE RowSettles(d)
  BY <1>2, <1>5 DEF RowSettles, Claimed, Terminal, Queued
<1> QED
  BY <1>1, <1>3, <1>4, <1>5, Zenon

\* Finish settles the row of a live lease for the reason its outcome names.
LEMMA FinishSettles ==
  ASSUME IndInv, HistoryInv, NEW w \in Worker, NEW d \in Delivery, Defer(w, d) \/ Finish(w, d),
         NEW e \in Delivery
  PROVE  RowSettles(e)
<1>1. CASE row'[e] = row[e]
  BY <1>1, Zenon DEF RowSettles
<1>2. CASE row'[e] # row[e]
  <2>1. PICK status, wait :
          /\ e = d /\ HoldsLease(d, job[w][d].token)
          /\ row'[d] = Unleased(row[d], status, wait)
          /\ status = "retry" \/ (job[w][d].pc = "answered" /\ status = job[w][d].outcome)
    BY <1>2 DEF Defer, Finish, FinishRow, IndInv, TypeOK
  <2>2. status = "delivered" => d \in accepted
    BY <2>1, Zenon DEF HistoryInv
  <2>3. ASSUME status = "dead_letter" PROVE row[d].attempts = MaxAttempts \/ d \in rejected
    <3>1. row[d].attempts = job[w][d].tries + 1
      BY <2>1, <2>3, JobFacts, Zenon DEF HoldsLease
    <3>2. d \in rejected \/ job[w][d].tries + 1 >= MaxAttempts
      BY <2>1, <2>3, JobFacts, Zenon
    <3>3. row[d].attempts \in 0 .. MaxAttempts /\ job[w][d].tries \in 0 .. MaxAttempts
      BY JobFacts, Zenon DEF Row, Job
    <3> QED
      BY <3>1, <3>2, <3>3, ConfigAssumption
  <2>4. status \in {"retry", "delivered", "dead_letter"}
    BY <2>1, JobFacts, Zenon DEF Job
  <2> QED
    BY <2>1, <2>2, <2>3, <2>4 DEF RowSettles, Unleased, HoldsLease, Terminal
<1> QED
  BY <1>1, <1>2, Zenon

\* Time settles nothing.
LEMMA TickSettles ==
  ASSUME Tick, NEW d \in Delivery
  PROVE  RowSettles(d)
BY Zenon DEF Tick, RowTick, RowSettles

\* BeginAttempt either grants one attempt of an open delivery or settles.
LEMMA BeginAttemptStep ==
  ASSUME IndInv, NEW w \in Worker, NEW d \in Delivery, BeginAttempt(w, d)
  PROVE  \/ \A e \in Delivery : RowSettles(e)
         \/ MayBegin(d, job[w][d].token) /\ row'[d] = Begun(row[d], 1)
<1>1. \A e \in Delivery : e # d => RowSettles(e)
  BY BegunRow, Zenon DEF RowSettles
<1>2. CASE row'[d] = row[d]
  BY <1>1, <1>2, Zenon DEF RowSettles
<1>3. CASE Exhausted(d, job[w][d].token) /\ row'[d] = Unleased(row[d], "dead_letter", 0)
  <2>1. row[d].attempts = MaxAttempts /\ row[d].status = "leased"
    <3>1. row[d].attempts \in 0 .. MaxAttempts
      BY JobFacts DEF Row
    <3>2. row[d].attempts >= MaxAttempts /\ row[d].status = "leased"
      BY <1>3, Zenon DEF Exhausted
    <3> QED
      BY <3>1, <3>2, ConfigAssumption
  <2>2. RowSettles(d)
    BY <1>3, <2>1 DEF RowSettles, Unleased, Terminal
  <2> QED
    BY <1>1, <2>2, Zenon
<1> QED
  BY <1>2, <1>3, BegunRow, Zenon

\* Every step is a step of the promise or changes nothing the promise sees.
LEMMA PromiseStep ==
  ASSUME IndInv, HistoryInv, [Next]_vars
  PROVE  [Promise!ANext]_(Promise!avars)
<1> USE ConfigAssumption
<1>1. ASSUME NEW w \in Worker, CancelRevoked(w) \/ Claim(w) PROVE Promise!ANext
  BY <1>1, CancelRevokedSettles, ClaimSettles, SettleStep, Zenon DEF CancelRevoked, Claim
<1>2. ASSUME NEW w \in Worker, NEW d \in Delivery, Defer(w, d) \/ Finish(w, d) PROVE Promise!ANext
  BY <1>2, FinishSettles, SettleStep, Zenon DEF Defer, Finish
<1>3. CASE Tick
  BY <1>3, TickSettles, SettleStep, Zenon DEF Tick
<1>4. ASSUME NEW w \in Worker, NEW d \in Delivery, BeginAttempt(w, d) PROVE Promise!ANext
  <2>1. CASE \A e \in Delivery : RowSettles(e)
    BY <1>4, <2>1, SettleStep, Zenon DEF BeginAttempt
  <2>2. CASE MayBegin(d, job[w][d].token) /\ row'[d] = Begun(row[d], 1)
    <3>1. \A e \in Delivery : e # d => row'[e] = row[e]
      BY <1>4, BegunRow, Zenon
    <3>2. /\ row[d].status = "leased" /\ row[d].attempts < MaxAttempts /\ Dest[d] \in active
          /\ row'[d].status = "leased" /\ row'[d].attempts = row[d].attempts + 1
      BY <2>2 DEF MayBegin, Begun
    <3>3. [e \in Delivery |-> row'[e].attempts] =
            [[e \in Delivery |-> row[e].attempts] EXCEPT ![d] = @ + 1]
      BY <3>1, <3>2, Zenon
    <3>4. [e \in Delivery |-> IF row'[e].status \in Terminal THEN row'[e].status ELSE "open"] =
            [e \in Delivery |-> IF row[e].status \in Terminal THEN row[e].status ELSE "open"]
      BY <3>1, <3>2, Zenon DEF Terminal
    <3>5. UNCHANGED <<active, posts, accepted, rejected>>
      BY <1>4, Zenon DEF BeginAttempt
    <3>6. Promise!Grant(d)
      BY <3>2, <3>3, <3>4, <3>5, Zenon DEF Promise!Grant, Terminal
    <3> QED
      BY <3>6, Zenon DEF Promise!ANext
  <2> QED
    BY <1>4, <2>1, <2>2, BeginAttemptStep, Zenon
<1>5. ASSUME NEW w \in Worker, NEW d \in Delivery, SendRequest(w, d) PROVE Promise!ANext
  <2>1. posts[d] < row[d].attempts
    BY <1>5, JobFacts, Zenon DEF SendRequest
  <2>2. Promise!Send(d)
    BY <1>5, <2>1, Zenon DEF SendRequest, Promise!Send
  <2> QED
    BY <2>2, Zenon DEF Promise!ANext
<1>6. ASSUME NEW d \in Delivery, Receive(d) PROVE Promise!ANext
  <2>1. Promise!Accept(d)
    BY <1>6, Zenon DEF Receive, Promise!Accept
  <2> QED
    BY <2>1, Zenon DEF Promise!ANext
<1>7. ASSUME NEW w \in Worker, NEW d \in Delivery, PrepareFails(w, d) \/ Respond(w, d)
      PROVE  Promise!ANext \/ UNCHANGED Promise!avars
  <2>1. UNCHANGED <<row, active, posts, accepted>> /\ row[d].attempts > 0
    BY <1>7, Zenon DEF PrepareFails, Respond, HistoryInv
  <2>2. CASE UNCHANGED rejected
    BY <2>1, <2>2, Zenon DEF Promise!avars
  <2>3. CASE rejected' = rejected \cup {d}
    <3>1. Promise!Refuse(d)
      BY <2>1, <2>3, Zenon DEF Promise!Refuse
    <3> QED
      BY <3>1, Zenon DEF Promise!ANext
  <2> QED
    BY <1>7, <2>2, <2>3, Zenon DEF PrepareFails, Respond
<1>8. ASSUME NEW t \in Destination, Revoke(t) PROVE Promise!ANext
  <2> DEFINE D == {d \in Delivery : Dest[d] = t}
  <2>1. {d \in Delivery : Dest[d] \notin active'} = {d \in Delivery : Dest[d] \notin active} \cup D
    BY <1>8, Zenon DEF Revoke
  <2>2. Promise!RevokeSome(D)
    BY <1>8, <2>1, Zenon DEF Revoke, Promise!RevokeSome
  <2>3. D \in SUBSET Delivery
    BY Zenon
  <2> HIDE DEF D
  <2> QED
    BY <2>2, <2>3, Zenon DEF Promise!ANext
<1>9. ASSUME UNCHANGED <<row, active, posts, accepted, rejected>> PROVE UNCHANGED Promise!avars
  BY <1>9, Zenon DEF Promise!avars
<1>10. CASE LoseLock \/ UNCHANGED vars
  BY <1>9, <1>10, Zenon DEF LoseLock, vars
<1>11. ASSUME NEW w \in Worker, Start(w) \/ LockCheck(w) \/ Exit(w) \/ EndCycle(w)
       PROVE  UNCHANGED Promise!avars
  BY <1>9, <1>11, Zenon DEF Start, LockCheck, Exit, EndCycle
<1>12. ASSUME NEW w \in Worker, NEW d \in Delivery, Dispatch(w, d) PROVE UNCHANGED Promise!avars
  BY <1>9, <1>12 DEF Dispatch
<1> QED
  BY <1>1, <1>2, <1>3, <1>4, <1>5, <1>6, <1>7, <1>8, <1>10, <1>11, <1>12, Zenon
     DEF Next, WorkerStep, JobStep

\* Both invariants together.
LEMMA BothInvariants == Spec => [](IndInv /\ HistoryInv)
<1>1. Init => IndInv /\ HistoryInv
  BY InitIndInv, InitHistory, Zenon
<1>2. (IndInv /\ HistoryInv) /\ [Next]_vars => (IndInv /\ HistoryInv)'
  BY NextIndInv, NextHistory
<1> QED
  BY <1>1, <1>2, PTL DEF Spec

\* The worker implements the promise: whatever workers overlap, crash or lose a commit,
\* what receivers and rows see is a behaviour of AtLeastOnceDelivery.
THEOREM PromiseImplemented == Spec => ImplementsPromise
<1>1. Init => Promise!AInit
  BY ConfigAssumption DEF Init, Promise!AInit, Terminal
<1>2. IndInv /\ HistoryInv /\ [Next]_vars => [Promise!ANext]_(Promise!avars)
  BY PromiseStep
<1> QED
  BY <1>1, <1>2, BothInvariants, PTL DEF Spec, ImplementsPromise, Promise!ASpec

\* A settled row keeps its status and its attempts: no late Finish, requeue or claim
\* reopens it.
THEOREM TerminalForever == Spec => TerminalIsFinal
<1> DEFINE Kept == \A d \in Delivery : row[d].status \in Terminal =>
                     row'[d].status = row[d].status /\ row'[d].attempts = row[d].attempts
<1>1. ASSUME IndInv, HistoryInv, [Next]_vars PROVE Kept
  <2>1. ASSUME \A d \in Delivery : RowSettles(d) PROVE Kept
    BY <2>1, Zenon DEF RowSettles
  <2>2. ASSUME NEW w \in Worker, CancelRevoked(w) \/ Claim(w) PROVE Kept
    BY <1>1, <2>1, <2>2, CancelRevokedSettles, ClaimSettles, Zenon
  <2>3. ASSUME NEW w \in Worker, NEW d \in Delivery, Defer(w, d) \/ Finish(w, d) PROVE Kept
    BY <1>1, <2>1, <2>3, FinishSettles, Zenon
  <2>4. ASSUME NEW w \in Worker, NEW d \in Delivery, BeginAttempt(w, d) PROVE Kept
    <3>1. CASE MayBegin(d, job[w][d].token)
      <4>1. row[d].status \notin Terminal
        BY <3>1, Zenon DEF MayBegin, Terminal
      <4> QED
        BY <1>1, <2>4, <4>1, BegunRow, Zenon
    <3>2. CASE ~MayBegin(d, job[w][d].token)
      BY <1>1, <2>1, <2>4, <3>2, BeginAttemptStep, Zenon
    <3> QED
      BY <3>1, <3>2, Zenon
  <2>5. CASE Tick
    BY <2>1, <2>5, TickSettles, Zenon
  <2>6. CASE UNCHANGED row
    BY <2>6, Zenon
  <2>7. ASSUME NEW w \in Worker,
               Start(w) \/ LockCheck(w) \/ Exit(w) \/ EndCycle(w)
        PROVE  UNCHANGED row
    BY <2>7, Zenon DEF Start, LockCheck, Exit, EndCycle
  <2>8. ASSUME NEW w \in Worker, NEW d \in Delivery,
               Dispatch(w, d) \/ PrepareFails(w, d) \/ SendRequest(w, d) \/ Respond(w, d)
        PROVE  UNCHANGED row
    BY <2>8, Zenon DEF Dispatch, PrepareFails, SendRequest, Respond
  <2>9. CASE LoseLock \/ (\E d \in Delivery : Receive(d)) \/ (\E t \in Destination : Revoke(t))
             \/ UNCHANGED vars
    BY <2>6, <2>9 DEF LoseLock, Receive, Revoke, vars
  <2> HIDE DEF Kept
  <2> QED
    BY <1>1, <2>2, <2>3, <2>4, <2>5, <2>6, <2>7, <2>8, <2>9, Zenon DEF Next, WorkerStep, JobStep
<1> QED
  BY <1>1, BothInvariants, PTL DEF Spec, TerminalIsFinal

\* A worker that ends a job whose lease is no longer the row's leaves the row alone.
THEOREM StaleOwnersHarmless == Spec => StaleOwnerHarmless
<1> DEFINE Harmless == \A w \in Worker, d \in Delivery :
       /\ job[w][d].pc # "idle"
       /\ job[w][d].token # row[d].token
       /\ job'[w][d].pc = "idle"
       => row'[d] = row[d]
<1>1. ASSUME IndInv, HistoryInv, [Next]_vars PROVE Harmless
  <2> SUFFICES ASSUME NEW w \in Worker, NEW d \in Delivery, job[w][d].pc # "idle",
                      job[w][d].token # row[d].token, job'[w][d].pc = "idle"
               PROVE  row'[d] = row[d]
    BY Zenon
  <2>1. phase[w] = "drain"
    BY <1>1, Zenon DEF HistoryInv
  <2>2. ASSUME NEW v \in Worker, CancelRevoked(v) \/ Claim(v) PROVE FALSE
    <3>1. phase[v] # "drain"
      BY <2>2, Zenon DEF CancelRevoked, Claim
    <3>2. job'[w][d] = job[w][d]
      BY <1>1, <2>1, <2>2, <3>1, Zenon DEF CancelRevoked, Claim, IndInv, TypeOK
    <3> QED
      BY <3>2, Zenon
  <2>3. CASE Tick
    BY <2>3, Zenon DEF Tick, Moved
  <2>4. ASSUME NEW v \in Worker, NEW e \in Delivery, Defer(v, e) \/ Finish(v, e) \/ BeginAttempt(v, e)
        PROVE  row'[d] = row[d]
    <3>1. CASE v = w /\ e = d
      BY Zenon, <1>1, <2>4, <3>1 DEF Defer, Finish, FinishRow, HoldsLease, BeginAttempt, BeginRow,
                              MayBegin, Exhausted
    <3>2. CASE ~(v = w /\ e = d)
      <4>1. job'[w][d] = job[w][d]
        BY <1>1, <2>4, <3>2 DEF Defer, Finish, BeginAttempt, IndInv, TypeOK
      <4> QED
        BY <4>1, Zenon
    <3> QED
      BY <3>1, <3>2, Zenon
  <2>5. ASSUME NEW v \in Worker,
               Start(v) \/ LockCheck(v) \/ Exit(v) \/ EndCycle(v)
        PROVE  UNCHANGED row
    BY <2>5 DEF Start, LockCheck, Exit, EndCycle
  <2>6. ASSUME NEW v \in Worker, NEW e \in Delivery,
               Dispatch(v, e) \/ PrepareFails(v, e) \/ SendRequest(v, e) \/ Respond(v, e)
        PROVE  UNCHANGED row
    BY <2>6 DEF Dispatch, PrepareFails, SendRequest, Respond
  <2>7. CASE LoseLock \/ (\E e \in Delivery : Receive(e)) \/ (\E t \in Destination : Revoke(t))
             \/ UNCHANGED vars
    BY <2>7, Zenon DEF LoseLock, Receive, Revoke, vars
  <2> QED
    BY <1>1, <2>2, <2>3, <2>4, <2>5, <2>6, <2>7, Zenon DEF Next, WorkerStep, JobStep
<1> QED
  BY <1>1, BothInvariants, PTL DEF Spec, StaleOwnerHarmless
===============================================================================
