--------------------------- MODULE SdkOutboxProofs ---------------------------
(***************************************************************************)
(* Proofs about the outbox of the SDK, for every finite set of clients and *)
(* of tasks.                                                               *)
(*                                                                         *)
(* The plans of a single record come first. Then every step is shown to    *)
(* change the rows in one of four ways (StoreStep), from which all that is *)
(* said about rows follows. What a task knows, and what each call promises *)
(* its caller, comes last.                                                 *)
(***************************************************************************)
EXTENDS SdkOutbox, FiniteSetTheorems, TLAPS

\* A task never knows a revision the store has not had, and has a client while it runs.
ViewsPast ==
  \A t \in Task : task[t].rev <= revision /\ (task[t].pc # "idle" => task[t].client \in Client)

\* Every row is one that decode_envelope accepts.
RowsValid == \A c \in Pending : ValidRecord(pending[c])

IndInv == OutboxInv /\ ViewsPast /\ RowsValid

------------------------------------------------------------------------------
(* The plans of one record *)

\* What any plan makes of a valid record r: a valid record with no fewer attempts, which can be
\* sent only in the generation at.
Follows(r, q, at) ==
  /\ q \in Record /\ ValidRecord(q)
  /\ q.attempts >= r.attempts
  /\ q.state \in Sendable => q.gen = at /\ r.state # "PermanentFailure"

\* The record q tells of a failure that r does not know.
Blamed(r, q) == q.code # r.code /\ q.code \in {"TEMPORARY", "AUTH", "PERMANENT"}

\* The limits are numbers.
LEMMA Limits ==
  /\ MaxAttempts \in Nat \ {0} /\ MaxRetryAge \in Nat \ {0} /\ InFlightTimeout \in Nat \ {0}
  /\ MaxWord \in Nat /\ 0 \in Word
  BY RecordAssumption DEF Word

\* The numbers of a record.
Numbers(r) ==
  /\ r.attempts \in Nat /\ r.attempts <= MaxAttempts
  /\ r.gen \in Nat /\ r.conn \in Nat
  /\ r.created \in Nat /\ r.created <= MaxWord
  /\ r.deadline \in Nat /\ r.deadline <= MaxWord

\* The fields of a stored record.
LEMMA Fields == ASSUME NEW r \in Record PROVE r.state \in State /\ r.code \in Code /\ Numbers(r)
  BY Limits DEF Record, Word, Numbers

\* The codes of each state.
LEMMA Codes ==
  /\ CodesOf("Ready") = {"NONE"} /\ CodesOf("InFlight") = {"NONE"}
  /\ CodesOf("RetryWait") = {"TEMPORARY", "RESUMED"}
  /\ CodesOf("AuthRecovery") = {"AUTH", "GENERATION"}
  /\ CodesOf("PermanentFailure") = {"PERMANENT", "EXHAUSTED"}
  BY DEF CodesOf

\* with_state: what it sets, and what it keeps.
LEMMA Made ==
  ASSUME NEW r \in Record, NEW s \in State, NEW a \in 0 .. MaxAttempts, NEW d \in Word, NEW code \in Code
  PROVE  LET q == MakeRecord(r, s, a, d, code)
         IN  /\ q \in Record /\ q.state = s /\ q.attempts = a /\ q.deadline = d /\ q.code = code
             /\ q.gen = r.gen /\ q.conn = r.conn /\ q.created = r.created
<1> HIDE DEF Code, State
<1> QED
  BY DEF MakeRecord, Record

\* A record that has failed for good is valid whatever it was before.
LEMMA TerminalFollows ==
  ASSUME NEW r \in Record, ValidRecord(r), NEW at, NEW code \in {"PERMANENT", "EXHAUSTED"}
  PROVE  Follows(r, Terminal(r, code), at) /\ Terminal(r, code).code = code
<1> DEFINE q == Terminal(r, code)
<1>0. Numbers(r)
  BY Fields
<1>1. /\ q \in Record /\ q.state = "PermanentFailure" /\ q.attempts = r.attempts
      /\ q.deadline = 0 /\ q.code = code
  BY Limits DEF Terminal, MakeRecord, Record, State, Code
<1> HIDE DEF q
<1>2. q.code \in CodesOf(q.state)
  BY <1>1, Codes, Zenon
<1>3. ValidRecord(q)
  BY <1>0, <1>1, <1>2 DEF Numbers, ValidRecord
<1>4. Follows(r, q, at)
  BY <1>0, <1>1, <1>3 DEF Numbers, Follows, Sendable
<1> QED
  BY <1>1, <1>4 DEF q

\* So is one that waits for authentication.
LEMMA RecoveryFollows ==
  ASSUME NEW r \in Record, ValidRecord(r), NEW at, NEW code \in {"AUTH", "GENERATION"}
  PROVE  Follows(r, Recovery(r, code), at) /\ Recovery(r, code).code = code
<1> DEFINE q == Recovery(r, code)
<1>0. Numbers(r)
  BY Fields
<1>1. /\ q \in Record /\ q.state = "AuthRecovery" /\ q.attempts = r.attempts
      /\ q.deadline = 0 /\ q.code = code
  BY Limits DEF Recovery, MakeRecord, Record, State, Code
<1> HIDE DEF q
<1>2. q.code \in CodesOf(q.state)
  BY <1>1, Codes, Zenon
<1>3. ValidRecord(q)
  BY <1>0, <1>1, <1>2 DEF Numbers, ValidRecord
<1>4. Follows(r, q, at)
  BY <1>0, <1>1, <1>3 DEF Numbers, Follows, Sendable
<1> QED
  BY <1>1, <1>4 DEF q

\* with_in_flight: one attempt more, and a deadline no later than the end of the record's age.
LEMMA SentFollows ==
  ASSUME NEW r \in Record, ValidRecord(r), r.state \in Sendable, ~AgeOverflows(r),
         NEW a \in 0 .. MaxAttempts, a > r.attempts,
         NEW d \in Word, d > r.created, d <= AgeDeadline(r)
  PROVE  LET q == MakeRecord(r, "InFlight", a, d, "NONE")
         IN  Follows(r, q, r.gen) /\ q.code = "NONE" /\ q.attempts = a
<1> DEFINE q == MakeRecord(r, "InFlight", a, d, "NONE")
<1>0. Numbers(r) /\ "InFlight" \in State /\ "NONE" \in Code
  BY Fields DEF State, Sendable, Code
<1>a. a \in Nat /\ d \in Nat
  BY Limits DEF Word
<1>1. /\ q \in Record /\ q.state = "InFlight" /\ q.attempts = a /\ q.deadline = d /\ q.code = "NONE"
      /\ q.gen = r.gen /\ q.created = r.created
  BY <1>0, Made
<1> HIDE DEF q
<1>2. q.code \in CodesOf(q.state)
  BY <1>1, Codes, Zenon
<1>3. ValidRecord(q)
  BY <1>a, <1>0, <1>1, <1>2, Limits DEF Numbers, ValidRecord, AgeOverflows, AgeDeadline
<1>4. Follows(r, q, r.gen)
  BY <1>a, <1>0, <1>1, <1>3 DEF Numbers, Follows, Sendable
<1> QED
  BY <1>1, <1>4 DEF q

\* dispatch_plan: the record that is sent has one attempt more.
LEMMA DispatchFollows ==
  ASSUME NEW r \in Record, ValidRecord(r), NEW fence_ \in Nat, NEW gen_ \in Nat, NEW conn_ \in Nat, NEW n \in Word,
         NEW plan, plan = DispatchPlan(r, fence_, gen_, conn_, n)
  PROVE  /\ plan.do \in {"nothing", "persist", "send"}
         /\ plan.do = "nothing" => plan.rec = r
         /\ plan.do # "nothing" => Follows(r, plan.rec, fence_) /\ ~Blamed(r, plan.rec)
         /\ plan.do = "send" => plan.rec.attempts = r.attempts + 1
<1>0. Numbers(r)
  BY Fields
<1>1. CASE r.state \notin Sendable
  BY <1>1 DEF DispatchPlan, Nothing
<1>2. CASE r.state \in Sendable /\ GenerationChanged(r, fence_, gen_)
  <2>1. plan = Persist(Recovery(r, "GENERATION"))
    BY <1>2 DEF DispatchPlan
  <2>2. plan.do = "persist" /\ plan.rec = Recovery(r, "GENERATION")
    BY <2>1 DEF Persist
  <2>3. Follows(r, Recovery(r, "GENERATION"), fence_) /\ Recovery(r, "GENERATION").code = "GENERATION"
    BY RecoveryFollows, Zenon
  <2> QED
    BY <2>2, <2>3 DEF Blamed
<1>3. CASE r.state \in Sendable /\ ~GenerationChanged(r, fence_, gen_)
  <2> DEFINE a == r.attempts + 1
             d == InFlightDeadline(r, n)
             q == MakeRecord(r, "InFlight", a, d, "NONE")
  <2>1. \/ plan = Nothing(r)
        \/ plan = Persist(Terminal(r, "EXHAUSTED"))
        \/ /\ plan = Send(q)
           /\ ~Exhausted(r, n) /\ ~(n < r.created) /\ ~(n + InFlightTimeout > MaxWord)
    BY <1>3 DEF DispatchPlan
  <2> HIDE DEF q
  <2>2. CASE plan = Nothing(r)
    BY <2>2 DEF Nothing
  <2>3. CASE plan = Persist(Terminal(r, "EXHAUSTED"))
    <3>1. plan.do = "persist" /\ plan.rec = Terminal(r, "EXHAUSTED")
      BY <2>3 DEF Persist
    <3>2. Follows(r, Terminal(r, "EXHAUSTED"), fence_) /\ Terminal(r, "EXHAUSTED").code = "EXHAUSTED"
      BY TerminalFollows
    <3> QED
      BY <3>1, <3>2 DEF Blamed
  <2>4. CASE /\ plan = Send(q)
             /\ ~Exhausted(r, n) /\ ~(n < r.created) /\ ~(n + InFlightTimeout > MaxWord)
    <3>1. n \in Nat /\ n <= MaxWord /\ AgeDeadline(r) \in Nat /\ AgeDeadline(r) > r.created
      BY Limits, <1>0 DEF Numbers, AgeDeadline, Word
    <3>2. ~AgeOverflows(r) /\ AgeDeadline(r) <= MaxWord /\ r.attempts < MaxAttempts
      BY <2>4, Limits, <1>0 DEF Numbers, Exhausted, AgeOverflows, AgeDeadline
    <3>3. d \in Word /\ d > r.created /\ d <= AgeDeadline(r)
      BY <2>4, <3>1, <3>2, Limits, <1>0 DEF Numbers, InFlightDeadline, Word
    <3>4. a \in 0 .. MaxAttempts /\ a > r.attempts
      BY <1>0, <3>2, Limits DEF Numbers
    <3>5. r.gen = fence_
      BY <1>3 DEF GenerationChanged
    <3> HIDE DEF a, d
    <3>6. Follows(r, q, r.gen) /\ q.code = "NONE" /\ q.attempts = a
      BY <1>3, <3>2, <3>3, <3>4, SentFollows DEF q
    <3>7. plan.do = "send" /\ plan.rec = q
      BY <2>4 DEF Send
    <3>8. Follows(r, plan.rec, fence_) /\ ~Blamed(r, plan.rec)
      BY <3>5, <3>6, <3>7, Zenon DEF Blamed
    <3> QED
      BY <3>6, <3>7, <3>8 DEF a
  <2> QED
    BY <2>1, <2>2, <2>3, <2>4, Zenon
<1> QED
  BY <1>1, <1>2, <1>3

\* retry_deadline: a record that waits for its next attempt, in whatever generation it is bound to.
LEMMA WaitsFollows ==
  ASSUME NEW r \in Record, ValidRecord(r), r.state # "PermanentFailure",
         NEW g \in Nat, NEW k \in Nat, NEW n \in Word, NEW delay \in Nat, RetryFits(r, n, delay),
         NEW code \in {"TEMPORARY", "RESUMED"}, r.attempts > 0 \/ code = "RESUMED"
  PROVE  LET q == [state |-> "RetryWait", attempts |-> r.attempts, gen |-> g, conn |-> k,
                   created |-> r.created, deadline |-> RetryDeadline(r, n, delay), code |-> code]
         IN  Follows(r, q, g) /\ q.code = code
<1> DEFINE d == RetryDeadline(r, n, delay)
           q == [state |-> "RetryWait", attempts |-> r.attempts, gen |-> g, conn |-> k,
                 created |-> r.created, deadline |-> d, code |-> code]
<1>0. Numbers(r) /\ "RetryWait" \in State /\ code \in Code /\ r.attempts \in 0 .. MaxAttempts
  BY Fields, Limits DEF State, Sendable, Code, Numbers
<1>1. d \in Nat /\ d > r.created /\ d <= MaxWord /\ d < AgeDeadline(r) /\ ~AgeOverflows(r)
  BY <1>0, Limits DEF Numbers, RetryFits, RetryDeadline, Word, AgeDeadline, AgeOverflows
<1>2. d \in Word /\ r.created \in Word
  BY <1>0, <1>1, Limits DEF Word, Numbers
<1> HIDE DEF d
<1>3. q \in Record
  BY <1>0, <1>2 DEF Record
<1>4. /\ q.state = "RetryWait" /\ q.attempts = r.attempts /\ q.deadline = d /\ q.code = code
      /\ q.gen = g /\ q.created = r.created
  OBVIOUS
<1> HIDE DEF q
<1>5. q.code \in CodesOf(q.state)
  BY <1>4, Codes, Zenon
<1>6. ValidRecord(q)
  BY <1>0, <1>1, <1>4, <1>5, Limits, Zenon DEF Numbers, ValidRecord, AgeOverflows, AgeDeadline
<1>7. Follows(r, q, g)
  BY <1>0, <1>3, <1>4, <1>6 DEF Numbers, Follows
<1> QED
  BY <1>4, <1>7 DEF q, d

\* The backoff is a number.
LEMMA DelayIsNat == ASSUME NEW r \in Record, r.attempts > 0 PROVE Delay(r) \in Nat
<1>1. r.attempts \in Nat /\ r.attempts <= MaxAttempts
  BY Fields DEF Numbers
<1>2. r.attempts - 1 \in 0 .. MaxAttempts
  BY <1>1, Limits
<1>3. 2^(r.attempts - 1) \in Nat
  BY <1>2, RecordAssumption
<1>4. \A x \in Nat : (IF BaseRetryDelay * x < MaxRetryDelay THEN BaseRetryDelay * x ELSE MaxRetryDelay) \in Nat
  BY RecordAssumption
<1> QED
  BY <1>3, <1>4 DEF Delay

\* failure_plan: a failure is held against a record only if it came over the record's connection.
LEMMA FailureFollows ==
  ASSUME NEW r \in Record, ValidRecord(r), NEW fence_ \in Nat, NEW gen_ \in Nat, NEW conn_ \in Nat, NEW n \in Word,
         NEW disp \in Disposition, NEW plan, plan = FailurePlan(r, fence_, gen_, conn_, n, disp)
  PROVE  /\ plan.do \in {"nothing", "persist"}
         /\ plan.do = "nothing" => plan.rec = r
         /\ plan.do # "nothing" => Follows(r, plan.rec, fence_) /\ (Blamed(r, plan.rec) => r.conn = conn_)
<1> DEFINE q == MakeRecord(r, "RetryWait", r.attempts, RetryDeadline(r, n, Delay(r)), "TEMPORARY")
<1>1. \/ plan = Nothing(r)
      \/ plan = Persist(Recovery(r, "GENERATION"))
      \/ r.conn = conn_ /\ plan = Persist(Terminal(r, "PERMANENT"))
      \/ r.conn = conn_ /\ plan = Persist(Recovery(r, "AUTH"))
      \/ r.conn = conn_ /\ plan = Persist(Terminal(r, "EXHAUSTED"))
      \/ /\ plan = Persist(q)
         /\ r.conn = conn_ /\ r.state = "InFlight" /\ r.gen = fence_ /\ RetryFits(r, n, Delay(r))
  BY DEF FailurePlan, Unrelated, GenerationChanged
<1> HIDE DEF q
<1>2. CASE plan = Nothing(r)
  BY <1>2 DEF Nothing
<1>3. CASE plan = Persist(Recovery(r, "GENERATION"))
  <2>1. plan.do = "persist" /\ plan.rec = Recovery(r, "GENERATION")
    BY <1>3 DEF Persist
  <2>2. Follows(r, Recovery(r, "GENERATION"), fence_) /\ Recovery(r, "GENERATION").code = "GENERATION"
    BY RecoveryFollows
  <2> QED
    BY <2>1, <2>2 DEF Blamed
<1>4. CASE r.conn = conn_ /\ plan = Persist(Recovery(r, "AUTH"))
  <2>1. plan.do = "persist" /\ plan.rec = Recovery(r, "AUTH")
    BY <1>4 DEF Persist
  <2> QED
    BY <1>4, <2>1, RecoveryFollows
<1>5. ASSUME NEW code \in {"PERMANENT", "EXHAUSTED"}, r.conn = conn_, plan = Persist(Terminal(r, code))
      PROVE  /\ plan.do = "persist" /\ Follows(r, plan.rec, fence_) /\ r.conn = conn_
  <2>1. plan.do = "persist" /\ plan.rec = Terminal(r, code)
    BY <1>5 DEF Persist
  <2> QED
    BY <1>5, <2>1, TerminalFollows
<1>6. CASE /\ plan = Persist(q)
           /\ r.conn = conn_ /\ r.state = "InFlight" /\ r.gen = fence_ /\ RetryFits(r, n, Delay(r))
  <2>1. plan.do = "persist" /\ plan.rec = q
    BY <1>6 DEF Persist
  <2>2. r.attempts > 0 /\ r.gen \in Nat /\ r.conn \in Nat
    BY <1>6, Fields DEF ValidRecord, Numbers
  <2>3. Delay(r) \in Nat
    BY <2>2, DelayIsNat
  <2>4. Follows(r, q, r.gen)
    BY <1>6, <2>2, <2>3, WaitsFollows, Zenon DEF q, MakeRecord
  <2> QED
    BY <1>6, <2>1, <2>4
<1> QED
  BY <1>1, <1>2, <1>3, <1>4, <1>5, <1>6, Zenon

\* rebind_connection: nothing but the connection changes, and the generation is the store's.
LEMMA RebindFollows ==
  ASSUME NEW r \in Record, ValidRecord(r), NEW fence_ \in Nat, NEW gen_ \in Nat, NEW conn_ \in Nat,
         NEW plan, plan = RebindPlan(r, fence_, gen_, conn_)
  PROVE  /\ plan.do \in {"nothing", "persist"}
         /\ plan.do = "nothing" => plan.rec = r
         /\ plan.do # "nothing" => Follows(r, plan.rec, fence_) /\ ~Blamed(r, plan.rec)
<1> DEFINE q == [r EXCEPT !.conn = conn_]
<1>0. Numbers(r)
  BY Fields
<1>1. plan = Nothing(r) \/ (plan = Persist(q) /\ r.gen = fence_ /\ r.state \in Sendable)
  BY DEF RebindPlan
<1>2. CASE plan = Nothing(r)
  BY <1>2 DEF Nothing
<1>3. CASE plan = Persist(q) /\ r.gen = fence_ /\ r.state \in Sendable
  <2>1. plan.do = "persist" /\ plan.rec = q
    BY <1>3 DEF Persist
  <2>2. /\ q \in Record /\ q.state = r.state /\ q.attempts = r.attempts /\ q.deadline = r.deadline
        /\ q.code = r.code /\ q.gen = r.gen /\ q.created = r.created
    BY DEF Record
  <2> HIDE DEF q
  <2>3. ValidRecord(q)
    BY <2>2 DEF ValidRecord, AgeOverflows, AgeDeadline
  <2>4. Follows(r, q, fence_) /\ ~Blamed(r, q)
    BY <1>0, <1>3, <2>2, <2>3 DEF Numbers, Follows, Sendable, Blamed
  <2> QED
    BY <2>1, <2>4
<1> QED
  BY <1>1, <1>2, <1>3

\* resume_auth: the record is bound to the caller's generation, which is the store's.
LEMMA ResumeFollows ==
  ASSUME NEW r \in Record, ValidRecord(r), NEW fence_ \in Nat, NEW gen_ \in Nat, NEW conn_ \in Nat, NEW n \in Word,
         NEW plan, plan = ResumePlan(r, fence_, gen_, conn_, n)
  PROVE  /\ plan.do \in {"nothing", "persist"}
         /\ plan.do = "nothing" => plan.rec = r
         /\ plan.do # "nothing" => Follows(r, plan.rec, fence_) /\ ~Blamed(r, plan.rec)
<1> DEFINE q == [state |-> "RetryWait", attempts |-> r.attempts, gen |-> gen_, conn |-> conn_,
                 created |-> r.created, deadline |-> RetryDeadline(r, n, 0), code |-> "RESUMED"]
<1>1. \/ plan = Nothing(r)
      \/ plan = Persist(Terminal(r, "EXHAUSTED"))
      \/ plan = Persist(q) /\ gen_ = fence_ /\ r.state = "AuthRecovery" /\ RetryFits(r, n, 0)
  BY DEF ResumePlan
<1> HIDE DEF q
<1>2. CASE plan = Nothing(r)
  BY <1>2 DEF Nothing
<1>3. CASE plan = Persist(Terminal(r, "EXHAUSTED"))
  <2>1. plan.do = "persist" /\ plan.rec = Terminal(r, "EXHAUSTED")
    BY <1>3 DEF Persist
  <2>2. Follows(r, Terminal(r, "EXHAUSTED"), fence_) /\ Terminal(r, "EXHAUSTED").code = "EXHAUSTED"
    BY TerminalFollows
  <2> QED
    BY <2>1, <2>2, Zenon DEF Blamed
<1>4. CASE plan = Persist(q) /\ gen_ = fence_ /\ r.state = "AuthRecovery" /\ RetryFits(r, n, 0)
  <2>1. plan.do = "persist" /\ plan.rec = q
    BY <1>4 DEF Persist
  <2>2. Follows(r, q, gen_) /\ q.code = "RESUMED"
    BY <1>4, WaitsFollows, Zenon DEF q
  <2> QED
    BY <1>4, <2>1, <2>2 DEF Blamed
<1> QED
  BY <1>1, <1>2, <1>3, <1>4, Zenon

------------------------------------------------------------------------------
(* What a step does to the rows *)

Rows == [Client -> Record \cup {NoRecord}]
Kinds == [Client -> {"none", "present", "trimmed"}]

\* The ways in which a transaction may treat row c: it stays, it is enqueued, a plan replaces it,
\* or it goes with its message stored or from a state that is never sent.
RowStep(c) ==
  \/ pending'[c] = pending[c]
  \/ /\ pending[c] = NoRecord /\ messages[c] = "none"
     /\ pending'[c] \in Record /\ ValidRecord(pending'[c])
  \/ /\ pending[c] # NoRecord
     /\ Follows(pending[c], pending'[c], gen)
     /\ Blamed(pending[c], pending'[c]) => <<c, pending[c].conn>> \in sent
  \/ /\ pending[c] # NoRecord /\ pending'[c] = NoRecord
     /\ messages'[c] # "none" \/ pending[c].state \in {"AuthRecovery", "PermanentFailure"}

\* Each step leaves the store alone or is one transaction that treats every row in such a way.
StoreStep ==
  \/ UNCHANGED store
  \/ /\ Write(pending', messages', last')
     /\ pending' \in Rows /\ messages' \in Kinds /\ last' \in Client \cup {NoClient}
     /\ \A c \in Client : RowStep(c)

\* No record is taken for a missing one.
LEMMA RecordsExist == NoRecord \notin Record
  BY DEF NoRecord, Record, State, Sendable

\* What the invariant says of the store.
LEMMA StoreTypes ==
  ASSUME IndInv
  PROVE  /\ pending \in Rows /\ messages \in Kinds /\ last \in Client \cup {NoClient}
         /\ gen \in Nat /\ fence \in Nat /\ revision \in Nat /\ now \in Word
         /\ ctx.gen \in Nat /\ ctx.conn \in Nat
         /\ faults \in 0 .. MaxFaults
         /\ \A c \in Client : pending[c] # NoRecord => pending[c] \in Record /\ ValidRecord(pending[c])
  BY DEF IndInv, OutboxInv, TypeOK, Rows, Kinds, RowsValid, Pending

\* One row becomes r.
LEMMA OneRow ==
  ASSUME IndInv, NEW c \in Client, NEW r \in Record \cup {NoRecord}, NEW m \in Kinds, NEW l \in Client \cup {NoClient},
         Write([pending EXCEPT ![c] = r], m, l),
         pending'[c] = r => RowStep(c)
  PROVE  StoreStep
<1>1. pending \in Rows
  BY StoreTypes, Zenon
<1>2. pending' = [pending EXCEPT ![c] = r] /\ messages' = m /\ last' = l
  BY DEF Write
<1>3. pending' \in Rows /\ pending'[c] = r /\ \A x \in Client : x # c => pending'[x] = pending[x]
  BY <1>1, <1>2, Zenon DEF Rows
<1>4. \A x \in Client : RowStep(x)
  BY <1>3 DEF RowStep
<1>5. Write(pending', messages', last')
  BY <1>2
<1> QED
  BY <1>2, <1>3, <1>4, <1>5, Zenon DEF StoreStep

\* A transaction writes what it was given or nothing, and only a failed one freezes the adapter.
LEMMA Outcome ==
  ASSUME NEW p, NEW m, NEW l, faults \in 0 .. MaxFaults,
         Commits(p, m, l) \/ CommitFails(p, m, l)
  PROVE  /\ UNCHANGED store \/ Write(p, m, l)
         /\ frozen' = frozen \/ frozen' = TRUE
         /\ faults' \in 0 .. MaxFaults
<1>1. MaxFaults \in Nat
  BY OutboxAssumption
<1>2. CASE Commits(p, m, l)
  BY <1>2 DEF Commits
<1>3. CASE CommitFails(p, m, l)
  <2>1. faults' \in 0 .. MaxFaults
    BY <1>1, <1>3 DEF CommitFails, Fault
  <2>2. /\ UNCHANGED store \/ Write(p, m, l)
        /\ frozen' = frozen \/ frozen' = TRUE
    BY <1>3, Zenon DEF CommitFails
  <2> QED
    BY <2>1, <2>2
<1> QED
  BY <1>2, <1>3, Zenon

\* What a call on the store leaves of it and of the adapter.
Called ==
  /\ StoreStep
  /\ frozen' = frozen \/ frozen' = TRUE
  /\ faults' \in 0 .. MaxFaults

\* A call that the store refuses leaves the rows alone.
LEMMA RefusedCall == ASSUME IndInv, Refused PROVE Called
  BY StoreTypes, Zenon DEF Refused, Called, StoreStep

\* A record that may be written is the row as it is on disk, in the generation on disk.
LEMMA ViewIsRow ==
  ASSUME IndInv, NEW t \in Task, task[t].pc = "loaded", MayMutate(task[t].client, task[t].rev)
  PROVE  /\ task[t].client \in Client
         /\ task[t].rec = pending[task[t].client] /\ pending[task[t].client] # NoRecord
         /\ task[t].rec \in Record /\ ValidRecord(task[t].rec)
         /\ fence = gen
<1>1. task[t].client \in Client /\ task[t].rec = pending[task[t].client]
  BY DEF IndInv, OutboxInv, TypeOK, ViewCurrent, MayMutate
<1>2. fence = gen /\ pending[task[t].client] # NoRecord
  BY Zenon DEF IndInv, OutboxInv, FenceCurrent, MayMutate
<1> QED
  BY <1>1, <1>2, StoreTypes, Zenon

\* update_pending with a record that follows from the row.
LEMMA UpdateCall ==
  ASSUME IndInv, NEW t \in Task, task[t].pc = "loaded", NEW r,
         MayMutate(task[t].client, task[t].rev) =>
           /\ Follows(task[t].rec, r, fence)
           /\ Blamed(task[t].rec, r) => <<task[t].client, task[t].rec.conn>> \in sent,
         NEW p, p = [pending EXCEPT ![task[t].client] = r],
         MayMutate(task[t].client, task[t].rev),
         Commits(p, messages, last) \/ CommitFails(p, messages, last)
  PROVE  Called
<1> DEFINE c == task[t].client
<1>1. c \in Client /\ task[t].rec = pending[c] /\ pending[c] # NoRecord /\ fence = gen
  BY ViewIsRow, Zenon
<1>2. /\ Follows(pending[c], r, gen)
      /\ Blamed(pending[c], r) => <<c, pending[c].conn>> \in sent
  BY <1>1, Zenon
<1>3. r \in Record /\ messages \in Kinds /\ last \in Client \cup {NoClient} /\ faults \in 0 .. MaxFaults
  BY <1>2, StoreTypes DEF Follows
<1> HIDE DEF c
<1>4. /\ UNCHANGED store \/ Write(p, messages, last)
      /\ frozen' = frozen \/ frozen' = TRUE
      /\ faults' \in 0 .. MaxFaults
  BY <1>3, Outcome, Zenon
<1>5. pending'[c] = r => RowStep(c)
  BY <1>1, <1>2 DEF RowStep
<1>6. Write(p, messages, last) => StoreStep
  BY <1>1, <1>3, <1>5, OneRow, Zenon DEF c
<1> QED
  BY <1>4, <1>6, Zenon DEF Called, StoreStep

\* update_pending as a whole.
LEMMA UpdateStep ==
  ASSUME IndInv, NEW t \in Task, task[t].pc = "loaded", NEW r,
         MayMutate(task[t].client, task[t].rev) =>
           /\ Follows(task[t].rec, r, fence)
           /\ Blamed(task[t].rec, r) => <<task[t].client, task[t].rec.conn>> \in sent,
         Update(task[t].client, task[t].rev, r)
  PROVE  Called
<1>1. CASE MayMutate(task[t].client, task[t].rev) /\ ValidRecord(r)
  BY <1>1, UpdateCall, Zenon DEF Update
<1>2. CASE ~(MayMutate(task[t].client, task[t].rev) /\ ValidRecord(r))
  BY <1>2, RefusedCall, Zenon DEF Update
<1> QED
  BY <1>1, <1>2, Zenon

\* plan_dispatch lets task t send: the attempt is on disk.
Granted(t) ==
  LET c == task[t].client
  IN  /\ c \in Client
      /\ task' = [task EXCEPT ![t] = [pc |-> "sending", client |-> c, rev |-> 0, rec |-> NoRecord]]
      /\ Write(pending', messages', last')
      /\ pending[c] \in Record /\ pending'[c] \in Record
      /\ pending'[c].attempts = pending[c].attempts + 1

\* A call of task t on the row it loaded.
CallStep(t) ==
  /\ Called
  /\ EndTask(t) \/ Granted(t)
  /\ UNCHANGED <<gen, fence, conn, ctx, now, net>>

\* plan_dispatch is a compare-and-put of the row that was read.
LEMMA DispatchCall == ASSUME IndInv, NEW t \in Task, PlanDispatch(t) PROVE CallStep(t)
<1> DEFINE c == task[t].client
           plan == DispatchPlan(task[t].rec, fence, ctx.gen, ctx.conn, now)
           p == [pending EXCEPT ![c] = plan.rec]
<1>0. task[t].pc = "loaded" /\ UNCHANGED <<gen, fence, conn, ctx, now, net>>
  BY Zenon DEF PlanDispatch
<1>1. MayMutate(c, task[t].rev) =>
        /\ plan.do # "nothing" => Follows(task[t].rec, plan.rec, fence) /\ ~Blamed(task[t].rec, plan.rec)
        /\ plan.do = "send" => plan.rec.attempts = task[t].rec.attempts + 1
  <2> SUFFICES ASSUME MayMutate(c, task[t].rev)
               PROVE  /\ plan.do # "nothing" => Follows(task[t].rec, plan.rec, fence) /\ ~Blamed(task[t].rec, plan.rec)
                      /\ plan.do = "send" => plan.rec.attempts = task[t].rec.attempts + 1
    BY Zenon
  <2>1. task[t].rec \in Record /\ ValidRecord(task[t].rec)
    BY <1>0, ViewIsRow
  <2>2. fence \in Nat /\ ctx.gen \in Nat /\ ctx.conn \in Nat /\ now \in Word
    BY StoreTypes
  <2> HIDE DEF plan
  <2>3. plan = DispatchPlan(task[t].rec, fence, ctx.gen, ctx.conn, now)
    BY DEF plan
  <2> QED
    BY <2>1, <2>2, <2>3, DispatchFollows
<1>2. \/ /\ plan.do = "send"
         /\ MayMutate(c, task[t].rev)
         /\ Commits(p, messages, last)
         /\ task' = [task EXCEPT ![t] = [pc |-> "sending", client |-> c, rev |-> 0, rec |-> NoRecord]]
      \/ /\ plan.do = "send"
         /\ MayMutate(c, task[t].rev)
         /\ CommitFails(p, messages, last)
         /\ EndTask(t)
      \/ /\ plan.do = "persist"
         /\ Update(c, task[t].rev, plan.rec)
         /\ EndTask(t)
      \/ Refused /\ EndTask(t)
  BY Zenon DEF PlanDispatch
<1> HIDE DEF plan
<1>3. CASE /\ plan.do = "send" /\ MayMutate(c, task[t].rev) /\ Commits(p, messages, last)
           /\ task' = [task EXCEPT ![t] = [pc |-> "sending", client |-> c, rev |-> 0, rec |-> NoRecord]]
  <2>1. Called
    BY <1>0, <1>1, <1>3, UpdateCall, Zenon
  <2>2. c \in Client /\ task[t].rec = pending[c] /\ pending[c] \in Record /\ pending \in Rows
    BY <1>0, <1>3, ViewIsRow, StoreTypes, Zenon
  <2>3. Write(p, messages, last)
    BY <1>3, Zenon DEF Commits
  <2>4. pending' = p /\ Write(pending', messages', last')
    BY <2>3, Zenon DEF Write
  <2>5. pending'[c] = plan.rec
    BY <2>2, <2>4, Zenon DEF Rows
  <2>6. plan.rec \in Record /\ plan.rec.attempts = pending[c].attempts + 1
    BY <1>1, <1>3, <2>2, Zenon DEF Follows
  <2>7. Granted(t)
    BY <1>3, <2>2, <2>4, <2>5, <2>6, Zenon DEF Granted
  <2> QED
    BY <1>0, <2>1, <2>7 DEF CallStep
<1>4. CASE plan.do = "send" /\ MayMutate(c, task[t].rev) /\ CommitFails(p, messages, last) /\ EndTask(t)
  <2>1. Called
    BY <1>0, <1>1, <1>4, UpdateCall, Zenon
  <2> QED
    BY <1>0, <1>4, <2>1 DEF CallStep
<1>5. CASE plan.do = "persist" /\ Update(c, task[t].rev, plan.rec) /\ EndTask(t)
  <2>1. Called
    BY <1>0, <1>1, <1>5, UpdateStep, Zenon
  <2> QED
    BY <1>0, <1>5, <2>1 DEF CallStep
<1>6. CASE Refused /\ EndTask(t)
  BY <1>0, <1>6, RefusedCall, Zenon DEF CallStep
<1> QED
  BY <1>2, <1>3, <1>4, <1>5, <1>6, Zenon

\* apply_failure, rebind_connection and resume_auth.
LEMMA ApplyCall ==
  ASSUME IndInv, NEW t \in Task, task[t].pc = "loaded", NEW plan, Apply(t, plan),
         MayMutate(task[t].client, task[t].rev) /\ plan.do = "persist" =>
           /\ Follows(task[t].rec, plan.rec, fence)
           /\ Blamed(task[t].rec, plan.rec) => <<task[t].client, task[t].rec.conn>> \in sent
  PROVE  CallStep(t)
<1>1. CASE plan.do = "persist"
  <2>1. Called
    BY <1>1, UpdateStep, Zenon DEF Apply
  <2> QED
    BY <2>1, Zenon DEF Apply, CallStep
<1>2. CASE plan.do # "persist"
  BY <1>2, RefusedCall, Zenon DEF Apply, CallStep
<1> QED
  BY <1>1, <1>2, Zenon

\* plan_failure is one too, of the row that the attempt was planned on.
LEMMA FailureCall ==
  ASSUME IndInv, NEW t \in Task, NEW g \in 1 .. MaxConn, NEW d \in Disposition, ApplyFailure(t, g, d)
  PROVE  CallStep(t)
<1> DEFINE plan == FailurePlan(task[t].rec, fence, ctx.gen, g, now, d)
<1>0. task[t].pc = "loaded" /\ <<task[t].client, g>> \in sent /\ Apply(t, plan)
  BY Zenon DEF ApplyFailure
<1>1. ASSUME MayMutate(task[t].client, task[t].rev), plan.do = "persist"
      PROVE  /\ Follows(task[t].rec, plan.rec, fence)
             /\ Blamed(task[t].rec, plan.rec) => <<task[t].client, task[t].rec.conn>> \in sent
  <2>1. task[t].rec \in Record /\ ValidRecord(task[t].rec)
    BY <1>0, <1>1, ViewIsRow, Zenon
  <2>2. fence \in Nat /\ ctx.gen \in Nat /\ g \in Nat /\ now \in Word
    BY StoreTypes, OutboxAssumption
  <2> HIDE DEF plan
  <2>3. plan = FailurePlan(task[t].rec, fence, ctx.gen, g, now, d)
    BY Zenon DEF plan
  <2>4. Follows(task[t].rec, plan.rec, fence) /\ (Blamed(task[t].rec, plan.rec) => task[t].rec.conn = g)
    BY <1>1, <2>1, <2>2, <2>3, FailureFollows, SMTT(30)
  <2> QED
    BY <1>0, <2>4, Zenon
<1> HIDE DEF plan
<1> QED
  BY <1>0, <1>1, ApplyCall, Zenon

\* rebind_connection,
LEMMA RebindCall == ASSUME IndInv, NEW t \in Task, RebindConnection(t) PROVE CallStep(t)
<1> DEFINE plan == RebindPlan(task[t].rec, fence, ctx.gen, ctx.conn)
<1>0. task[t].pc = "loaded" /\ Apply(t, plan)
  BY Zenon DEF RebindConnection
<1>1. ASSUME MayMutate(task[t].client, task[t].rev), plan.do = "persist"
      PROVE  Follows(task[t].rec, plan.rec, fence) /\ ~Blamed(task[t].rec, plan.rec)
  <2>1. task[t].rec \in Record /\ ValidRecord(task[t].rec)
    BY <1>0, <1>1, ViewIsRow
  <2>2. fence \in Nat /\ ctx.gen \in Nat /\ ctx.conn \in Nat
    BY StoreTypes
  <2> HIDE DEF plan
  <2>3. plan = RebindPlan(task[t].rec, fence, ctx.gen, ctx.conn)
    BY Zenon DEF plan
  <2> QED
    BY <1>1, <2>1, <2>2, <2>3, RebindFollows, Zenon
<1> HIDE DEF plan
<1> QED
  BY <1>0, <1>1, ApplyCall, Zenon

\* resume_auth,
LEMMA ResumeCall == ASSUME IndInv, NEW t \in Task, ResumeAuth(t) PROVE CallStep(t)
<1> DEFINE plan == ResumePlan(task[t].rec, fence, ctx.gen, ctx.conn, now)
<1>0. task[t].pc = "loaded" /\ Apply(t, plan)
  BY Zenon DEF ResumeAuth
<1>1. ASSUME MayMutate(task[t].client, task[t].rev), plan.do = "persist"
      PROVE  Follows(task[t].rec, plan.rec, fence) /\ ~Blamed(task[t].rec, plan.rec)
  <2>1. task[t].rec \in Record /\ ValidRecord(task[t].rec)
    BY <1>0, <1>1, ViewIsRow, Zenon
  <2>2. fence \in Nat /\ ctx.gen \in Nat /\ ctx.conn \in Nat /\ now \in Word
    BY StoreTypes
  <2> HIDE DEF plan
  <2>3. plan = ResumePlan(task[t].rec, fence, ctx.gen, ctx.conn, now)
    BY Zenon DEF plan
  <2> QED
    BY <1>1, <2>1, <2>2, <2>3, ResumeFollows, Zenon
<1> HIDE DEF plan
<1> QED
  BY <1>0, <1>1, ApplyCall, Zenon

\* A transaction that takes row c away.
LEMMA GoneCall ==
  ASSUME IndInv, NEW c \in Client, pending[c] # NoRecord, NEW m \in Kinds, NEW l \in Client \cup {NoClient},
         m[c] # "none" \/ pending[c].state \in {"AuthRecovery", "PermanentFailure"},
         NEW p, p = [pending EXCEPT ![c] = NoRecord],
         Commits(p, m, l) \/ CommitFails(p, m, l)
  PROVE  Called
<1>1. /\ UNCHANGED store \/ Write(p, m, l)
      /\ frozen' = frozen \/ frozen' = TRUE
      /\ faults' \in 0 .. MaxFaults
  BY StoreTypes, Outcome, Zenon
<1>2. ASSUME Write(p, m, l) PROVE StoreStep
  <2>1. messages' = m
    BY <1>2, Zenon DEF Write
  <2>2. pending'[c] = NoRecord => RowStep(c)
    BY <2>1 DEF RowStep
  <2> QED
    BY <1>2, <2>2, OneRow, Zenon
<1> QED
  BY <1>1, <1>2 DEF Called, StoreStep

\* remove_terminal,
LEMMA RemoveCall == ASSUME IndInv, NEW t \in Task, RemoveTerminal(t) PROVE CallStep(t)
<1> DEFINE c == task[t].client
           p == [pending EXCEPT ![c] = NoRecord]
<1>0. task[t].pc = "loaded" /\ EndTask(t) /\ UNCHANGED <<gen, fence, conn, ctx, now, net>>
  BY Zenon DEF RemoveTerminal
<1>1. CASE Removable(task[t].rec, fence, ctx.gen) /\ MayMutate(c, task[t].rev)
  <2>1. c \in Client /\ task[t].rec = pending[c] /\ pending[c] # NoRecord
    BY <1>0, <1>1, ViewIsRow, Zenon
  <2>2. pending[c].state \in {"AuthRecovery", "PermanentFailure"}
    BY <1>1, <2>1, Zenon DEF Removable
  <2>3. Commits(p, messages, last) \/ CommitFails(p, messages, last)
    BY <1>1 DEF RemoveTerminal
  <2>4. messages \in Kinds /\ last \in Client \cup {NoClient}
    BY StoreTypes, Zenon
  <2>5. Called
    BY <2>1, <2>2, <2>3, <2>4, GoneCall, Zenon
  <2> QED
    BY <1>0, <2>5, Zenon DEF CallStep
<1>2. CASE ~(Removable(task[t].rec, fence, ctx.gen) /\ MayMutate(c, task[t].rev))
  <2>1. Refused
    BY <1>2 DEF RemoveTerminal
  <2> QED
    BY <1>0, <2>1, RefusedCall, Zenon DEF CallStep
<1> QED
  BY <1>1, <1>2, Zenon

\* and resolve_ack are.
LEMMA ResolveCall == ASSUME IndInv, NEW t \in Task, ResolveAck(t) PROVE CallStep(t)
<1> DEFINE c == task[t].client
           p == [pending EXCEPT ![c] = NoRecord]
           m == [messages EXCEPT ![c] = "present"]
<1>0. task[t].pc = "loaded" /\ EndTask(t) /\ UNCHANGED <<gen, fence, conn, ctx, now, net>>
  BY Zenon DEF ResolveAck
<1>1. CASE MayResolve(c, task[t].rev)
  <2>1. c \in Client /\ pending[c] # NoRecord
    BY <1>0, <1>1, ViewIsRow, Zenon DEF MayResolve
  <2>2. Commits(p, m, NoClient) \/ CommitFails(p, m, NoClient)
    BY <1>1, Zenon DEF ResolveAck
  <2>3. m \in Kinds /\ m[c] # "none"
    BY <2>1, StoreTypes, Zenon DEF Kinds
  <2> HIDE DEF m
  <2>4. Called
    BY <2>1, <2>2, <2>3, GoneCall, Zenon
  <2> QED
    BY <1>0, <2>4 DEF CallStep
<1>2. CASE ~MayResolve(c, task[t].rev)
  <2>1. Refused
    BY <1>2, Zenon DEF ResolveAck
  <2> QED
    BY <1>0, <2>1, RefusedCall, Zenon DEF CallStep
<1> QED
  BY <1>1, <1>2, Zenon

\* OutboxRecord::new makes a record that can be written.
LEMMA NewIsValid ==
  ASSUME NEW g \in Nat, NEW k \in Nat, NEW n \in Word
  PROVE  NewRecord(g, k, n) \in Record /\ ValidRecord(NewRecord(g, k, n))
<1> DEFINE r == NewRecord(g, k, n)
<1>1. "Ready" \in State /\ "NONE" \in Code /\ 0 \in 0 .. MaxAttempts
  BY Limits DEF State, Sendable, Code
<1>2. r \in Record /\ r.state = "Ready" /\ r.attempts = 0 /\ r.deadline = n /\ r.created = n /\ r.code = "NONE"
  BY <1>1 DEF NewRecord, Record
<1> HIDE DEF r
<1>3. r.code \in CodesOf(r.state)
  BY <1>2, Codes, Zenon
<1>4. ValidRecord(r)
  BY <1>2, <1>3, Limits DEF ValidRecord
<1> QED
  BY <1>2, <1>4 DEF r

\* enqueue puts a new row.
LEMMA EnqueueCall == ASSUME IndInv, NEW c \in Client, Enqueue(c) PROVE Called
<1> DEFINE r == NewRecord(ctx.gen, ctx.conn, now)
           p == [pending EXCEPT ![c] = r]
<1>1. r \in Record /\ ValidRecord(r)
  BY StoreTypes, NewIsValid, Zenon
<1>2. pending[c] = NoRecord /\ messages[c] = "none" /\ (Commits(p, messages, c) \/ CommitFails(p, messages, c))
  BY DEF Enqueue, MayEnqueue
<1> HIDE DEF r
<1>3. /\ UNCHANGED store \/ Write(p, messages, c)
      /\ frozen' = frozen \/ frozen' = TRUE
      /\ faults' \in 0 .. MaxFaults
  BY <1>2, StoreTypes, Outcome, Zenon
<1>4. pending'[c] = r => RowStep(c)
  BY <1>1, <1>2 DEF RowStep
<1>5. Write(p, messages, c) => StoreStep
  BY <1>1, <1>4, StoreTypes, OneRow, Zenon
<1> QED
  BY <1>3, <1>5, Zenon DEF Called, StoreStep

\* A transaction that leaves the outbox rows alone.
LEMMA RowsKept ==
  ASSUME IndInv, NEW m \in Kinds, Write(pending, m, NoClient)
  PROVE  StoreStep
<1>1. pending' = pending /\ messages' = m /\ last' = NoClient
  BY DEF Write
<1>2. Write(pending', messages', last')
  BY <1>1
<1> QED
  BY <1>1, <1>2, StoreTypes, Zenon DEF StoreStep, RowStep

\* A sync batch and a trim change a message and no row.
LEMMA MessageCall ==
  ASSUME IndInv, NEW c \in Client, SyncMessage(c) \/ Trim(c)
  PROVE  Called
<1> SUFFICES ASSUME NEW k \in {"present", "trimmed"}, Commits(pending, [messages EXCEPT ![c] = k], NoClient)
             PROVE  Called
  BY DEF SyncMessage, Trim
<1>1. [messages EXCEPT ![c] = k] \in Kinds
  BY StoreTypes DEF Kinds
<1>2. StoreStep
  BY <1>1, RowsKept, Zenon DEF Commits
<1> QED
  BY <1>2, StoreTypes DEF Called, Commits

\* The replay of an enqueue changes nothing.
LEMMA ReplayCall == ASSUME IndInv, NEW c \in Client, ReplayEnqueue(c) PROVE UNCHANGED store
  BY StoreTypes DEF ReplayEnqueue, ReplayRow, store, Rows

\* advance_generation moves the generation, and no row.
LEMMA AdvanceCall == ASSUME IndInv, AdvanceGeneration PROVE StoreStep /\ faults' \in 0 .. MaxFaults
<1>1. messages \in Kinds /\ faults \in 0 .. MaxFaults /\ MaxFaults \in Nat
  BY StoreTypes, OutboxAssumption, Zenon
<1>2. Write(pending, messages, NoClient) \/ UNCHANGED store
  BY DEF AdvanceGeneration, Commits
<1>3. faults' = faults \/ Fault
  BY DEF AdvanceGeneration, Commits
<1>4. faults' \in 0 .. MaxFaults
  BY <1>1, <1>3 DEF Fault
<1> QED
  BY <1>1, <1>2, <1>4, RowsKept, Zenon DEF StoreStep

------------------------------------------------------------------------------
(* Every step *)

\* The steps by what they do to the store, the tasks and the network.
HostStep ==
  /\ UNCHANGED <<store, gen, fence, frozen, task, posts, sent>>
  /\ conn' \in Nat /\ ctx' \in [gen : Nat, conn : Nat] /\ now' \in Word
  /\ faults' \in 0 .. MaxFaults /\ persisted' \subseteq Client

StoreCall == Called /\ UNCHANGED <<gen, fence, conn, ctx, task, now, net>>

LoadStep(t) == (\E c \in Client : LoadRevision(t, c)) \/ LoadPending(t)

OpenStep == Open /\ faults' \in 0 .. MaxFaults

\* Every step is a call of a task on the row it loaded, a read, a send, or a step of the host, of
\* the session or of the adapter as it opens.
LEMMA Steps ==
  ASSUME IndInv, [Next]_vars
  PROVE  \/ \E t \in Task : task[t].pc = "loaded" /\ CallStep(t)
         \/ \E t \in Task : LoadStep(t)
         \/ \E t \in Task : Transmit(t)
         \/ StoreCall \/ AdvanceGeneration \/ OpenStep \/ HostStep
<1>0. /\ conn \in Nat /\ ctx \in [gen : Nat, conn : Nat] /\ now \in Word /\ fence \in Nat
      /\ faults \in 0 .. MaxFaults /\ persisted \subseteq Client /\ MaxFaults \in Nat
  BY OutboxAssumption, Zenon DEF IndInv, OutboxInv, TypeOK
<1>1. ASSUME NEW t \in Task, TaskStep(t)
      PROVE  (task[t].pc = "loaded" /\ CallStep(t)) \/ LoadStep(t) \/ Transmit(t)
  <2>1. CASE \E c \in Client : LoadRevision(t, c)
    BY <2>1, Zenon DEF LoadStep
  <2>2. CASE LoadPending(t)
    BY <2>2 DEF LoadStep
  <2>3. CASE PlanDispatch(t)
    BY <2>3, DispatchCall, Zenon DEF PlanDispatch
  <2>4. CASE \E g \in 1 .. MaxConn, d \in Disposition : ApplyFailure(t, g, d)
    BY <2>4, FailureCall, Zenon DEF ApplyFailure
  <2>5. CASE RebindConnection(t)
    BY <2>5, RebindCall, Zenon DEF RebindConnection
  <2>6. CASE ResumeAuth(t)
    BY <2>6, ResumeCall, Zenon DEF ResumeAuth
  <2>7. CASE RemoveTerminal(t)
    BY <2>7, RemoveCall, Zenon DEF RemoveTerminal
  <2>8. CASE ResolveAck(t)
    BY <2>8, ResolveCall DEF ResolveAck
  <2> QED
    BY <1>1, <2>1, <2>2, <2>3, <2>4, <2>5, <2>6, <2>7, <2>8, Zenon DEF TaskStep
<1>2. ASSUME NEW c \in Client, ClientStep(c)
      PROVE  StoreCall \/ HostStep
  <2>1. CASE Enqueue(c)
    BY <2>1, EnqueueCall DEF StoreCall, Enqueue
  <2>2. CASE ReplayEnqueue(c)
    BY <1>0, <2>2, ReplayCall, Zenon DEF HostStep, ReplayEnqueue, net
  <2>3. CASE SyncMessage(c) \/ Trim(c)
    BY <2>3, MessageCall, Zenon DEF StoreCall, SyncMessage, Trim
  <2>4. CASE ServerPersist(c)
    BY <1>0, <2>4, Zenon DEF HostStep, ServerPersist
  <2> QED
    BY <1>2, <2>1, <2>2, <2>3, <2>4, Zenon DEF ClientStep
<1>3. CASE Reconnect
  BY <1>0, <1>3 DEF Reconnect, HostStep, net
<1>4. CASE RefreshContext
  BY <1>0, <1>4, Zenon DEF RefreshContext, HostStep, net
<1>5. CASE Reopen
  BY <1>0, <1>5, Zenon DEF Reopen, OpenStep
<1>6. CASE Crash
  BY <1>0, <1>6 DEF Crash, Fault, OpenStep
<1>7. CASE Tick
  <2>1. now' \in Word
    BY <1>0, <1>7, Limits DEF Tick, Word
  <2> QED
    BY <1>0, <1>7, <2>1, Zenon DEF Tick, HostStep, net
<1>8. CASE Rollback
  <2>1. now' \in Word /\ faults' \in 0 .. MaxFaults
    BY <1>0, <1>8 DEF Rollback, Fault
  <2> QED
    BY <1>0, <1>8, <2>1, Zenon DEF Rollback, HostStep, net
<1>9. CASE UNCHANGED vars
  BY <1>0, <1>9, Zenon DEF vars, HostStep, net
<1> QED
  BY <1>1, <1>2, <1>3, <1>4, <1>5, <1>6, <1>7, <1>8, <1>9, Zenon DEF Next

\* Whatever happens to the rows happens as StoreStep says.
LEMMA NextStore == ASSUME IndInv, [Next]_vars PROVE StoreStep
<1>1. ASSUME NEW t \in Task, CallStep(t) PROVE StoreStep
  BY <1>1, Zenon DEF CallStep, Called
<1>2. ASSUME NEW t \in Task, LoadStep(t) \/ Transmit(t) PROVE StoreStep
  BY <1>2 DEF LoadStep, LoadRevision, LoadPending, Transmit, StoreStep
<1>3. CASE StoreCall
  BY <1>3, Zenon DEF StoreCall, Called
<1>4. CASE OpenStep \/ HostStep
  BY <1>4, Zenon DEF OpenStep, Open, HostStep, StoreStep
<1> QED
  BY <1>1, <1>2, <1>3, <1>4, Steps, AdvanceCall, Zenon

\* The rows and their accounts after a step.
LEMMA RowsAfter ==
  ASSUME IndInv, StoreStep
  PROVE  /\ pending' \in Rows /\ messages' \in Kinds /\ last' \in Client \cup {NoClient}
         /\ revision' \in Nat
         /\ UNCHANGED store \/ revision' = revision + 1
         /\ spent' \in [Client -> Nat] /\ life' \in [Client -> Nat] /\ ended' \in [Client -> Nat]
         /\ RowsValid' /\ OneRowPerEnqueue'
         /\ \A c \in Client : spent'[c] + Attempts(c)' >= spent[c] + Attempts(c)
<1>0. /\ spent \in [Client -> Nat] /\ life \in [Client -> Nat] /\ ended \in [Client -> Nat]
      /\ revision \in Nat /\ RowsValid /\ OneRowPerEnqueue
      /\ \A c \in Client : pending[c] = NoRecord \/ pending[c] \in Record
      /\ \A c \in Client : Attempts(c) \in Nat
  <2>1. \A c \in Client : pending[c] = NoRecord \/ pending[c] \in Record
    BY StoreTypes, Zenon
  <2>2. \A c \in Client : pending[c] \in Record => pending[c].attempts \in Nat
    BY Fields, Zenon DEF Numbers
  <2> QED
    BY <2>1, <2>2, Zenon DEF IndInv, OutboxInv, TypeOK, Attempts
<1>1. CASE UNCHANGED store
  <2>1. UNCHANGED <<pending, messages, revision, last, spent, life, ended>>
    BY <1>1, Zenon DEF store
  <2> QED
    BY <1>0, <1>1, <2>1, StoreTypes DEF RowsValid, OneRowPerEnqueue, Pending, Attempts
<1>2. CASE /\ Write(pending', messages', last')
           /\ pending' \in Rows /\ messages' \in Kinds /\ last' \in Client \cup {NoClient}
           /\ \A c \in Client : RowStep(c)
  <2>1. revision' = revision + 1
    BY <1>2, Zenon DEF Write
  <2>2. ASSUME NEW c \in Client
        PROVE  /\ life'[c] = life[c] + (IF pending[c] = NoRecord /\ pending'[c] # NoRecord THEN 1 ELSE 0)
               /\ ended'[c] = ended[c] + (IF pending[c] # NoRecord /\ pending'[c] = NoRecord THEN 1 ELSE 0)
               /\ spent'[c] = spent[c] + (IF pending[c] # NoRecord /\ pending'[c] = NoRecord
                                          THEN pending[c].attempts ELSE 0)
    BY <1>2, Zenon DEF Write
  <2>3. \A c \in Client : pending[c] \in Record => pending[c].attempts \in Nat
    BY Fields, Zenon DEF Numbers
  <2>4. spent' \in [Client -> Nat] /\ life' \in [Client -> Nat] /\ ended' \in [Client -> Nat]
    BY <1>0, <1>2, <2>3 DEF Write
  <2>5. RowsValid'
    <3> SUFFICES ASSUME NEW c \in Client, pending'[c] # NoRecord PROVE ValidRecord(pending'[c])
      BY Zenon DEF RowsValid, Pending
    <3> QED
      BY <1>0, <1>2, Zenon DEF RowStep, Follows, RowsValid, Pending
  <2>6. OneRowPerEnqueue'
    <3> SUFFICES ASSUME NEW c \in Client
                 PROVE  life'[c] = ended'[c] + (IF pending'[c] # NoRecord THEN 1 ELSE 0)
      BY Zenon DEF OneRowPerEnqueue, Pending
    <3>1. life[c] = ended[c] + (IF pending[c] # NoRecord THEN 1 ELSE 0)
      BY <1>0, Zenon DEF OneRowPerEnqueue, Pending
    <3> QED
      BY <1>0, <2>2, <3>1
  <2>7. ASSUME NEW c \in Client PROVE spent'[c] + Attempts(c)' >= spent[c] + Attempts(c)
    <3>1. pending'[c] = NoRecord \/ (pending'[c] \in Record /\ pending'[c].attempts \in Nat)
      BY <1>2, Fields, Zenon DEF Rows, Numbers
    <3>2. pending[c] # NoRecord /\ pending'[c] # NoRecord => pending'[c].attempts >= pending[c].attempts
      <4>1. pending[c] # NoRecord => pending[c].attempts \in Nat
        BY <1>0, <2>3, Zenon
      <4>2. RowStep(c)
        BY <1>2
      <4>3. pending[c] # NoRecord /\ pending'[c] # NoRecord =>
              pending'[c] = pending[c] \/ pending'[c].attempts >= pending[c].attempts
        BY <4>2, Zenon DEF RowStep, Follows
      <4> QED
        BY <4>1, <4>3
    <3> QED
      BY <1>0, <2>2, <2>3, <3>1, <3>2 DEF Attempts
  <2> QED
    BY <1>0, <1>2, <2>1, <2>4, <2>5, <2>6, <2>7
<1> QED
  BY <1>1, <1>2, Zenon DEF StoreStep


------------------------------------------------------------------------------
(* What the tasks hold *)

Holding == [pc : {"idle", "revision", "loaded", "sending"}, client : Client \cup {NoClient}, rev : Nat,
            rec : Record \cup {NoRecord}]

\* What the invariant asks of a task, when the store has the revision n and the rows p.
Held(x, n, p) ==
  /\ x \in Holding
  /\ x.rev <= n
  /\ x.pc # "idle" => x.client \in Client
  /\ x.pc = "loaded" => x.rec \in Record
  /\ x.pc = "loaded" /\ x.rev = n => x.rec = p[x.client]

TasksHeld == task \in [Task -> Holding] /\ \A t \in Task : Held(task[t], revision, pending)

\* What the invariant says of the tasks, gathered task by task,
LEMMA HeldBefore == ASSUME IndInv PROVE TasksHeld
  BY Zenon DEF IndInv, OutboxInv, TypeOK, TasksHeld, Held, Holding, ViewsPast, ViewCurrent

\* and given back after the step.
LEMMA HeldAfter == ASSUME TasksHeld' PROVE ViewsPast' /\ ViewCurrent'
  BY Zenon DEF TasksHeld, Held, ViewsPast, ViewCurrent

\* A task that is idle holds nothing.
LEMMA IdleHeld == ASSUME NEW n \in Nat, NEW p PROVE Idle \in Holding /\ Held(Idle, n, p)
  BY SMTT(30) DEF Idle, Held, Holding

\* A task that does nothing: the revision it knows is the store's only if nothing was written.
LEMMA HeldOn ==
  ASSUME IndInv, StoreStep, NEW t \in Task
  PROVE  Held(task[t], revision', pending')
<1>1. Held(task[t], revision, pending) /\ revision \in Nat
  BY HeldBefore, StoreTypes, Zenon DEF TasksHeld
<1>2. CASE UNCHANGED store
  BY <1>1, <1>2, Zenon DEF store
<1>3. CASE revision' = revision + 1
  BY <1>1, <1>3 DEF Held, Holding
<1> QED
  BY <1>2, <1>3, RowsAfter, Zenon

\* One task takes something up, or all go on as they were.
LEMMA OneTask ==
  ASSUME IndInv, StoreStep, NEW t \in Task, NEW x, Held(x, revision', pending'), task' = [task EXCEPT ![t] = x]
  PROVE  TasksHeld'
<1>1. task \in [Task -> Holding] /\ x \in Holding
  BY HeldBefore, Zenon DEF TasksHeld, Held
<1>2. task' \in [Task -> Holding] /\ task'[t] = x /\ \A u \in Task : u # t => task'[u] = task[u]
  BY <1>1, Zenon
<1>3. \A u \in Task : Held(task[u], revision', pending')
  BY HeldOn
<1>4. \A u \in Task : Held(task'[u], revision', pending')
  BY <1>2, <1>3, Zenon
<1> QED
  BY <1>2, <1>4, Zenon DEF TasksHeld

\* A step of the store leaves what the tasks hold in its past.
LEMMA SameTasks == ASSUME IndInv, StoreStep, UNCHANGED task PROVE TasksHeld'
<1>1. task' \in [Task -> Holding]
  BY HeldBefore, Zenon DEF TasksHeld
<1>2. \A u \in Task : Held(task'[u], revision', pending')
  BY HeldOn
<1> QED
  BY <1>1, <1>2, Zenon DEF TasksHeld

\* A task that reads holds what is there.
LEMMA LoadHeld == ASSUME IndInv, NEW t \in Task, LoadStep(t) PROVE TasksHeld'
<1>0. UNCHANGED store /\ UNCHANGED <<pending, revision>> /\ StoreStep
  BY DEF LoadStep, LoadRevision, LoadPending, store, StoreStep
<1>1. revision \in Nat /\ Held(task[t], revision, pending)
  BY StoreTypes, HeldBefore, Zenon DEF TasksHeld
<1>2. ASSUME NEW c \in Client, LoadRevision(t, c) PROVE TasksHeld'
  <2> DEFINE x == [pc |-> "revision", client |-> c, rev |-> revision, rec |-> NoRecord]
  <2>1. Held(x, revision, pending)
    BY <1>1 DEF Held, Holding
  <2>2. task' = [task EXCEPT ![t] = x]
    BY <1>2, Zenon DEF LoadRevision
  <2> HIDE DEF x
  <2> QED
    BY <1>0, <2>1, <2>2, OneTask, Zenon
<1>3. CASE LoadPending(t)
  <2>0. task[t].pc = "revision" /\ task[t].client \in Client
    BY <1>1, <1>3, Zenon DEF LoadPending, Held
  <2>1. CASE frozen \/ pending[task[t].client] = NoRecord
    <3>1. task' = [task EXCEPT ![t] = Idle]
      BY <1>3, <2>1, Zenon DEF LoadPending
    <3> QED
      BY <1>0, <1>1, <3>1, IdleHeld, OneTask, Zenon
  <2>2. CASE ~(frozen \/ pending[task[t].client] = NoRecord)
    <3> DEFINE x == [pc |-> "loaded", client |-> task[t].client, rev |-> task[t].rev,
                     rec |-> pending[task[t].client]]
    <3>1. task' = [task EXCEPT ![t] = x]
      BY <1>3, <2>2, Zenon DEF LoadPending
    <3>2. pending[task[t].client] \in Record
      BY <2>0, <2>2, StoreTypes, Zenon
    <3>3. Held(x, revision, pending)
      BY <1>1, <2>0, <3>2, Zenon DEF Held, Holding
    <3> HIDE DEF x
    <3> QED
      BY <1>0, <3>1, <3>3, OneTask, Zenon
  <2> QED
    BY <2>1, <2>2, Zenon
<1> QED
  BY <1>2, <1>3, Zenon DEF LoadStep

\* A task that calls leaves with what the store answered.
LEMMA CallHeld == ASSUME IndInv, NEW t \in Task, CallStep(t) PROVE TasksHeld'
<1>0. StoreStep /\ revision' \in Nat
  BY RowsAfter DEF CallStep, Called
<1>1. CASE EndTask(t)
  <2>1. task' = [task EXCEPT ![t] = Idle]
    BY <1>1 DEF EndTask
  <2> QED
    BY <1>0, <2>1, IdleHeld, OneTask, Zenon
<1>2. CASE Granted(t)
  <2> DEFINE x == [pc |-> "sending", client |-> task[t].client, rev |-> 0, rec |-> NoRecord]
  <2>1. task' = [task EXCEPT ![t] = x] /\ task[t].client \in Client
    BY <1>2, Zenon DEF Granted
  <2>2. Held(x, revision', pending')
    BY <1>0, <2>1 DEF Held, Holding
  <2> HIDE DEF x
  <2> QED
    BY <1>0, <2>1, <2>2, OneTask, Zenon
<1> QED
  BY <1>1, <1>2, Zenon DEF CallStep

\* So every step keeps what the tasks hold.
LEMMA AllHeld == ASSUME IndInv, [Next]_vars PROVE TasksHeld'
<1>0. StoreStep /\ revision' \in Nat
  BY NextStore, RowsAfter, Zenon
<1>1. ASSUME NEW t \in Task, Transmit(t) PROVE TasksHeld'
  <2>1. task' = [task EXCEPT ![t] = Idle]
    BY <1>1 DEF Transmit, EndTask
  <2> QED
    BY <1>0, <2>1, IdleHeld, OneTask, Zenon
<1>2. CASE StoreCall \/ AdvanceGeneration \/ HostStep
  <2>1. UNCHANGED task
    BY <1>2 DEF StoreCall, AdvanceGeneration, HostStep
  <2> QED
    BY <1>0, <2>1, SameTasks, Zenon
<1>3. CASE OpenStep
  <2>1. task' = [t \in Task |-> Idle]
    BY <1>3, Zenon DEF OpenStep, Open
  <2> QED
    BY <1>0, <2>1, IdleHeld, Zenon DEF TasksHeld
<1> QED
  BY <1>1, <1>2, <1>3, Steps, LoadHeld, CallHeld, Zenon

------------------------------------------------------------------------------
(* What is sent is paid for *)

Sending(c) == {t \in Task : task[t].pc = "sending" /\ task[t].client = c}

\* The numbers that the count of sends is compared with.
LEMMA PaidNumbers ==
  ASSUME IndInv, NEW c \in Client
  PROVE  /\ IsFiniteSet(Sending(c)) /\ IsFiniteSet(Sending(c)')
         /\ Cardinality(Sending(c)) \in Nat /\ Cardinality(Sending(c)') \in Nat
         /\ posts \in [Client -> Nat] /\ posts[c] \in Nat /\ spent[c] \in Nat /\ Attempts(c) \in Nat
         /\ posts[c] + Cardinality(Sending(c)) <= spent[c] + Attempts(c)
<1>1. Sending(c) \in SUBSET Task /\ Sending(c)' \in SUBSET Task /\ IsFiniteSet(Task)
  BY OutboxAssumption, Zenon DEF Sending
<1>2. IsFiniteSet(Sending(c)) /\ IsFiniteSet(Sending(c)')
  BY <1>1, FS_Subset, Zenon
<1>3. pending[c] # NoRecord => pending[c].attempts \in Nat
  BY StoreTypes, Fields, Zenon DEF Numbers
<1>4. posts \in [Client -> Nat] /\ posts[c] \in Nat /\ spent[c] \in Nat /\ Attempts(c) \in Nat
  BY <1>3, Zenon DEF IndInv, OutboxInv, TypeOK, Attempts
<1>5. posts[c] + Cardinality(Sending(c)) <= spent[c] + Attempts(c)
  BY Zenon DEF IndInv, OutboxInv, SendPaid, Sending
<1> QED
  BY <1>2, <1>4, <1>5, FS_CardinalityType, Zenon

\* Nobody starts to send and nothing is transmitted.
LEMMA NoMoreSent ==
  ASSUME IndInv, StoreStep, UNCHANGED posts, \A c \in Client : Sending(c)' \subseteq Sending(c)
  PROVE  SendPaid'
<1> SUFFICES ASSUME NEW c \in Client
             PROVE  posts'[c] + Cardinality(Sending(c)') <= spent'[c] + Attempts(c)'
  BY DEF SendPaid, Sending
<1>1. Cardinality(Sending(c)') <= Cardinality(Sending(c))
  BY PaidNumbers, FS_Subset, Zenon
<1>2. spent'[c] + Attempts(c)' >= spent[c] + Attempts(c) /\ spent'[c] \in Nat /\ Attempts(c)' \in Nat
  <2>1. pending'[c] # NoRecord => pending'[c].attempts \in Nat
    BY RowsAfter, Fields, Zenon DEF Rows, Numbers
  <2> QED
    BY <2>1, RowsAfter, Zenon DEF Attempts
<1>3. posts'[c] = posts[c]
  OBVIOUS
<1> HIDE DEF Sending
<1> QED
  BY <1>1, <1>2, <1>3, PaidNumbers

\* A task that ends, or that holds anything but an intent to send.
LEMMA OtherTask ==
  ASSUME IndInv, NEW t \in Task, NEW x, x.pc # "sending", task' = [task EXCEPT ![t] = x]
  PROVE  \A c \in Client : Sending(c)' \subseteq Sending(c)
<1>1. task \in [Task -> Holding]
  BY HeldBefore, Zenon DEF TasksHeld
<1> QED
  BY <1>1 DEF Sending

\* The attempt on disk pays for the intent that plan_dispatch returns.
LEMMA GrantedPaid ==
  ASSUME IndInv, StoreStep, UNCHANGED posts, NEW t \in Task, Granted(t)
  PROVE  SendPaid'
<1> SUFFICES ASSUME NEW c \in Client
             PROVE  posts'[c] + Cardinality(Sending(c)') <= spent'[c] + Attempts(c)'
  BY DEF SendPaid, Sending
<1> DEFINE k == task[t].client
<1>0. task \in [Task -> Holding]
  BY HeldBefore, Zenon DEF TasksHeld
<1>1. task' = [task EXCEPT ![t] = [pc |-> "sending", client |-> k, rev |-> 0, rec |-> NoRecord]]
  BY Zenon DEF Granted
<1>2. spent'[c] + Attempts(c)' >= spent[c] + Attempts(c) /\ spent'[c] \in Nat /\ Attempts(c)' \in Nat
  <2>1. pending'[c] # NoRecord => pending'[c].attempts \in Nat
    BY RowsAfter, Fields, Zenon DEF Rows, Numbers
  <2> QED
    BY <2>1, RowsAfter, Zenon DEF Attempts
<1>3. posts'[c] = posts[c]
  BY Zenon
<1>4. CASE c # k
  <2>1. Sending(c)' \subseteq Sending(c)
    BY <1>0, <1>1, <1>4, Zenon DEF Sending
  <2>2. Cardinality(Sending(c)') <= Cardinality(Sending(c))
    BY <2>1, PaidNumbers, FS_Subset, Zenon
  <2> QED
    BY <1>2, <1>3, <2>2, PaidNumbers, SMTT(30)
<1>5. CASE c = k
  <2>1. Sending(c)' \subseteq Sending(c) \cup {t}
    BY <1>0, <1>1, Zenon DEF Sending
  <2>2. Cardinality(Sending(c)') <= Cardinality(Sending(c)) + 1
    <3>0. IsFiniteSet(Sending(c)) /\ Cardinality(Sending(c)) \in Nat
      BY PaidNumbers, Zenon
    <3>1. IsFiniteSet(Sending(c) \cup {t}) /\ Cardinality(Sending(c) \cup {t}) <= Cardinality(Sending(c)) + 1
      <4> DEFINE S == Sending(c)
      <4> HIDE DEF S
      <4>1. IsFiniteSet(S) /\ Cardinality(S) \in Nat
        BY <3>0 DEF S
      <4>2. IsFiniteSet(S \cup {t})
        BY <4>1, FS_AddElement, Zenon
      <4>3. Cardinality(S \cup {t}) = Cardinality(S) \/ Cardinality(S \cup {t}) = Cardinality(S) + 1
        BY <4>1, FS_AddElement, Zenon
      <4> QED
        BY <4>1, <4>2, <4>3 DEF S
    <3>2. Cardinality(Sending(c)') <= Cardinality(Sending(c) \cup {t})
      BY <2>1, <3>1, FS_Subset, Zenon
    <3>3. Cardinality(Sending(c) \cup {t}) \in Nat
      BY <3>1, FS_CardinalityType, Zenon
    <3> QED
      BY <3>1, <3>2, <3>3, PaidNumbers
  <2>3. /\ pending[c] \in Record /\ pending'[c] \in Record /\ pending'[c].attempts = pending[c].attempts + 1
        /\ Write(pending', messages', last')
    BY <1>5, Zenon DEF Granted
  <2>4. pending[c] # NoRecord /\ pending'[c] # NoRecord
    BY <2>3, RecordsExist, Zenon
  <2>5. spent'[c] = spent[c] + (IF pending[c] # NoRecord /\ pending'[c] = NoRecord THEN pending[c].attempts ELSE 0)
    BY <2>3, Zenon DEF Write
  <2>6. spent'[c] = spent[c] /\ Attempts(c)' = Attempts(c) + 1
    BY <2>3, <2>4, <2>5, PaidNumbers DEF Attempts
  <2> QED
    BY <1>2, <1>3, <2>2, <2>6, PaidNumbers
<1> QED
  BY <1>4, <1>5, Zenon

\* A transmission takes the place of the intent that was held.
LEMMA TransmitPaid == ASSUME IndInv, NEW t \in Task, Transmit(t) PROVE SendPaid'
<1> SUFFICES ASSUME NEW c \in Client
             PROVE  posts'[c] + Cardinality(Sending(c)') <= spent'[c] + Attempts(c)'
  BY Zenon DEF SendPaid, Sending
<1> DEFINE k == task[t].client
<1>0. task \in [Task -> Holding] /\ Idle.pc # "sending"
  BY HeldBefore, Zenon DEF TasksHeld, Idle
<1>1. /\ task[t].pc = "sending" /\ task' = [task EXCEPT ![t] = Idle]
      /\ posts' = [posts EXCEPT ![k] = @ + 1]
      /\ UNCHANGED <<pending, spent>>
  BY Zenon DEF Transmit, EndTask, store
<1>2. spent'[c] = spent[c] /\ Attempts(c)' = Attempts(c)
  BY <1>1, Zenon DEF Attempts
<1>3. Sending(c)' = Sending(c) \ {t}
  BY <1>0, <1>1, Zenon DEF Sending
<1>4. CASE c # k
  <2>1. posts'[c] = posts[c]
    BY <1>1, <1>4, PaidNumbers, Zenon
  <2>2. Cardinality(Sending(c)') <= Cardinality(Sending(c))
    BY <1>3, PaidNumbers, FS_Subset, Zenon
  <2> QED
    BY <1>2, <2>1, <2>2, PaidNumbers, SMTT(30)
<1>5. CASE c = k
  <2>1. posts'[c] = posts[c] + 1
    BY <1>1, <1>5, PaidNumbers, Zenon
  <2>2. t \in Sending(c)
    BY <1>1, <1>5, Zenon DEF Sending
  <2>3. Cardinality(Sending(c)') = Cardinality(Sending(c)) - 1
    BY <1>3, <2>2, PaidNumbers, FS_RemoveElement, Zenon
  <2> QED
    BY <1>2, <2>1, <2>3, PaidNumbers
<1> QED
  BY <1>4, <1>5, Zenon

\* Every step keeps each send paid for by an attempt.
LEMMA AllPaid == ASSUME IndInv, [Next]_vars PROVE SendPaid'
<1>0. StoreStep
  BY NextStore, Zenon
<1>1. ASSUME NEW t \in Task, CallStep(t) PROVE SendPaid'
  <2>1. UNCHANGED posts
    BY <1>1 DEF CallStep, net
  <2>2. CASE EndTask(t)
    <3>1. Idle.pc # "sending" /\ task' = [task EXCEPT ![t] = Idle]
      BY <2>2, Zenon DEF EndTask, Idle
    <3> QED
      BY <1>0, <2>1, <3>1, OtherTask, NoMoreSent, Zenon
  <2>3. CASE Granted(t)
    BY <1>0, <2>1, <2>3, GrantedPaid, Zenon
  <2> QED
    BY <1>1, <2>2, <2>3, Zenon DEF CallStep
<1>2. ASSUME NEW t \in Task, LoadStep(t) PROVE SendPaid'
  <2>1. UNCHANGED posts
    BY <1>2, Zenon DEF LoadStep, LoadRevision, LoadPending, net
  <2>2. \E x : x.pc # "sending" /\ task' = [task EXCEPT ![t] = x]
    <3>1. CASE \E c \in Client : LoadRevision(t, c)
      <4>1. PICK c \in Client : LoadRevision(t, c)
        BY <3>1, Zenon
      <4>2. task' = [task EXCEPT ![t] = [pc |-> "revision", client |-> c, rev |-> revision, rec |-> NoRecord]]
        BY <4>1, Zenon DEF LoadRevision
      <4> WITNESS [pc |-> "revision", client |-> c, rev |-> revision, rec |-> NoRecord]
      <4> QED
        BY <4>2
    <3>2. CASE LoadPending(t)
      <4> DEFINE x == [pc |-> "loaded", client |-> task[t].client, rev |-> task[t].rev,
                       rec |-> pending[task[t].client]]
      <4>1. Idle.pc # "sending" /\ x.pc # "sending"
        BY DEF Idle
      <4>2. task' = [task EXCEPT ![t] = Idle] \/ task' = [task EXCEPT ![t] = x]
        BY <3>2, Zenon DEF LoadPending
      <4> HIDE DEF x
      <4> QED
        BY <4>1, <4>2
    <3> QED
      BY <1>2, <3>1, <3>2, Zenon DEF LoadStep
  <2> QED
    BY <1>0, <2>1, <2>2, OtherTask, NoMoreSent, Zenon
<1>3. CASE StoreCall \/ AdvanceGeneration \/ HostStep
  <2>1. UNCHANGED <<task, posts>>
    BY <1>3 DEF StoreCall, AdvanceGeneration, HostStep, net
  <2>2. \A c \in Client : Sending(c)' \subseteq Sending(c)
    BY <2>1 DEF Sending
  <2> QED
    BY <1>0, <2>1, <2>2, NoMoreSent
<1>4. CASE OpenStep
  <2>1. UNCHANGED posts /\ task' = [t \in Task |-> Idle]
    BY <1>4, Zenon DEF OpenStep, Open, net
  <2>2. \A c \in Client : Sending(c)' \subseteq Sending(c)
    BY <2>1 DEF Sending, Idle
  <2> QED
    BY <1>0, <2>1, <2>2, NoMoreSent, Zenon
<1> QED
  BY <1>1, <1>2, <1>3, <1>4, Steps, TransmitPaid, Zenon

------------------------------------------------------------------------------
(* The theorems *)

\* The invariant holds of the empty outbox.
LEMMA InitInd == ASSUME Init PROVE IndInv
<1>1. TypeOK
  <2>1. Idle \in Holding /\ Idle.pc = "idle"
    BY DEF Idle, Holding
  <2>2. task \in [Task -> Holding] /\ \A t \in Task : task[t].pc # "loaded"
    BY <2>1, Zenon DEF Init
  <2>3. 0 \in 0 .. MaxFaults /\ 0 \in Word
    BY Limits, OutboxAssumption
  <2>4. frozen \in BOOLEAN
    BY Zenon DEF Init
  <2>5. ctx \in [gen : Nat, conn : Nat]
    BY Zenon DEF Init
  <2> QED
    BY <2>2, <2>3, <2>4, <2>5, Zenon DEF Init, TypeOK, Holding
<1>2. ViewCurrent /\ OneRowPerEnqueue /\ FenceCurrent /\ ViewsPast /\ RowsValid
  BY DEF Init, ViewCurrent, OneRowPerEnqueue, FenceCurrent, ViewsPast, RowsValid, Pending, Idle
<1>3. SendPaid
  <2>1. \A c \in Client : Sending(c) = {}
    BY DEF Init, Sending, Idle
  <2> QED
    BY <2>1, FS_EmptySet, SMTT(30) DEF Init, SendPaid, Sending, Attempts
<1> QED
  BY <1>1, <1>2, <1>3, Zenon DEF IndInv, OutboxInv

\* The variables the rows and the tasks say nothing of.
LEMMA OthersTyped ==
  ASSUME IndInv, [Next]_vars
  PROVE  /\ gen' \in Nat /\ fence' \in Nat /\ conn' \in Nat
         /\ frozen' \in BOOLEAN /\ ctx' \in [gen : Nat, conn : Nat] /\ now' \in Word
         /\ sent' \subseteq Client \X Nat /\ posts' \in [Client -> Nat] /\ persisted' \subseteq Client
         /\ faults' \in 0 .. MaxFaults
         /\ FenceCurrent'
<1>0. /\ gen \in Nat /\ fence \in Nat /\ conn \in Nat
      /\ frozen \in BOOLEAN /\ ctx \in [gen : Nat, conn : Nat] /\ now \in Word
      /\ sent \subseteq Client \X Nat /\ posts \in [Client -> Nat] /\ persisted \subseteq Client
      /\ faults \in 0 .. MaxFaults
      /\ FenceCurrent
  BY DEF IndInv, OutboxInv, TypeOK
<1>1. ASSUME Called, UNCHANGED <<gen, fence, conn, ctx, now, net>>
      PROVE  /\ frozen' \in BOOLEAN /\ faults' \in 0 .. MaxFaults /\ FenceCurrent'
             /\ UNCHANGED <<gen, fence, conn, ctx, now, sent, posts, persisted>>
  <2>1. UNCHANGED <<gen, fence, conn, ctx, now, sent, posts, persisted>>
    BY <1>1, Zenon DEF net
  <2>2. (frozen' = frozen \/ frozen' = TRUE) /\ faults' \in 0 .. MaxFaults
    BY <1>1 DEF Called
  <2>3. frozen' \in BOOLEAN
    BY <1>0, <2>2, Zenon
  <2>4. FenceCurrent'
    BY <1>0, <2>1, <2>2 DEF FenceCurrent
  <2> QED
    BY <2>1, <2>2, <2>3, <2>4, Zenon
<1>2. CASE (\E t \in Task : CallStep(t)) \/ StoreCall
  <2>1. Called /\ UNCHANGED <<gen, fence, conn, ctx, now, net>>
    BY <1>2, Zenon DEF CallStep, StoreCall
  <2> QED
    BY <1>0, <1>1, <2>1, Zenon
<1>3. ASSUME NEW t \in Task, LoadStep(t)
      PROVE  UNCHANGED <<gen, fence, conn, frozen, ctx, now, sent, posts, persisted, faults>>
  BY <1>3, Zenon DEF LoadStep, LoadRevision, LoadPending, net
<1>4. ASSUME NEW t \in Task, Transmit(t)
      PROVE  /\ UNCHANGED <<gen, fence, conn, frozen, ctx, now, persisted, faults>>
             /\ sent' \subseteq Client \X Nat /\ posts' \in [Client -> Nat]
  <2>1. task[t].client \in Client
    BY <1>4, HeldBefore, Zenon DEF TasksHeld, Held, Transmit
  <2>2. <<task[t].client, ctx.conn>> \in Client \X Nat
    BY <1>0, <2>1, Zenon
  <2> QED
    BY <1>0, <1>4, <2>1, <2>2 DEF Transmit
<1>5. CASE AdvanceGeneration
  <2>1. faults' \in 0 .. MaxFaults
    BY <1>5, AdvanceCall, Zenon
  <2>2. UNCHANGED <<conn, ctx, now, sent, posts, persisted>>
    BY <1>5, Zenon DEF AdvanceGeneration, net
  <2>3. \/ frozen' = frozen /\ gen' = gen + 1 /\ fence' = gen + 1
        \/ frozen' = TRUE /\ (gen' = gen + 1 \/ gen' = gen) /\ fence' = fence
    BY <1>5, Zenon DEF AdvanceGeneration, Commits
  <2>4. gen' \in Nat /\ fence' \in Nat
    BY <1>0, <2>3
  <2>5. frozen' \in BOOLEAN
    BY <1>0, <2>3, Zenon
  <2>6. FenceCurrent'
    BY <2>3, Zenon DEF FenceCurrent
  <2> QED
    BY <1>0, <2>1, <2>2, <2>4, <2>5, <2>6, Zenon
<1>6. CASE OpenStep
  BY <1>0, <1>6, Zenon DEF OpenStep, Open, FenceCurrent, net
<1>7. CASE HostStep
  BY <1>0, <1>7, Zenon DEF HostStep, FenceCurrent
<1> QED
  BY <1>0, <1>2, <1>3, <1>4, <1>5, <1>6, <1>7, Steps, Zenon DEF FenceCurrent

\* Every step preserves it.
LEMMA NextInd == ASSUME IndInv, [Next]_vars PROVE IndInv'
<1>1. StoreStep
  BY NextStore
<1>2. TasksHeld' /\ ViewsPast' /\ ViewCurrent'
  BY AllHeld, HeldAfter, Zenon
<1>3. TypeOK'
  BY <1>1, <1>2, RowsAfter, OthersTyped, Zenon DEF TypeOK, TasksHeld, Held, Holding, Rows, Kinds
<1> QED
  BY <1>1, <1>2, <1>3, RowsAfter, OthersTyped, AllPaid, Zenon DEF IndInv, OutboxInv

\* The inductive invariant holds in every reachable state.
THEOREM Inductive == Spec => []IndInv
  BY InitInd, NextInd, PTL DEF Spec

\* For any number of clients, tasks, generations, connections and faults: one row per enqueue, the
\* fence of the disk, views that are current while their revision is, and no transmission beyond
\* the attempts on disk (plan_dispatch, update_pending's revision check and mutate).
THEOREM OutboxSafe == Spec => []OutboxInv
<1>1. IndInv => OutboxInv
  BY DEF IndInv
<1> QED
  BY <1>1, Inductive, PTL

\* No reachable row can be planned into a record that validate_record refuses, whatever the limits
\* on attempts, age, delay and clock are.
THEOREM PlansAccepted == Spec => []PlansEncode
<1>1. ASSUME IndInv PROVE PlansEncode
  <2> SUFFICES ASSUME NEW c \in Pending, NEW n \in Word, NEW g \in 1 .. MaxConn
               PROVE  /\ ValidRecord(pending[c])
                      /\ ValidRecord(DispatchPlan(pending[c], gen, gen, g, n).rec)
                      /\ \A d \in Disposition : ValidRecord(FailurePlan(pending[c], gen, gen, g, n, d).rec)
                      /\ ValidRecord(RebindPlan(pending[c], gen, gen, g).rec)
                      /\ ValidRecord(ResumePlan(pending[c], gen, gen, g, n).rec)
    BY Zenon DEF PlansEncode
  <2>1. pending[c] \in Record /\ ValidRecord(pending[c]) /\ gen \in Nat /\ g \in Nat
    BY <1>1, StoreTypes, OutboxAssumption DEF Pending
  <2> DEFINE r == pending[c]
  <2> HIDE DEF r
  <2>2. r \in Record /\ ValidRecord(r)
    BY <2>1 DEF r
  <2>3. ValidRecord(DispatchPlan(r, gen, gen, g, n).rec)
    BY <2>1, <2>2, DispatchFollows, Zenon DEF Follows
  <2>4. \A d \in Disposition : ValidRecord(FailurePlan(r, gen, gen, g, n, d).rec)
    BY <2>1, <2>2, FailureFollows DEF Follows
  <2>5. ValidRecord(RebindPlan(r, gen, gen, g).rec)
    BY <2>1, <2>2, RebindFollows, Zenon DEF Follows
  <2>6. ValidRecord(ResumePlan(r, gen, gen, g, n).rec)
    BY <2>1, <2>2, ResumeFollows, Zenon DEF Follows
  <2> QED
    BY <2>2, <2>3, <2>4, <2>5, <2>6, Zenon DEF r
<1> QED
  BY <1>1, Inductive, PTL

\* A row goes only with its message stored, or from a state that is never sent: no crash, unknown
\* commit or late task loses a message (resolve_ack and remove_terminal).
THEOREM NoRowLost == Spec => NothingLost
<1>1. ASSUME IndInv, [Next]_vars
      PROVE  [\A c \in Client :
                c \in Pending /\ pending'[c] = NoRecord =>
                  \/ messages'[c] # "none"
                  \/ pending[c].state \in {"AuthRecovery", "PermanentFailure"}]_vars
  <2> SUFFICES ASSUME NEW c \in Client, pending[c] # NoRecord, pending'[c] = NoRecord
               PROVE  messages'[c] # "none" \/ pending[c].state \in {"AuthRecovery", "PermanentFailure"}
    BY Zenon DEF Pending
  <2>1. StoreStep
    BY <1>1, NextStore, Zenon
  <2>2. RowStep(c)
    BY <2>1, Zenon DEF StoreStep, store, RowStep
  <2> QED
    BY <2>2, RecordsExist DEF RowStep, Follows
<1> QED
  BY <1>1, Inductive, PTL DEF Spec, NothingLost

\* A message that is stored and not pending is never enqueued again (mutate's look at messages).
THEOREM NoneResent == Spec => NeverResent
<1>1. ASSUME IndInv, [Next]_vars
      PROVE  [\A c \in Client : c \in Stored /\ c \notin Pending => pending'[c] = NoRecord]_vars
  <2> SUFFICES ASSUME NEW c \in Client, messages[c] # "none", pending[c] = NoRecord
               PROVE  pending'[c] = NoRecord
    BY Zenon DEF Pending, Stored
  <2>1. StoreStep
    BY <1>1, NextStore, Zenon
  <2>2. RowStep(c)
    BY <2>1, Zenon DEF StoreStep, store, RowStep
  <2> QED
    BY <2>2, Zenon DEF RowStep
<1> QED
  BY <1>1, Inductive, PTL DEF Spec, NeverResent

\* A row is made or kept sendable only in the generation on disk and never after it failed for good.
THEOREM Fenced == Spec => GenerationFenced
<1>1. ASSUME IndInv, [Next]_vars
      PROVE  [\A c \in Client :
                c \in Pending /\ pending'[c] # pending[c] /\ pending'[c].state \in Sendable =>
                  pending'[c].gen = gen /\ pending[c].state # "PermanentFailure"]_vars
  <2> SUFFICES ASSUME NEW c \in Client, pending[c] # NoRecord, pending'[c] # pending[c],
                      pending'[c].state \in Sendable
               PROVE  pending'[c].gen = gen /\ pending[c].state # "PermanentFailure"
    BY Zenon DEF Pending
  <2>1. StoreStep
    BY <1>1, NextStore, Zenon
  <2>2. RowStep(c)
    BY <2>1, Zenon DEF StoreStep, store, RowStep
  <2>3. NoRecord.state \notin Sendable
    BY DEF NoRecord, Sendable
  <2> QED
    BY <2>2, <2>3, Zenon DEF RowStep, Follows
<1> QED
  BY <1>1, Inductive, PTL DEF Spec, GenerationFenced

\* A failure is held against a row only if a request of its client went over the row's connection.
THEOREM Attributed == Spec => FailureAttributed
<1>1. ASSUME IndInv, [Next]_vars
      PROVE  [\A c \in Client :
                /\ c \in Pending /\ pending'[c] # NoRecord
                /\ pending'[c].code # pending[c].code
                /\ pending'[c].code \in {"TEMPORARY", "AUTH", "PERMANENT"}
                => <<c, pending[c].conn>> \in sent]_vars
  <2> SUFFICES ASSUME NEW c \in Client, pending[c] # NoRecord, pending'[c] # NoRecord,
                      Blamed(pending[c], pending'[c])
               PROVE  <<c, pending[c].conn>> \in sent
    BY Zenon DEF Pending, Blamed
  <2>1. StoreStep
    BY <1>1, NextStore, Zenon
  <2>2. RowStep(c)
    BY <2>1, Zenon DEF StoreStep, store, RowStep
  <2>3. pending'[c] # pending[c]
    BY DEF Blamed
  <2> QED
    BY <2>2, <2>3, Zenon DEF RowStep
<1> QED
  BY <1>1, Inductive, PTL DEF Spec, FailureAttributed
==============================================================================
