---------------------------- MODULE OutboxRecord -----------------------------
(***************************************************************************)
(* The send state of one outbox record (sdk/core/src/outbox/mod.rs) and    *)
(* the envelope check every stored record passes (envelope.rs).            *)
(*                                                                         *)
(* A record keeps what the state machine reads: its state, the attempts    *)
(* used, the store generation (gen) and connection generation (conn) it is *)
(* bound to, the enqueue time, the deadline and the class of its last      *)
(* code.  The intent is immutable and is left out, and so is the identity  *)
(* check: one store belongs to one account.                                *)
(***************************************************************************)
EXTENDS Integers

CONSTANTS
  MaxAttempts,       \* MAX_ATTEMPTS
  MaxRetryAge,       \* MAX_RETRY_AGE_MS
  BaseRetryDelay,    \* BASE_RETRY_DELAY_MS
  MaxRetryDelay,     \* MAX_RETRY_DELAY_MS
  InFlightTimeout,   \* IN_FLIGHT_TIMEOUT_MS
  MaxWord            \* u64::MAX: the largest clock value, where checked_add overflows

\* The shift of the backoff is at most MaxAttempts - 1.
ASSUME RecordAssumption ==
  /\ MaxAttempts \in Nat \ {0}
  /\ MaxRetryAge \in Nat \ {0}
  /\ BaseRetryDelay \in Nat \ {0}
  /\ MaxRetryDelay \in Nat \ {0}
  /\ InFlightTimeout \in Nat \ {0}
  /\ MaxWord \in Nat
  /\ \A n \in 0 .. MaxAttempts : 2^n \in Nat

Word == 0 .. MaxWord

Sendable == {"Ready", "InFlight", "RetryWait"}
State == Sendable \cup {"AuthRecovery", "PermanentFailure"}
Code == {"NONE", "TEMPORARY", "RESUMED", "AUTH", "GENERATION", "PERMANENT", "EXHAUSTED"}

\* How SendDisposition::from_code classifies a failure.
Disposition == {"RetrySameIntent", "AuthRecovery", "PermanentFailure"}

Record == [state : State, attempts : 0 .. MaxAttempts, gen : Nat, conn : Nat,
           created : Word, deadline : Word, code : Code]

MakeRecord(r, state, attempts, deadline, code) ==
  [state |-> state, attempts |-> attempts, gen |-> r.gen, conn |-> r.conn,
   created |-> r.created, deadline |-> deadline, code |-> code]

\* OutboxRecord::new
NewRecord(gen, conn, now) ==
  [state |-> "Ready", attempts |-> 0, gen |-> gen, conn |-> conn,
   created |-> now, deadline |-> now, code |-> "NONE"]

\* retry_code_valid: the codes a state may carry.
CodesOf(state) ==
  CASE state \in {"Ready", "InFlight"} -> {"NONE"}
    [] state = "RetryWait" -> {"TEMPORARY", "RESUMED"}
    [] state = "AuthRecovery" -> {"AUTH", "GENERATION"}
    [] state = "PermanentFailure" -> {"PERMANENT", "EXHAUSTED"}

\* age_deadline overflows, or is the first instant at which a record is too old.
AgeOverflows(r) == r.created + MaxRetryAge > MaxWord
AgeDeadline(r) == r.created + MaxRetryAge

\* validate_record: what encode_envelope and decode_envelope accept.
ValidRecord(r) ==
  /\ r.attempts <= MaxAttempts
  /\ r.code \in CodesOf(r.state)
  /\ r.state = "Ready" => r.attempts = 0 /\ r.deadline = r.created
  /\ r.state = "InFlight" =>
       /\ r.attempts > 0 /\ r.deadline > r.created
       /\ ~AgeOverflows(r) /\ r.deadline <= AgeDeadline(r)
  /\ r.state = "RetryWait" =>
       /\ r.attempts > 0 \/ r.code = "RESUMED"
       /\ r.deadline > r.created
       /\ ~AgeOverflows(r) /\ r.deadline < AgeDeadline(r)
  /\ r.state \in {"AuthRecovery", "PermanentFailure"} => r.deadline = 0

------------------------------------------------------------------------------
(* The transitions.  A plan says whether the new record is persisted, and   *)
(* whether the intent is sent once it is.                                   *)

Nothing(r) == [do |-> "nothing", rec |-> r]
Persist(r) == [do |-> "persist", rec |-> r]
Send(r) == [do |-> "send", rec |-> r]

Terminal(r, code) == MakeRecord(r, "PermanentFailure", r.attempts, 0, code)
Recovery(r, code) == MakeRecord(r, "AuthRecovery", r.attempts, 0, code)

\* No attempt is left, or the record is too old.
Exhausted(r, now) ==
  r.attempts >= MaxAttempts \/ AgeOverflows(r) \/ now >= AgeDeadline(r)

\* retry_deadline: never at or before the enqueue time, whatever the clock says.
RetryDeadline(r, now, delay) ==
  IF now + delay > r.created + 1 THEN now + delay ELSE r.created + 1

\* Mutant: a retry may be due at the very instant the record expires.
RetryFitsLate(r, now, delay) ==
  /\ ~AgeOverflows(r)
  /\ r.created + 1 <= MaxWord
  /\ now + delay <= MaxWord
  /\ RetryDeadline(r, now, delay) <= AgeDeadline(r)

\* retry_deadline succeeds: no overflow, and before the record is too old.
RetryFits(r, now, delay) ==
  /\ ~AgeOverflows(r)
  /\ r.created + 1 <= MaxWord
  /\ now + delay <= MaxWord
  /\ RetryDeadline(r, now, delay) < AgeDeadline(r)

\* The exponential delay after the attempt that failed.
Delay(r) ==
  LET d == BaseRetryDelay * 2^(r.attempts - 1)
  IN  IF d < MaxRetryDelay THEN d ELSE MaxRetryDelay

\* Mutant: only the caller's generation is compared.
GenerationLeftBehind(r, fence, gen) == r.gen # gen

\* store_generation_changed: bound to another generation than the store's or the caller's.
GenerationChanged(r, fence, gen) == r.gen # fence \/ r.gen # gen

\* with_in_flight
InFlightDeadline(r, now) ==
  IF now + InFlightTimeout < AgeDeadline(r) THEN now + InFlightTimeout ELSE AgeDeadline(r)

\* dispatch_plan
DispatchPlan(r, fence, gen, conn, now) ==
  IF r.state \notin Sendable THEN Nothing(r)
  ELSE IF GenerationChanged(r, fence, gen) THEN Persist(Recovery(r, "GENERATION"))
  ELSE IF r.conn # conn THEN Nothing(r)
  ELSE IF Exhausted(r, now) THEN Persist(Terminal(r, "EXHAUSTED"))
  ELSE IF (r.state # "Ready" /\ now < r.deadline) \/ now < r.created THEN Nothing(r)
  ELSE IF now + InFlightTimeout > MaxWord THEN Persist(Terminal(r, "EXHAUSTED"))
  ELSE Send(MakeRecord(r, "InFlight", r.attempts + 1, InFlightDeadline(r, now), "NONE"))

\* Mutant: the connection a failure came from is not compared.
NotUnderWay(r, conn) == r.state # "InFlight"

\* A failure that cannot be about the attempt under way.
Unrelated(r, conn) == r.conn # conn \/ r.state # "InFlight"

\* failure_plan: a failure counts only while an attempt is under way.
FailurePlan(r, fence, gen, conn, now, disposition) ==
  IF r.state \notin Sendable THEN Nothing(r)
  ELSE IF GenerationChanged(r, fence, gen) THEN Persist(Recovery(r, "GENERATION"))
  ELSE IF Unrelated(r, conn) THEN Nothing(r)
  ELSE IF disposition = "PermanentFailure" THEN Persist(Terminal(r, "PERMANENT"))
  ELSE IF disposition = "AuthRecovery" THEN Persist(Recovery(r, "AUTH"))
  ELSE IF Exhausted(r, now) \/ ~RetryFits(r, now, Delay(r)) THEN Persist(Terminal(r, "EXHAUSTED"))
  ELSE Persist(MakeRecord(r, "RetryWait", r.attempts, RetryDeadline(r, now, Delay(r)), "TEMPORARY"))

\* Mutant: only a row that was never sent is rebound.
RebindUnsent(r, fence, gen, conn) ==
  IF /\ gen = fence
     /\ r.gen = gen
     /\ r.state = "Ready"
     /\ r.conn # conn
  THEN Persist([r EXCEPT !.conn = conn])
  ELSE Nothing(r)

\* rebind_connection: only the connection generation changes.
RebindPlan(r, fence, gen, conn) ==
  IF /\ gen = fence
     /\ r.gen = gen
     /\ r.state \in Sendable
     /\ r.conn # conn
  THEN Persist([r EXCEPT !.conn = conn])
  ELSE Nothing(r)

\* resume_auth: the record is bound to the caller's generations and may be sent again.
ResumePlan(r, fence, gen, conn, now) ==
  IF gen # fence \/ r.state # "AuthRecovery" THEN Nothing(r)
  ELSE IF Exhausted(r, now) \/ ~RetryFits(r, now, 0) THEN Persist(Terminal(r, "EXHAUSTED"))
  ELSE Persist([state |-> "RetryWait", attempts |-> r.attempts, gen |-> gen, conn |-> conn,
                created |-> r.created, deadline |-> RetryDeadline(r, now, 0), code |-> "RESUMED"])

\* Mutant: any row may be removed.
RemovableAny(r, fence, gen) == gen = fence

\* remove_terminal
Removable(r, fence, gen) ==
  gen = fence /\ r.state \in {"AuthRecovery", "PermanentFailure"}
==============================================================================
