---------------------------- MODULE IdentityGuard ----------------------------
(***************************************************************************)
(* The guard that keeps a process on one incarnation of its database:      *)
(* server/storage/postgresidentity/guard.go, with the pool hooks that call *)
(* it before a connection is handed out and the terminalState that onTrip  *)
(* publishes to.                                                           *)
(*                                                                         *)
(* A verification reads tripped, asks the database who it is without       *)
(* holding the mutex, and judges the answer under the mutex, so that other *)
(* verifications and changes of the database come in between.  An identity *)
(* stands for the digest of name, oid, start time, system identifier and   *)
(* timeline; Unfit is every answer that is not a usable identity: in       *)
(* recovery, malformed, or an error that is not transient.                 *)
(***************************************************************************)
EXTENDS Integers, FiniteSets

CONSTANTS
  Conn,        \* connections, each verified by one caller at a time
  Identity,    \* the incarnations of the database
  NoIdentity,
  Unfit,
  Start        \* what the database may be at first

Answer == Identity \cup {Unfit}

ASSUME GuardAssumption ==
  /\ NoIdentity \notin Answer
  /\ Unfit \notin Identity
  /\ Start \subseteq Answer

VARIABLES
  guarded,   \* the pools have a guard
  db,        \* what the database is now
  upset,     \* whether it was ever unfit or something else (history)
  baseline,  \* the identity of the first verification
  tripped,   \* the guard has failed for good, and terminalState knows
  step,      \* where each connection is in its verification
  seen       \* the answer of its last identity query

guardVars == <<guarded, db, upset, baseline, tripped, step, seen>>

GuardInit ==
  /\ guarded \in BOOLEAN
  /\ db \in Start
  /\ upset = (db = Unfit)
  /\ baseline = NoIdentity
  /\ tripped = FALSE
  /\ step = [c \in Conn |-> "idle"]
  /\ seen = [c \in Conn |-> NoIdentity]

\* The database is restarted, replaced, promoted or put into recovery.
DbChange ==
  /\ db' \in Answer \ {db}
  /\ upset' = TRUE
  /\ UNCHANGED <<guarded, baseline, tripped, step, seen>>

\* Mutant: a connection error is taken for a wrong database.
BeginNeverTransient(c) ==
  /\ step[c] = "idle"
  /\ ~tripped
  /\ step' = [step EXCEPT ![c] = IF guarded THEN "judging" ELSE "free"]
  /\ \E a \in {db, Unfit} : seen' = [seen EXCEPT ![c] = a]
  /\ UNCHANGED <<guarded, db, upset, baseline, tripped>>

\* AfterConnect or PrepareConn calls Verify, which fails at once after a trip and otherwise asks
\* the database; without a guard the connection is handed out as it is.  An error of the query
\* that isTransient recognises decides nothing: the step does not happen.
Begin(c) ==
  /\ step[c] = "idle"
  /\ ~tripped
  /\ step' = [step EXCEPT ![c] = IF guarded THEN "judging" ELSE "free"]
  /\ seen' = IF guarded THEN [seen EXCEPT ![c] = db] ELSE seen
  /\ UNCHANGED <<guarded, db, upset, baseline, tripped>>

\* Mutant: tripped is not read again under the mutex.
JudgeUnchecked(c) ==
  LET good == seen[c] # Unfit /\ baseline \in {NoIdentity, seen[c]}
  IN  /\ step[c] = "judging"
      /\ step' = [step EXCEPT ![c] = IF good THEN "held" ELSE "idle"]
      /\ baseline' = IF good THEN seen[c] ELSE baseline
      /\ seen' = IF good THEN seen ELSE [seen EXCEPT ![c] = NoIdentity]
      /\ tripped' = (tripped \/ ~good)
      /\ UNCHANGED <<guarded, db, upset>>

\* The rest of verify, under the mutex: the first identity becomes the baseline, any other
\* one and any unusable answer trips the guard.  tripLocked publishes the trip to
\* terminalState before the mutex is released.
Judge(c) ==
  LET good == ~tripped /\ seen[c] # Unfit /\ baseline \in {NoIdentity, seen[c]}
  IN  /\ step[c] = "judging"
      /\ step' = [step EXCEPT ![c] = IF good THEN "held" ELSE "idle"]
      /\ baseline' = IF good THEN seen[c] ELSE baseline
      /\ seen' = IF good THEN seen ELSE [seen EXCEPT ![c] = NoIdentity]
      /\ tripped' = (tripped \/ ~good)
      /\ UNCHANGED <<guarded, db, upset>>

\* The caller gives the connection back to the pool.
Release(c) ==
  /\ step[c] \in {"held", "free"}
  /\ step' = [step EXCEPT ![c] = "idle"]
  /\ seen' = [seen EXCEPT ![c] = NoIdentity]
  /\ UNCHANGED <<guarded, db, upset, baseline, tripped>>

GuardNext == DbChange \/ \E c \in Conn : Begin(c) \/ Judge(c) \/ Release(c)

GuardSpec == GuardInit /\ [][GuardNext]_guardVars

------------------------------------------------------------------------------
(* Properties *)

GuardTypeOK ==
  /\ db \in Answer
  /\ {guarded, upset, tripped} \subseteq BOOLEAN
  /\ baseline \in Identity \cup {NoIdentity}
  /\ step \in [Conn -> {"idle", "judging", "held", "free"}]
  /\ seen \in [Conn -> Answer \cup {NoIdentity}]

\* Every connection in use was found on one and the same incarnation, whichever of several
\* racing verifications came first and however stale their answers were (verify).
OneIncarnation ==
  \A c \in Conn : step[c] = "held" => seen[c] = baseline /\ baseline \in Identity

\* The guard never fails over a database that stayed what it was: lost connections, time-outs
\* and restarts in progress are no evidence (isTransient).
TripJustified == tripped => upset

\* What TripJustified rests on: while nothing has changed, all answers agree.
AnswersAgree ==
  /\ \A c \in Conn : step[c] = "judging" => seen[c] \in Answer
  /\ ~upset =>
       /\ db # Unfit
       /\ baseline \in {NoIdentity, db}
       /\ \A c \in Conn : step[c] = "judging" => seen[c] = db

\* The guard hands out one incarnation and fails only for a reason.
GuardInv == GuardTypeOK /\ OneIncarnation /\ TripJustified

\* A trip is for ever, and no connection is handed out after it, not even to a verification
\* that had its answer before; nor does the baseline ever change (Judge under the mutex).
TripFinal ==
  [][/\ tripped => tripped'
     /\ baseline # NoIdentity => baseline' = baseline
     /\ \A c \in Conn : step'[c] = "held" /\ step[c] # "held" => ~tripped /\ ~tripped']_guardVars
==============================================================================
