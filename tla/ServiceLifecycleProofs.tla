----------------------- MODULE ServiceLifecycleProofs ------------------------
(***************************************************************************)
(* Proofs about the identity guard and about the process it stops.         *)
(*                                                                         *)
(* The guard keeps its promises for any number of connections, any set of  *)
(* incarnations and any number of changes of the database. The process     *)
(* keeps them too, since each of its steps is a step of the guard or       *)
(* leaves it alone, and it stops as it should whatever parts are           *)
(* configured.                                                             *)
(***************************************************************************)
EXTENDS ServiceLifecycle, TLAPS

\* The inductive invariant: GuardInv alone says nothing of the answers that wait to be judged.
IInv == GuardInv /\ AnswersAgree

\* The guard starts without a baseline, and no connection is in use.
LEMMA InitEstablishes == GuardInit => IInv
  BY GuardAssumption, Zenon
  DEF GuardInit, IInv, GuardInv, GuardTypeOK, OneIncarnation, TripJustified, AnswersAgree, Answer

\* A change of the database leaves the guard alone, and upset remembers it.
LEMMA ChangePreserves == IInv /\ DbChange => IInv'
  BY DEF DbChange, IInv, GuardInv, GuardTypeOK, OneIncarnation, TripJustified, AnswersAgree, Answer

\* A verification that begins has the answer of the database as it is now.
LEMMA BeginPreserves == ASSUME NEW c \in Conn PROVE IInv /\ Begin(c) => IInv'
  BY GuardAssumption
  DEF Begin, IInv, GuardInv, GuardTypeOK, OneIncarnation, TripJustified, AnswersAgree, Answer

\* A judgement accepts only the baseline, and trips only when something has changed.
LEMMA JudgePreserves == ASSUME NEW c \in Conn PROVE IInv /\ Judge(c) => IInv'
<1> SUFFICES ASSUME IInv, Judge(c) PROVE IInv'
  OBVIOUS
<1> DEFINE good == ~tripped /\ seen[c] # Unfit /\ baseline \in {NoIdentity, seen[c]}
<1>1. seen[c] \in Answer
  BY DEF Judge, IInv, AnswersAgree
<1>2. CASE good
  BY <1>1, <1>2, GuardAssumption
  DEF Judge, IInv, GuardInv, GuardTypeOK, OneIncarnation, TripJustified, AnswersAgree, Answer
<1>3. CASE ~good
  BY <1>1, <1>3, GuardAssumption
  DEF Judge, IInv, GuardInv, GuardTypeOK, OneIncarnation, TripJustified, AnswersAgree, Answer
<1> QED
  BY <1>2, <1>3

\* A connection that is given back is no longer in use.
LEMMA ReleasePreserves == ASSUME NEW c \in Conn PROVE IInv /\ Release(c) => IInv'
  BY GuardAssumption
  DEF Release, IInv, GuardInv, GuardTypeOK, OneIncarnation, TripJustified, AnswersAgree, Answer

\* Every step of the guard and of its environment preserves the invariant.
LEMMA StepPreserves == IInv /\ [GuardNext]_guardVars => IInv'
<1> SUFFICES ASSUME IInv, [GuardNext]_guardVars PROVE IInv'
  OBVIOUS
<1>1. CASE UNCHANGED guardVars
  BY <1>1 DEF guardVars, IInv, GuardInv, GuardTypeOK, OneIncarnation, TripJustified, AnswersAgree
<1>2. CASE GuardNext
  BY <1>2, ChangePreserves, BeginPreserves, JudgePreserves, ReleasePreserves DEF GuardNext
<1> QED
  BY <1>1, <1>2

\* Whatever verifications race and however stale their answers are, all connections in use are
\* on one incarnation, and the guard fails only for a database that has changed (verify).
THEOREM GuardHolds == GuardSpec => []GuardInv
<1>1. IInv => GuardInv
  BY DEF IInv
<1> QED
  BY <1>1, InitEstablishes, StepPreserves, PTL DEF GuardSpec

\* A trip is for ever, nothing is handed out after it, and the baseline never changes (verify,
\* tripLocked).
THEOREM TripIsFinal == GuardSpec => TripFinal
<1> DEFINE Final == /\ tripped => tripped'
                    /\ baseline # NoIdentity => baseline' = baseline
                    /\ \A c \in Conn : step'[c] = "held" /\ step[c] # "held" => ~tripped /\ ~tripped'
<1>1. ASSUME IInv, GuardNext PROVE Final
  <2>1. CASE DbChange
    BY <1>1, <2>1 DEF DbChange
  <2>2. ASSUME NEW c \in Conn, Begin(c) PROVE Final
    BY <1>1, <2>2 DEF Begin, IInv, GuardInv, GuardTypeOK
  <2>3. ASSUME NEW c \in Conn, Judge(c) PROVE Final
    BY <1>1, <2>3 DEF Judge, IInv, GuardInv, GuardTypeOK
  <2>4. ASSUME NEW c \in Conn, Release(c) PROVE Final
    BY <1>1, <2>4 DEF Release, IInv, GuardInv, GuardTypeOK
  <2> QED
    BY <1>1, <2>1, <2>2, <2>3, <2>4 DEF GuardNext
<1>2. IInv /\ [GuardNext]_guardVars => [Final]_guardVars
  BY <1>1
<1> QED
  BY <1>2, InitEstablishes, StepPreserves, PTL DEF GuardSpec, TripFinal

------------------------------------------------------------------------------
(* The inductive invariant *)

\* What the coordinator knows of the others is true, and it cancels them for a reason.
JoinInv(j) ==
  /\ j \in JoinState
  /\ ~j.server => http.pc = "returned" /\ j.serverErr = http.err
  /\ ~j.worker => worker \in {"none", "done"} /\ j.workerErr = lost
  /\ j.closing => ~j.server
  /\ ~j.close => j.closing /\ Gone("message") /\ Gone("auth")
  /\ j.terminal => tripped
  /\ j.cancelServer => signalled \/ tripped \/ (~j.worker /\ worker = "done")
  /\ j.cancelWorker => signalled \/ tripped \/ ~j.server

\* Before the coordinator runs and after the process has ended there is nothing to serve.
QuietInv ==
  main # "join" =>
    /\ http = NoHttp /\ serve = NoServe /\ request = {} /\ ~ready
    /\ worker = "none" /\ ~lost /\ join = NoJoin

\* Handlers and listeners at each stage of Server.Run.
HttpInv ==
  /\ http.pc = "new" => serve = NoServe /\ request = {}
  /\ http.pc \in {"collecting", "returned"} =>
       /\ \A l \in Listener : serve[l] \notin {"spawned", "accepting"}
       /\ request = {} \/ http.forced
  /\ http.forced => http.err
  /\ ready => http.pc = "ready" /\ \A l \in Listener : Started(l)

Draining == http.pc \in {"draining", "collecting", "returned"}

\* Nothing stops without a cause that the exit code will tell, and the server stops cleanly only
\* when it was cancelled.
CauseInv ==
  /\ lost => worker \in {"stopping", "done"}
  /\ Draining \/ worker \in {"stopping", "done"} => signalled \/ tripped \/ http.err \/ lost
  /\ Draining => http.err \/ signalled \/ join.cancelServer

\* Pools close in their order and for the shutdown only, and a closed pool has all its
\* connections back.
PoolInv ==
  /\ \A p \in {"auth", "message"} : Closes(p) => Closing
  /\ CloseOrder
  /\ Running => \A p \in {"auth", "message"} : Gone(p) => ~Busy(p)
  /\ main \notin {"join", "exit"} => \A c \in Conn : step[c] # "idle" => c = Ping(main) /\ PoolOf[c] = main
  /\ \A p \in Part \ on : pool[p] = "none"
  /\ main = "auth" => pool["message"] = "none"
  /\ main \in {"message", "webhook", "join"} /\ "auth" \in on => pool["auth"] # "none"
  /\ main \in {"webhook", "join"} /\ "message" \in on => pool["message"] # "none"

ProcessInv == TypeOK /\ JoinInv(join) /\ QuietInv /\ HttpInv /\ CauseInv /\ PoolInv

------------------------------------------------------------------------------
(* The guard *)

\* The connection of a ping belongs to the pool that is pinged.
LEMMA PingConn == \A p \in {"auth", "message"} : Ping(p) \in Conn /\ PoolOf[Ping(p)] = p
  BY ProcessAssumption DEF Ping

\* A process starts with a fresh guard.
LEMMA InitGuard == Init => GuardInit
  BY DEF Init

\* Every step of the process is a step of the guard, or leaves it alone.
LEMMA StepGuard == [Next]_vars => [GuardNext]_guardVars
<1> SUFFICES ASSUME [Next]_vars PROVE [GuardNext]_guardVars
  OBVIOUS
<1>1. CASE UNCHANGED vars
  BY <1>1 DEF vars
<1>2. CASE StartUp
  <2>1. ASSUME NEW p \in {"auth", "message"},
               OpenPool(p) \/ Opened(p) \/ OpenFailed(p) \/ (main = p /\ Verify(Ping(p)))
        PROVE  [GuardNext]_guardVars
    BY <2>1, PingConn DEF OpenPool, Opened, OpenFailed, Verify, GuardNext, guardVars
  <2>2. CASE WebhookFailed \/ Abort \/ Launch
    BY <2>2 DEF WebhookFailed, Abort, Launch, End
  <2> QED
    BY <1>2, <2>1, <2>2 DEF StartUp
<1>3. CASE Service
  <2>1. CASE Bind \/ GoReady \/ StopServing \/ StopListeners \/ DrainDone \/ DrainTimeout \/ RunReturns
    BY <2>1 DEF Bind, GoReady, StopServing, StopListeners, DrainDone, DrainTimeout, RunReturns, Served
  <2>2. ASSUME NEW l \in Listener, Serve(l) PROVE UNCHANGED guardVars
    BY <2>2 DEF Serve, Served
  <2>3. CASE CancelWorker \/ WorkerReturns
    BY <2>3 DEF CancelWorker, WorkerReturns
  <2>4. CASE Select \/ Deadline
    BY <2>4 DEF Select, Deadline, Turned, End
  <2>5. ASSUME NEW p \in {"auth", "message"}, ClosePool(p) \/ PoolClosed(p) PROVE UNCHANGED guardVars
    BY <2>5 DEF ClosePool, PoolClosed
  <2> QED
    BY <1>3, <2>1, <2>2, <2>3, <2>4, <2>5 DEF Service
<1>4. CASE Outside
  <2>1. CASE Signal \/ DatabaseChanges \/ LockLost
    BY <2>1 DEF Signal, DatabaseChanges, LockLost, GuardNext
  <2>2. ASSUME NEW l \in Listener, ListenerFails(l) PROVE UNCHANGED guardVars
    BY <2>2 DEF ListenerFails, Served
  <2>3. ASSUME NEW r \in Conn, Arrive(r) \/ Use(r) \/ Verify(r) \/ Return(r) \/ Respond(r)
        PROVE  [GuardNext]_guardVars
    BY <2>3 DEF Arrive, Use, Verify, Return, Respond, GuardNext
  <2> QED
    BY <1>4, <2>1, <2>2, <2>3 DEF Outside
<1> QED
  BY <1>1, <1>2, <1>3, <1>4 DEF Next

\* The process implements the guard: all that is proved of the guard holds of the process, and so
\* every request is served from one incarnation of the database (installGuard, Guard.verify).
THEOREM ProcessGuarded == Spec => GuardSpec
  BY InitGuard, StepGuard, PTL DEF Spec, GuardSpec

\* GuardInv for the whole process.
THEOREM ProcessGuardInv == Spec => []GuardInv
  BY ProcessGuarded, GuardHolds, PTL

\* TripFinal for the whole process.
THEOREM ProcessTripFinal == Spec => TripFinal
  BY ProcessGuarded, TripIsFinal, PTL

------------------------------------------------------------------------------
(* The coordinator *)

\* What two states of the coordinator agree on: whom it waits for and what they have said.
SameAwaited(j, k) ==
  /\ k.server = j.server /\ k.worker = j.worker /\ k.close = j.close
  /\ k.serverErr = j.serverErr /\ k.workerErr = j.workerErr

\* What the coordinator has begun it does not take back.
Grows(j, k) == (j.closing => k.closing) /\ (j.cancelServer => k.cancelServer)

\* A fresh coordinator waits for everybody and has done nothing yet.
LEMMA FreshJoin ==
  /\ NoJoin \in JoinState
  /\ NoJoin.server = TRUE /\ NoJoin.close = TRUE /\ NoJoin.worker = ("webhook" \in on)
  /\ NoJoin.closing = FALSE /\ NoJoin.terminal = FALSE /\ NoJoin.workerErr = FALSE
  /\ NoJoin.cancelServer = FALSE /\ NoJoin.cancelWorker = FALSE
<1>1. ("webhook" \in on) \in BOOLEAN
  OBVIOUS
<1>2. ASSUME NEW v \in BOOLEAN
      PROVE  [server |-> TRUE, worker |-> v, shutdown |-> TRUE, close |-> TRUE,
              terminal |-> FALSE, timedOut |-> FALSE, serverErr |-> FALSE, workerErr |-> FALSE,
              cancelServer |-> FALSE, cancelWorker |-> FALSE, armed |-> FALSE, closing |-> FALSE]
               \in JoinState
  BY DEF JoinState
<1>3. NoJoin \in JoinState
  BY <1>1, <1>2, Zenon DEF NoJoin
<1>4. NoJoin.worker = ("webhook" \in on)
  BY Zenon DEF NoJoin
<1> QED
  BY <1>3, <1>4 DEF NoJoin

\* beginClose is right once the server has returned.
LEMMA BeginCloseKeeps ==
  ASSUME NEW j, JoinInv(j), ~j.server
  PROVE  /\ JoinInv(BeginClose(j)) /\ SameAwaited(j, BeginClose(j))
         /\ BeginClose(j).terminal = j.terminal /\ Grows(j, BeginClose(j))
  BY Zenon DEF JoinInv, JoinState, BeginClose, SameAwaited, Grows

\* ... which the events that do not come from the server ask first.
LEMMA CloseIfServedKeeps ==
  ASSUME NEW j, JoinInv(j)
  PROVE  /\ JoinInv(CloseIfServed(j)) /\ SameAwaited(j, CloseIfServed(j))
         /\ CloseIfServed(j).terminal = j.terminal /\ Grows(j, CloseIfServed(j))
  BY BeginCloseKeeps DEF CloseIfServed, SameAwaited, Grows

\* Cancelling both sides is right after a signal or a trip.
LEMMA CancelAllKeeps ==
  ASSUME NEW j, JoinInv(j), signalled \/ tripped
  PROVE  /\ JoinInv(CancelAll(j)) /\ SameAwaited(j, CancelAll(j))
         /\ CancelAll(j).terminal = j.terminal /\ Grows(j, CancelAll(j))
  BY Zenon DEF JoinInv, JoinState, CancelAll, SameAwaited, Grows

\* syncTerminal takes over a trip and cancels both sides.
LEMMA SyncTerminalKeeps ==
  ASSUME NEW j, JoinInv(j), tripped \in BOOLEAN
  PROVE  /\ JoinInv(SyncTerminal(j)) /\ SameAwaited(j, SyncTerminal(j))
         /\ SyncTerminal(j).terminal = tripped /\ Grows(j, SyncTerminal(j))
<1>1. CASE tripped /\ ~j.terminal
  <2> DEFINE t == [j EXCEPT !.terminal = TRUE, !.shutdown = FALSE, !.armed = TRUE]
  <2>1. JoinInv(t) /\ SameAwaited(j, t) /\ t.terminal = TRUE /\ Grows(j, t)
    BY <1>1, Zenon DEF JoinInv, JoinState, SameAwaited, Grows
  <2>2. SyncTerminal(j) = CancelAll(t)
    BY <1>1 DEF SyncTerminal
  <2> HIDE DEF t
  <2> QED
    BY <1>1, <2>1, <2>2, CancelAllKeeps, ZenonT(30) DEF SameAwaited, Grows
<1>2. CASE ~(tripped /\ ~j.terminal)
  BY <1>2 DEF SyncTerminal, SameAwaited, Grows, JoinInv, JoinState
<1> QED
  BY <1>1, <1>2

\* The top of the loop may begin to close the pools, after the server has returned.
LEMMA LoopTopKeeps ==
  ASSUME NEW j, JoinInv(j), tripped \in BOOLEAN
  PROVE  /\ JoinInv(LoopTop(j)) /\ SameAwaited(j, LoopTop(j))
         /\ LoopTop(j).terminal = tripped /\ Grows(j, LoopTop(j))
  BY SyncTerminalKeeps, CloseIfServedKeeps DEF LoopTop, SameAwaited, Grows

\* A signal came.
LEMMA OnShutdownKeeps ==
  ASSUME NEW j, JoinInv(j), tripped \in BOOLEAN, signalled
  PROVE  JoinInv(OnShutdown(j)) /\ Grows(j, OnShutdown(j))
<1> DEFINE t == [j EXCEPT !.shutdown = FALSE]
           s == [SyncTerminal(t) EXCEPT !.armed = TRUE]
<1>1. JoinInv(t) /\ Grows(j, t)
  BY Zenon DEF JoinInv, JoinState, Grows
<1> HIDE DEF t
<1>2. JoinInv(SyncTerminal(t)) /\ Grows(j, SyncTerminal(t))
  BY <1>1, SyncTerminalKeeps DEF Grows
<1>3. JoinInv(s) /\ Grows(j, s)
  BY <1>2, Zenon DEF JoinInv, JoinState, Grows
<1>4. OnShutdown(j) = CloseIfServed(CancelAll(s))
  BY DEF OnShutdown, t
<1> HIDE DEF s
<1> QED
  BY <1>3, <1>4, CancelAllKeeps, CloseIfServedKeeps DEF Grows

\* The server has returned.
LEMMA OnServerKeeps ==
  ASSUME NEW j, JoinInv(j), tripped \in BOOLEAN, http.err \in BOOLEAN, http.pc = "returned"
  PROVE  JoinInv(OnServer(j)) /\ Grows(j, OnServer(j))
<1> DEFINE t == [j EXCEPT !.server = FALSE, !.shutdown = FALSE, !.serverErr = http.err]
           s == [SyncTerminal(t) EXCEPT !.cancelWorker = TRUE, !.armed = TRUE]
<1>1. JoinInv(t) /\ t.server = FALSE /\ Grows(j, t)
  BY Zenon DEF JoinInv, JoinState, Grows
<1> HIDE DEF t
<1>2. JoinInv(SyncTerminal(t)) /\ SyncTerminal(t).server = FALSE /\ Grows(j, SyncTerminal(t))
  BY <1>1, SyncTerminalKeeps DEF SameAwaited, Grows
<1>3. JoinInv(s) /\ s.server = FALSE /\ Grows(j, s)
  BY <1>2, Zenon DEF JoinInv, JoinState, Grows
<1>4. OnServer(j) = BeginClose(s)
  BY DEF OnServer, t
<1> HIDE DEF s
<1> QED
  BY <1>3, <1>4, BeginCloseKeeps DEF Grows

\* The worker has returned.
LEMMA OnWorkerKeeps ==
  ASSUME NEW j, JoinInv(j), tripped \in BOOLEAN, lost \in BOOLEAN, worker = "done"
  PROVE  JoinInv(OnWorker(j)) /\ Grows(j, OnWorker(j))
<1> DEFINE t == [j EXCEPT !.worker = FALSE, !.shutdown = FALSE, !.workerErr = lost]
           s == [SyncTerminal(t) EXCEPT !.cancelServer = TRUE, !.armed = TRUE]
<1>1. JoinInv(t) /\ t.worker = FALSE /\ Grows(j, t)
  BY ZenonT(30) DEF JoinInv, JoinState, Grows
<1> HIDE DEF t
<1>2. JoinInv(SyncTerminal(t)) /\ SyncTerminal(t).worker = FALSE /\ Grows(j, SyncTerminal(t))
  BY <1>1, SyncTerminalKeeps DEF SameAwaited, Grows
<1>3. JoinInv(s) /\ Grows(j, s)
  BY <1>2, Zenon DEF JoinInv, JoinState, Grows
<1>4. OnWorker(j) = CloseIfServed(s)
  BY DEF OnWorker, t
<1> HIDE DEF s
<1> QED
  BY <1>3, <1>4, CloseIfServedKeeps DEF Grows

\* The closer has reported.
LEMMA ClosedKeeps ==
  ASSUME JoinInv(join), AllClosed, main = "join"
  PROVE  /\ JoinInv([join EXCEPT !.close = FALSE])
         /\ Grows(join, [join EXCEPT !.close = FALSE])
  BY Zenon DEF JoinInv, JoinState, AllClosed, Closing, Grows

\* The codes of joinRuntimeServerAndFatal.
LEMMA CodeType == ASSUME NEW j PROVE ExitCode(j) \in {"identity", "timeout", "error", "ok"}
  BY Zenon DEF ExitCode

\* A failure of the guard comes first, and success is what nothing speaks against.
LEMMA CodeMeaning ==
  ASSUME NEW j
  PROVE  /\ j.terminal => ExitCode(j) = "identity"
         /\ ExitCode(j) = "ok" => ~(j.terminal \/ j.timedOut \/ j.serverErr \/ j.workerErr)
  BY DEF ExitCode

\* The end of the process leaves nothing behind.
LEMMA EndPreserves ==
  ASSUME ProcessInv, NEW reason \in {"startup", "identity", "timeout", "error", "ok"}, End(reason),
         overdue' \in BOOLEAN
  PROVE  ProcessInv'
<1>1. main' = "exit" /\ pool' = NoPools /\ http' = NoHttp /\ serve' = NoServe /\ join' = NoJoin
      /\ request' = {} /\ ready' = FALSE /\ worker' = "none" /\ lost' = FALSE
      /\ on' = on /\ signalled' = signalled /\ code' = reason
  BY DEF End
<1>2. TypeOK'
  BY <1>1, FreshJoin, Zenon DEF ProcessInv, TypeOK, NoPools, NoHttp, NoServe
<1>3. JoinInv(join)'
  BY <1>1, FreshJoin, Zenon DEF JoinInv
<1>4. QuietInv'
  <2>1. NoJoin' = NoJoin
    BY <1>1 DEF NoJoin
  <2> QED
    BY <1>1, <2>1 DEF QuietInv, NoHttp, NoServe
<1>5. HttpInv' /\ CauseInv'
  BY <1>1 DEF HttpInv, CauseInv, Draining, NoHttp
<1>6. PoolInv'
  BY <1>1 DEF PoolInv, CloseOrder, Closes, Gone, Running, NoPools, Part
<1> QED
  BY <1>2, <1>3, <1>4, <1>5, <1>6 DEF ProcessInv

\* A case of the select, taken from a state j that knows the truth.
LEMMA TurnedPreserves ==
  ASSUME ProcessInv, tripped \in BOOLEAN, main = "join", NEW j, JoinInv(j), Grows(join, j),
         Turned(j), UNCHANGED overdue
  PROVE  ProcessInv'
<1> DEFINE next == LoopTop(j)
<1>1. JoinInv(next) /\ Grows(join, next)
  BY LoopTopKeeps DEF Grows
<1> HIDE DEF next
<1>2. CASE join' = next /\ UNCHANGED <<mainVars, guardVars, useVars, httpVars, workerVars>>
  <2>1. JoinInv(join)'
    BY <1>1, <1>2 DEF JoinInv, Gone, mainVars, guardVars, useVars, httpVars, workerVars
  <2>2. TypeOK'
    BY <1>1, <1>2 DEF ProcessInv, TypeOK, JoinInv, mainVars, useVars, httpVars, workerVars
  <2>3. QuietInv' /\ HttpInv'
    BY <1>2 DEF ProcessInv, QuietInv, HttpInv, Started, mainVars, useVars, httpVars, workerVars
  <2>4. CauseInv'
    BY <1>1, <1>2 DEF ProcessInv, CauseInv, Draining, Grows, mainVars, guardVars, httpVars, workerVars
  <2>5. PoolInv'
    BY <1>1, <1>2 DEF ProcessInv, PoolInv, CloseOrder, Closes, Closing, Gone, Busy, Running, Grows,
                      mainVars, guardVars, useVars
  <2> QED
    BY <2>1, <2>2, <2>3, <2>4, <2>5 DEF ProcessInv
<1>3. CASE End(ExitCode(next))
  BY <1>3, CodeType, EndPreserves DEF ProcessInv, TypeOK
<1> QED
  BY <1>2, <1>3 DEF Turned, next

\* The select goes on from a state that knows the truth.
LEMMA SelectTurns ==
  ASSUME ProcessInv, GuardTypeOK, Select
  PROVE  \E j : JoinInv(j) /\ Grows(join, j) /\ Turned(j)
<1>0. JoinInv(join) /\ main = "join" /\ tripped \in BOOLEAN /\ http.err \in BOOLEAN /\ lost \in BOOLEAN
  BY DEF ProcessInv, TypeOK, GuardTypeOK, Select
<1>1. CASE tripped /\ ~join.terminal /\ Turned(SyncTerminal(join))
  BY <1>0, <1>1, SyncTerminalKeeps, Zenon
<1>2. CASE signalled /\ join.shutdown /\ Turned(OnShutdown(join))
  BY <1>0, <1>2, OnShutdownKeeps
<1>3. CASE http.pc = "returned" /\ join.server /\ Turned(OnServer(join))
  BY <1>0, <1>3, OnServerKeeps
<1>4. CASE worker = "done" /\ join.worker /\ Turned(OnWorker(join))
  BY <1>0, <1>4, OnWorkerKeeps
<1>5. CASE AllClosed /\ join.close /\ Turned([join EXCEPT !.close = FALSE])
  BY <1>0, <1>5, ClosedKeeps
<1> QED
  BY <1>1, <1>2, <1>3, <1>4, <1>5 DEF Select

\* The select of the coordinator.
LEMMA SelectPreserves ==
  ASSUME ProcessInv, GuardTypeOK, Select
  PROVE  ProcessInv'
<1>1. PICK j : JoinInv(j) /\ Grows(join, j) /\ Turned(j)
  BY SelectTurns
<1> QED
  BY <1>1, TurnedPreserves DEF Select, GuardTypeOK

\* The deadline of the coordinator.
LEMMA DeadlinePreserves == ASSUME ProcessInv, Deadline PROVE ProcessInv'
  BY CodeType, EndPreserves DEF Deadline

\* The start of the goroutines.
LEMMA LaunchPreserves ==
  ASSUME ProcessInv, GuardTypeOK, Launch
  PROVE  ProcessInv'
<1>1. JoinInv(NoJoin) /\ join = NoJoin
  BY FreshJoin DEF JoinInv, ProcessInv, QuietInv, Launch
<1>2. JoinInv(join') /\ SameAwaited(NoJoin, join') /\ Grows(NoJoin, join')
  BY <1>1, LoopTopKeeps DEF Launch, GuardTypeOK
<1> USE DEF Launch, ProcessInv
<1>3. JoinInv(join)'
  BY <1>2, FreshJoin, Zenon DEF JoinInv, QuietInv, SameAwaited, TypeOK, Gone, Part, guardVars, httpVars
<1>4. TypeOK'
  BY <1>2 DEF JoinInv, TypeOK, Part, httpVars
<1>5. QuietInv' /\ HttpInv'
  BY DEF QuietInv, HttpInv, Started, httpVars
<1>6. CauseInv'
  BY <1>2 DEF QuietInv, CauseInv, Draining, NoHttp, httpVars, guardVars, TypeOK
<1>7. PoolInv'
  <2>1. ~join.closing
    BY <1>1, FreshJoin
  <2>2. /\ pool'["auth"] = pool["auth"] /\ pool'["message"] = pool["message"]
        /\ \A p \in Part \ on : pool'[p] = pool[p]
    BY DEF TypeOK, Part
  <2>3. on' = on /\ step' = step /\ main = "webhook" /\ main' = "join"
    BY DEF guardVars
  <2> QED
    BY <2>1, <2>2, <2>3 DEF PoolInv, CloseOrder, Closes, Closing, Gone, Busy, Running
<1> QED
  BY <1>3, <1>4, <1>5, <1>6, <1>7

------------------------------------------------------------------------------
(* The other goroutines *)

\* On what each part of the invariant depends.
LEMMA JoinFrame ==
  ASSUME JoinInv(join), UNCHANGED <<http, join>>, signalled => signalled', tripped => tripped',
         worker \in {"none", "done"} => worker' = worker /\ lost' = lost,
         \A p \in {"auth", "message"} : Gone(p) => Gone(p)'
  PROVE  JoinInv(join)'
  BY DEF JoinInv

\* ... of CauseInv,
LEMMA CauseFrame ==
  ASSUME CauseInv, UNCHANGED <<http, join, worker, lost>>, signalled => signalled', tripped => tripped'
  PROVE  CauseInv'
  BY DEF CauseInv, Draining

\* ... and of PoolInv.
LEMMA PoolFrame ==
  ASSUME PoolInv, UNCHANGED <<on, main, pool, join>>, \A c \in Conn : step'[c] # "idle" => step[c] # "idle"
  PROVE  PoolInv'
<1>1. CloseOrder' /\ \A p \in {"auth", "message"} : Closes(p)' => Closing'
  BY DEF PoolInv, CloseOrder, Closes, Closing, Gone
<1>2. Running' => \A p \in {"auth", "message"} : Gone(p)' => ~Busy(p)'
  BY DEF PoolInv, Gone, Busy, Running
<1>3. main' \notin {"join", "exit"} =>
        \A c \in Conn : step'[c] # "idle" => c = Ping(main') /\ PoolOf[c] = main'
  BY DEF PoolInv
<1> QED
  BY <1>1, <1>2, <1>3 DEF PoolInv, Ping

\* A signal, the end of a handler, or a step of the guard that takes no new connection.
LEMMA Frame ==
  ASSUME ProcessInv, UNCHANGED <<on, main, code, pool, http, ready, serve, worker, lost, join, overdue>>,
         request' \subseteq request, signalled' \in BOOLEAN, signalled => signalled', tripped => tripped',
         \A c \in Conn : step'[c] # "idle" => step[c] # "idle"
  PROVE  ProcessInv'
<1>1. TypeOK /\ JoinInv(join) /\ QuietInv /\ HttpInv /\ CauseInv /\ PoolInv
  BY DEF ProcessInv
<1>2. TypeOK'
  BY <1>1 DEF TypeOK
<1>3. QuietInv'
  BY <1>1 DEF QuietInv, NoJoin
<1>4. HttpInv'
  BY <1>1 DEF HttpInv, Started
<1>5. JoinInv(join)'
  BY <1>1, JoinFrame DEF Gone
<1>6. CauseInv' /\ PoolInv'
  BY <1>1, CauseFrame, PoolFrame
<1> QED
  BY <1>2, <1>3, <1>4, <1>5, <1>6 DEF ProcessInv

\* The steps that only move the HTTP service keep the invariant when they keep its own parts.
LEMMA HttpFrame ==
  ASSUME ProcessInv, Served, main = "join", http.pc # "returned",
         http' \in [pc : {"new", "starting", "ready", "draining", "collecting", "returned"},
                    err : BOOLEAN, forced : BOOLEAN],
         serve' \in [Listener -> {"none", "spawned", "accepting", "closed", "failed"}],
         ready' \in BOOLEAN,
         HttpInv', CauseInv'
  PROVE  ProcessInv'
<1>1. /\ main' = main /\ on' = on /\ code' = code /\ signalled' = signalled /\ pool' = pool /\ request' = request
      /\ worker' = worker /\ lost' = lost /\ join' = join /\ overdue' = overdue
      /\ step' = step /\ tripped' = tripped
  BY DEF Served, guardVars, mainVars, useVars, workerVars, joinVars
<1>2. TypeOK /\ JoinInv(join) /\ PoolInv
  BY DEF ProcessInv
<1>3. TypeOK'
  BY <1>1, <1>2 DEF TypeOK
<1>4. JoinInv(join)'
  BY <1>1, <1>2 DEF JoinInv, Gone
<1>5. QuietInv'
  BY <1>1 DEF QuietInv
<1>6. PoolInv'
  BY <1>1, <1>2, PoolFrame
<1> QED
  BY <1>3, <1>4, <1>5, <1>6 DEF ProcessInv

\* The steps of Server.Run and of its listeners.
LEMMA HttpPreserves ==
  ASSUME ProcessInv,
         \/ Bind \/ GoReady \/ StopServing \/ StopListeners \/ DrainDone \/ DrainTimeout \/ RunReturns
         \/ \E l \in Listener : Serve(l) \/ ListenerFails(l)
  PROVE  ProcessInv'
<1> DEFINE HttpState == [pc : {"new", "starting", "ready", "draining", "collecting", "returned"},
                         err : BOOLEAN, forced : BOOLEAN]
           ServeState == [Listener -> {"none", "spawned", "accepting", "closed", "failed"}]
<1>1. Served
  BY DEF Bind, GoReady, StopServing, StopListeners, DrainDone, DrainTimeout, RunReturns, Serve, ListenerFails
<1>2. /\ request' = request /\ signalled' = signalled /\ tripped' = tripped
      /\ worker' = worker /\ lost' = lost /\ join' = join
  BY <1>1 DEF Served, guardVars, mainVars, useVars, workerVars, joinVars
<1>3. http \in HttpState /\ serve \in ServeState /\ ready \in BOOLEAN
      /\ JoinInv(join) /\ QuietInv /\ HttpInv /\ CauseInv
  BY DEF ProcessInv, TypeOK
<1>4. CASE Bind
  <2>1. main = "join" /\ http.pc = "new" /\ ready' = ready /\ serve = NoServe /\ request = {} /\ ~ready
    BY <1>3, <1>4 DEF Bind, HttpInv
  <2>2. CASE http' = [http EXCEPT !.pc = "starting"] /\ serve' = [l \in Listener |-> "spawned"]
    <3>1. http' \in HttpState /\ http'.pc = "starting" /\ http'.err = http.err /\ http'.forced = http.forced
          /\ serve' \in ServeState
      BY <1>3, <2>2
    <3>2. HttpInv' /\ CauseInv'
      BY <1>2, <1>3, <2>1, <3>1 DEF HttpInv, CauseInv, Draining
    <3> QED
      BY <1>1, <1>3, <2>1, <3>1, <3>2, HttpFrame
  <2>3. CASE http' = [pc |-> "returned", err |-> TRUE, forced |-> FALSE] /\ UNCHANGED serve
    <3>1. http' \in HttpState /\ http'.pc = "returned" /\ http'.err = TRUE /\ http'.forced = FALSE
      BY <2>3
    <3>2. HttpInv' /\ CauseInv'
      BY <1>2, <1>3, <2>1, <2>3, <3>1 DEF HttpInv, CauseInv, Draining, NoServe
    <3> QED
      BY <1>1, <1>3, <2>1, <2>3, <3>1, <3>2, HttpFrame
  <2> QED
    BY <1>4, <2>2, <2>3 DEF Bind
<1>5. CASE GoReady
  <2>1. main = "join" /\ http.pc = "starting" /\ ready' = TRUE /\ serve' = serve /\ \A l \in Listener : Started(l)
    BY <1>3, <1>5 DEF GoReady, Running, QuietInv, NoHttp
  <2>2. http' \in HttpState /\ http'.pc = "ready" /\ http'.err = http.err /\ http'.forced = http.forced
    BY <1>3, <1>5 DEF GoReady
  <2>3. HttpInv' /\ CauseInv'
    BY <1>2, <1>3, <2>1, <2>2 DEF HttpInv, CauseInv, Draining, Started
  <2> QED
    BY <1>1, <1>3, <2>1, <2>2, <2>3, HttpFrame
<1>6. CASE StopServing
  <2>1. serve' = serve /\ ready' = FALSE /\ http.pc \in {"starting", "ready"} /\ main = "join"
    BY <1>3, <1>6 DEF StopServing, Running, QuietInv, NoHttp
  <2>2. \/ (signalled \/ join.cancelServer) /\ http' = [http EXCEPT !.pc = "draining"]
        \/ http' = [pc |-> "draining", err |-> TRUE, forced |-> FALSE]
    BY <1>6, Zenon DEF StopServing, serverCancelled
  <2>3. /\ http' \in HttpState /\ http'.pc = "draining"
        /\ http'.err \/ signalled \/ join.cancelServer
        /\ http.err => http'.err
        /\ http'.forced => http'.err
    <3>1. CASE (signalled \/ join.cancelServer) /\ http' = [http EXCEPT !.pc = "draining"]
      BY <1>3, <3>1 DEF HttpInv
    <3>2. CASE http' = [pc |-> "draining", err |-> TRUE, forced |-> FALSE]
      BY <3>2
    <3> QED
      BY <2>2, <3>1, <3>2
  <2>4. HttpInv'
    BY <2>1, <2>3 DEF HttpInv
  <2>5. CauseInv'
    BY <1>2, <1>3, <2>1, <2>3 DEF JoinInv, CauseInv, Draining
  <2> QED
    BY <1>1, <1>3, <2>1, <2>3, <2>4, <2>5, HttpFrame, Zenon
<1>7. CASE StopListeners \/ DrainDone \/ DrainTimeout
  <2>1. main = "join" /\ http.pc = "draining" /\ ready' = ready /\ (serve' = serve \/ serve' = Unserved)
    BY <1>3, <1>7 DEF StopListeners, DrainDone, DrainTimeout, Running, QuietInv, NoHttp
  <2>2. /\ http' \in HttpState /\ (http.err => http'.err) /\ (http'.forced => http'.err)
        /\ \/ http'.pc = "draining" /\ http'.err = http.err
           \/ http'.pc = "collecting" /\ serve' = Unserved /\ (request = {} \/ http'.forced)
    <3>1. CASE StopListeners
      BY <1>3, <3>1 DEF StopListeners, HttpInv
    <3>2. CASE DrainDone
      BY <1>3, <3>2 DEF DrainDone, Drained, HttpInv
    <3>3. CASE DrainTimeout
      BY <3>3 DEF DrainTimeout
    <3> QED
      BY <1>7, <3>1, <3>2, <3>3
  <2>3. serve' \in ServeState
    BY <1>3, <2>1 DEF Unserved
  <2>4. HttpInv'
    BY <1>2, <1>3, <2>1, <2>2 DEF HttpInv, Unserved
  <2>5. CauseInv'
    BY <1>2, <1>3, <2>1, <2>2 DEF CauseInv, Draining
  <2> QED
    BY <1>1, <1>3, <2>1, <2>2, <2>3, <2>4, <2>5, HttpFrame
<1>8. CASE RunReturns
  <2>1. serve' = serve /\ ready' = ready /\ http.pc = "collecting" /\ main = "join"
    BY <1>3, <1>8 DEF RunReturns, Running, QuietInv, NoHttp
  <2>2. PICK err : /\ err \in {http.err \/ \E l \in Listener : serve[l] = "failed", TRUE}
                   /\ http' = [pc |-> "returned", err |-> err, forced |-> http.forced]
    BY <1>8, Zenon DEF RunReturns
  <2>3. err \in BOOLEAN /\ (http.err => err)
    BY <2>2, Zenon
  <2>4. http' \in HttpState /\ http'.pc = "returned" /\ http'.err = err /\ http'.forced = http.forced
    BY <1>3, <2>2, <2>3
  <2>5. HttpInv'
    BY <1>2, <1>3, <2>1, <2>3, <2>4 DEF HttpInv
  <2>6. CauseInv'
    BY <1>2, <1>3, <2>1, <2>3, <2>4 DEF CauseInv, Draining
  <2> QED
    BY <1>1, <1>3, <2>1, <2>4, <2>5, <2>6, HttpFrame
<1>9. ASSUME NEW l \in Listener, Serve(l) \/ ListenerFails(l) PROVE ProcessInv'
  <2>1. /\ Running /\ http' = http /\ ready' = ready /\ serve[l] \in {"spawned", "accepting"}
        /\ serve' = [serve EXCEPT ![l] = "accepting"] \/ serve' = [serve EXCEPT ![l] = "failed"]
    BY <1>9 DEF Serve, ListenerFails
  <2>2. serve # NoServe /\ http.pc \notin {"new", "collecting", "returned"}
    BY <1>3, <1>9, <2>1 DEF NoServe, HttpInv
  <2>3. main = "join"
    BY <1>3, <2>1, <2>2 DEF QuietInv, Running
  <2>4. serve' \in ServeState
    BY <1>3, <2>1
  <2>5. \A k \in Listener : Started(k) => Started(k)'
    BY <1>3, <2>1 DEF Started
  <2>6. HttpInv' /\ CauseInv'
    BY <1>2, <1>3, <2>1, <2>2, <2>5, CauseFrame DEF HttpInv
  <2> QED
    BY <1>1, <1>3, <2>1, <2>2, <2>3, <2>4, <2>6, HttpFrame
<1> QED
  BY <1>4, <1>5, <1>6, <1>7, <1>8, <1>9

\* The steps of the webhook worker.
LEMMA WorkerPreserves ==
  ASSUME ProcessInv, CancelWorker \/ LockLost \/ WorkerReturns
  PROVE  ProcessInv'
<1>1. /\ main' = main /\ on' = on /\ code' = code /\ signalled' = signalled /\ pool' = pool /\ request' = request
      /\ http' = http /\ serve' = serve /\ ready' = ready /\ join' = join /\ overdue' = overdue
      /\ step' = step /\ tripped' = tripped
  BY DEF CancelWorker, LockLost, WorkerReturns, guardVars, mainVars, httpVars, useVars, joinVars
<1>2. /\ Running /\ worker \in {"running", "stopping"} /\ worker' \in {"stopping", "done"}
      /\ signalled \/ join.cancelWorker \/ lost' \/ (~lost /\ worker = "stopping")
  BY Zenon DEF CancelWorker, LockLost, WorkerReturns, workerCancelled
<1>3. lost' \in BOOLEAN
  BY Zenon DEF CancelWorker, LockLost, WorkerReturns, ProcessInv, TypeOK
<1>4. TypeOK /\ JoinInv(join) /\ QuietInv /\ HttpInv /\ CauseInv /\ PoolInv
  BY DEF ProcessInv
<1>5. TypeOK' /\ HttpInv'
  BY <1>1, <1>2, <1>3, <1>4 DEF TypeOK, HttpInv, Started
<1>6. QuietInv'
  BY <1>1, <1>2, <1>4 DEF QuietInv, Running
<1>7. JoinInv(join)'
  BY <1>1, <1>2, <1>4, JoinFrame DEF Gone
<1>8. CauseInv'
  BY <1>1, <1>2, <1>4 DEF JoinInv, CauseInv, Draining
<1>9. PoolInv'
  BY <1>1, <1>4, PoolFrame
<1> QED
  BY <1>5, <1>6, <1>7, <1>8, <1>9 DEF ProcessInv

\* A handler starts.
LEMMA ArrivePreserves ==
  ASSUME ProcessInv, NEW r \in Conn, Arrive(r)
  PROVE  ProcessInv'
<1>1. /\ main' = main /\ on' = on /\ code' = code /\ signalled' = signalled /\ pool' = pool
      /\ http' = http /\ serve' = serve /\ ready' = ready /\ join' = join /\ overdue' = overdue
      /\ worker' = worker /\ lost' = lost /\ step' = step /\ tripped' = tripped
  BY DEF Arrive, guardVars, mainVars, httpVars, workerVars, joinVars
<1>2. serve["api"] = "accepting" /\ "api" \in Listener /\ request' = request \cup {r}
  BY DEF Arrive, Listener
<1>3. TypeOK /\ JoinInv(join) /\ QuietInv /\ HttpInv /\ CauseInv /\ PoolInv
  BY DEF ProcessInv
<1>4. serve # NoServe
  BY <1>2 DEF NoServe
<1>5. TypeOK'
  BY <1>1, <1>2, <1>3 DEF TypeOK
<1>6. QuietInv' /\ HttpInv'
  BY <1>1, <1>2, <1>3, <1>4 DEF QuietInv, HttpInv, Started
<1>7. JoinInv(join)'
  BY <1>1, <1>3, JoinFrame DEF Gone
<1>8. CauseInv' /\ PoolInv'
  BY <1>1, <1>3, CauseFrame, PoolFrame
<1> QED
  BY <1>5, <1>6, <1>7, <1>8 DEF ProcessInv

\* A handler takes a connection of an open pool.
LEMMA UsePreserves ==
  ASSUME ProcessInv, GuardTypeOK, NEW r \in Conn, Use(r)
  PROVE  ProcessInv'
<1>1. /\ main' = main /\ on' = on /\ code' = code /\ signalled' = signalled /\ pool' = pool /\ request' = request
      /\ http' = http /\ serve' = serve /\ ready' = ready /\ join' = join /\ overdue' = overdue
      /\ worker' = worker /\ lost' = lost /\ tripped' = tripped
  BY DEF Use, Begin, mainVars, httpVars, workerVars, joinVars
<1>2. Running /\ r \in request /\ pool[PoolOf[r]] = "open" /\ \A c \in Conn : c # r => step'[c] = step[c]
  BY DEF Use, Begin, GuardTypeOK
<1>3. TypeOK /\ JoinInv(join) /\ QuietInv /\ HttpInv /\ CauseInv /\ PoolInv
  BY DEF ProcessInv
<1>4. main = "join"
  BY <1>2, <1>3 DEF QuietInv, Running
<1>5. TypeOK'
  BY <1>1, <1>3 DEF TypeOK
<1>6. QuietInv' /\ HttpInv'
  BY <1>1, <1>3, <1>4 DEF QuietInv, HttpInv, Started
<1>7. JoinInv(join)' /\ CauseInv'
  BY <1>1, <1>3, JoinFrame, CauseFrame DEF Gone
<1>8. CloseOrder' /\ \A p \in {"auth", "message"} : Closes(p)' => Closing'
  BY <1>1, <1>3 DEF PoolInv, CloseOrder, Closes, Closing, Gone
<1>9. \A p \in {"auth", "message"} : Gone(p)' => ~Busy(p)'
  BY <1>1, <1>2, <1>3 DEF PoolInv, Gone, Busy, Running
<1>10. PoolInv'
  BY <1>1, <1>3, <1>4, <1>8, <1>9 DEF PoolInv
<1> QED
  BY <1>5, <1>6, <1>7, <1>10 DEF ProcessInv

\* The steps of requests and of the verifications that they ask for.
LEMMA RequestPreserves ==
  ASSUME ProcessInv, GuardTypeOK, NEW r \in Conn,
         Arrive(r) \/ Use(r) \/ Verify(r) \/ Return(r) \/ Respond(r)
  PROVE  ProcessInv'
<1>1. CASE Arrive(r) \/ Use(r)
  BY <1>1, ArrivePreserves, UsePreserves, Zenon
<1>2. CASE Verify(r) \/ Return(r) \/ Respond(r)
  <2>1. /\ UNCHANGED <<on, main, code, signalled, pool, http, ready, serve, worker, lost, join, overdue>>
        /\ request' \subseteq request
    BY <1>2 DEF Verify, Return, Respond, httpVars, mainVars, workerVars, joinVars
  <2>2. tripped => tripped'
    BY <1>2, Zenon DEF Verify, Judge, Return, Release, Respond, guardVars
  <2>3. \A c \in Conn : step'[c] # "idle" => step[c] # "idle"
    BY <1>2 DEF Verify, Judge, Return, Release, Respond, GuardTypeOK, guardVars
  <2>4. signalled' \in BOOLEAN
    BY <2>1 DEF ProcessInv, TypeOK
  <2> QED
    BY <2>1, <2>2, <2>3, <2>4, Frame, Zenon
<1> QED
  BY <1>1, <1>2

\* A signal, a change of the database, and a step of something else.
LEMMA OutsidePreserves ==
  ASSUME ProcessInv, Signal \/ DatabaseChanges \/ UNCHANGED vars
  PROVE  ProcessInv'
<1>1. /\ UNCHANGED <<on, main, code, pool, request, http, ready, serve, worker, lost, join, overdue>>
      /\ step' = step /\ tripped' = tripped
  BY DEF Signal, DatabaseChanges, DbChange, vars, guardVars, httpVars, mainVars, useVars, workerVars, joinVars
<1>2. signalled' = TRUE \/ signalled' = signalled
  BY DEF Signal, DatabaseChanges, vars, mainVars
<1>3. signalled' \in BOOLEAN
  BY <1>2, Zenon DEF ProcessInv, TypeOK
<1> QED
  BY <1>1, <1>2, <1>3, Frame

------------------------------------------------------------------------------
(* Start-up and the pools *)

\* store.Open and its result, for either pool.
LEMMA OpenPreserves ==
  ASSUME ProcessInv, GuardTypeOK, NEW p \in {"auth", "message"}, OpenPool(p) \/ Opened(p) \/ OpenFailed(p)
  PROVE  ProcessInv'
<1>1. /\ request' = request /\ join' = join /\ on' = on /\ code' = code /\ signalled' = signalled
      /\ overdue' = overdue /\ http' = http /\ ready' = ready /\ serve' = serve /\ worker' = worker
      /\ lost' = lost /\ tripped' = tripped
  BY Zenon DEF OpenPool, Opened, OpenFailed, Begin, Release, guardVars, httpVars, mainVars, useVars, workerVars, joinVars
<1>2. main = p /\ main' \in {"auth", "message", "webhook", "abort"}
  BY DEF OpenPool, Opened, OpenFailed, mainVars, Stage
<1>3. TypeOK /\ JoinInv(join) /\ QuietInv /\ HttpInv /\ CauseInv /\ PoolInv
  BY DEF ProcessInv
<1>4. join = NoJoin /\ ~join.closing /\ join.close = TRUE
  BY <1>2, <1>3, FreshJoin DEF QuietInv
<1>5. pool' \in [Part -> {"none", "open", "closing", "closed"}]
  BY <1>3 DEF OpenPool, Opened, OpenFailed, TypeOK
<1>6. TypeOK'
  BY <1>1, <1>2, <1>3, <1>5 DEF TypeOK
<1>7. QuietInv'
  BY <1>1, <1>2, <1>3 DEF QuietInv, NoJoin
<1>8. HttpInv' /\ CauseInv'
  BY <1>1, <1>3, CauseFrame DEF HttpInv, Started
<1>9. JoinInv(join)'
  BY <1>1, <1>3, <1>4 DEF JoinInv
<1>10. /\ \A q \in {"auth", "message"} : ~Closes(q)
       /\ \A c \in Conn : step[c] # "idle" => c = Ping(p) /\ PoolOf[c] = p
       /\ \A q \in {"auth", "message"} : Gone(q) => ~Busy(q)
       /\ \A q \in Part \ on : pool[q] = "none"
       /\ p = "auth" => pool["message"] = "none"
       /\ p = "message" /\ "auth" \in on => pool["auth"] # "none"
  BY <1>2, <1>3, <1>4 DEF PoolInv, Closing, Running
<1>11. CASE OpenPool(p)
  <2>1. p \in on /\ main' = p /\ pool' = [pool EXCEPT ![p] = "open"]
    BY <1>11, <1>2 DEF OpenPool, mainVars
  <2>2. pool'[p] = "open" /\ \A q \in Part : q # p => pool'[q] = pool[q]
    BY <1>3, <2>1 DEF TypeOK, Part
  <2>3. \A c \in Conn : c # Ping(p) => step'[c] = step[c]
    BY <1>11 DEF OpenPool, Begin, GuardTypeOK
  <2>4. \A q \in {"auth", "message"} : ~Closes(q)'
    BY <1>10, <2>2 DEF Closes, Part
  <2>5. \A c \in Conn : step'[c] # "idle" => c = Ping(p) /\ PoolOf[c] = p
    BY <1>10, <2>3, PingConn
  <2>6. \A q \in {"auth", "message"} : Gone(q)' => ~Busy(q)'
    BY <2>2, <2>5 DEF Gone, Busy
  <2>7. PoolInv'
    BY <1>1, <1>10, <2>1, <2>2, <2>4, <2>5, <2>6, Zenon DEF PoolInv, CloseOrder, Part, Ping
  <2> QED
    BY <1>6, <1>7, <1>8, <1>9, <2>7 DEF ProcessInv
<1>12. CASE Opened(p)
  <2>1. /\ pool' = pool /\ (p \in on => pool[p] = "open" /\ Release(Ping(p)))
        /\ p \notin on => step' = step
        /\ main' \in IF p = "auth" THEN {"message"} ELSE {"webhook", "abort"}
    BY <1>12 DEF Opened, Stage, guardVars
  <2>2. p \in on => \A c \in Conn : step'[c] = IF c = Ping(p) THEN "idle" ELSE step[c]
    BY <2>1 DEF Release, GuardTypeOK
  <2>3. p \notin on => \A c \in Conn : PoolOf[c] = p => step[c] = "idle"
    BY <1>10, Zenon DEF Gone, Busy, Part
  <2>4. \A c \in Conn : step'[c] = "idle"
    BY <1>10, <2>1, <2>2, <2>3, Zenon
  <2>5. \A q \in {"auth", "message"} : ~Closes(q)' /\ ~Busy(q)'
    BY <1>10, <2>1, <2>4, Zenon DEF Closes, Busy
  <2>6. PoolInv'
    BY <1>1, <1>10, <2>1, <2>4, <2>5 DEF PoolInv, CloseOrder
  <2> QED
    BY <1>6, <1>7, <1>8, <1>9, <2>6 DEF ProcessInv
<1>13. CASE OpenFailed(p)
  <2>1. /\ main' = "abort" /\ p \in on /\ step' = step
        /\ \/ pool[p] = "none" /\ pool' = pool
           \/ step[Ping(p)] = "idle" /\ pool' = [pool EXCEPT ![p] = "closed"]
    BY <1>13 DEF OpenFailed, guardVars
  <2>2. \A q \in Part : q # p => pool'[q] = pool[q]
    BY <1>3, <2>1 DEF TypeOK, Part
  <2>3. pool[p] = "none" => \A c \in Conn : PoolOf[c] = p => step[c] = "idle"
    BY <1>10, Zenon DEF Gone, Busy
  <2>4. \A c \in Conn : step'[c] = "idle"
    BY <1>10, <2>1, <2>3
  <2>5. \A q \in {"auth", "message"} : ~Busy(q)'
    BY <2>4 DEF Busy
  <2>6. CloseOrder'
    BY <1>10, <2>2, Zenon DEF CloseOrder, Closes, Gone, Part
  <2>7. PoolInv'
    BY <1>1, <1>10, <2>1, <2>2, <2>4, <2>5, <2>6 DEF PoolInv, Closing, Part
  <2> QED
    BY <1>6, <1>7, <1>8, <1>9, <2>7 DEF ProcessInv
<1> QED
  BY <1>11, <1>12, <1>13

\* The end of a start-up that failed.
LEMMA AbortPreserves ==
  ASSUME ProcessInv, WebhookFailed \/ Abort
  PROVE  ProcessInv'
<1>1. CASE WebhookFailed
  <2>1. /\ main = "webhook" /\ main' = "abort" /\ on' = on /\ code' = code /\ signalled' = signalled
        /\ pool' = pool /\ request' = request /\ http' = http /\ serve' = serve /\ ready' = ready
        /\ join' = join /\ overdue' = overdue /\ worker' = worker /\ lost' = lost
        /\ step' = step /\ tripped' = tripped
    BY <1>1 DEF WebhookFailed, guardVars, httpVars, useVars, workerVars, joinVars
  <2>2. TypeOK /\ JoinInv(join) /\ QuietInv /\ HttpInv /\ CauseInv /\ PoolInv
    BY DEF ProcessInv
  <2>3. TypeOK'
    BY <2>1, <2>2, Zenon DEF TypeOK
  <2>4. QuietInv' /\ HttpInv'
    BY <2>1, <2>2 DEF QuietInv, HttpInv, Started, NoJoin
  <2>5. JoinInv(join)' /\ CauseInv'
    BY <2>1, <2>2, JoinFrame, CauseFrame DEF Gone
  <2>6. \A c \in Conn : step[c] = "idle"
    BY <2>1, <2>2, ProcessAssumption, Zenon DEF PoolInv
  <2>7. CloseOrder' /\ Closing'
    BY <2>1, <2>2, Zenon DEF PoolInv, CloseOrder, Closes, Closing, Gone
  <2>8. PoolInv'
    BY <2>1, <2>2, <2>6, <2>7 DEF PoolInv, Busy
  <2> QED
    BY <2>3, <2>4, <2>5, <2>8 DEF ProcessInv
<1>2. CASE Abort
  BY <1>2, EndPreserves, Zenon DEF Abort, ProcessInv, TypeOK
<1> QED
  BY <1>1, <1>2

\* The closer.
LEMMA ClosePreserves ==
  ASSUME ProcessInv, NEW p \in {"auth", "message"}, ClosePool(p) \/ PoolClosed(p)
  PROVE  ProcessInv'
<1>1. /\ main' = main /\ on' = on /\ code' = code /\ signalled' = signalled /\ request' = request
      /\ http' = http /\ serve' = serve /\ ready' = ready /\ join' = join /\ overdue' = overdue
      /\ worker' = worker /\ lost' = lost /\ step' = step /\ tripped' = tripped
  BY DEF ClosePool, PoolClosed, guardVars, mainVars, httpVars, workerVars, joinVars
<1>2. TypeOK /\ JoinInv(join) /\ QuietInv /\ HttpInv /\ CauseInv /\ PoolInv
  BY DEF ProcessInv
<1>3. /\ pool' \in [Part -> {"none", "open", "closing", "closed"}]
      /\ pool[p] \in {"open", "closing"} /\ pool'[p] \in {"closing", "closed"}
      /\ pool'[p] = "closed" => ~Busy(p)
      /\ \A q \in Part : q # p => pool'[q] = pool[q]
  <2>1. p \in Part /\ pool \in [Part -> {"none", "open", "closing", "closed"}]
    BY <1>2 DEF TypeOK, Part
  <2>2. CASE ClosePool(p)
    <3>1. pool[p] = "open" /\ pool' = [pool EXCEPT ![p] = "closing"]
      BY <2>2 DEF ClosePool
    <3> QED
      BY <2>1, <3>1
  <2>3. CASE PoolClosed(p)
    <3>1. pool[p] = "closing" /\ ~Busy(p) /\ pool' = [pool EXCEPT ![p] = "closed"]
      BY <2>3 DEF PoolClosed
    <3> QED
      BY <2>1, <3>1
  <2> QED
    BY <2>2, <2>3
<1>4. Closing /\ (p = "auth" => Gone("message"))
  <2>1. CASE ClosePool(p)
    BY <2>1 DEF ClosePool, Turn
  <2>2. CASE PoolClosed(p)
    <3>1. Closes(p)
      BY <2>2 DEF PoolClosed, Closes
    <3> QED
      BY <1>2, <3>1 DEF PoolInv, CloseOrder
  <2> QED
    BY <2>1, <2>2
<1>5. TypeOK'
  BY <1>1, <1>2, <1>3 DEF TypeOK
<1>6. QuietInv' /\ HttpInv' /\ CauseInv'
  BY <1>1, <1>2, CauseFrame, Zenon DEF QuietInv, HttpInv, Started, NoJoin
<1>7. JoinInv(join)'
  BY <1>1, <1>2, <1>3, JoinFrame DEF Gone, Part
<1>8. CloseOrder'
  BY <1>2, <1>3, <1>4 DEF PoolInv, CloseOrder, Closes, Gone, Part
<1>9. Closing'
  BY <1>1, <1>4 DEF Closing
<1>10. Running' => \A q \in {"auth", "message"} : Gone(q)' => ~Busy(q)'
  BY <1>1, <1>2, <1>3 DEF PoolInv, Gone, Busy, Running, Part
<1>11. \A q \in Part : pool[q] = "none" <=> pool'[q] = "none"
  BY <1>3, Zenon
<1>12. PoolInv'
  BY <1>1, <1>2, <1>8, <1>9, <1>10, <1>11 DEF PoolInv, Part, Ping
<1> QED
  BY <1>5, <1>6, <1>7, <1>12 DEF ProcessInv

------------------------------------------------------------------------------
(* The theorems *)

\* The process starts in the invariant ...
LEMMA InitProcess == Init => ProcessInv
<1> SUFFICES ASSUME Init PROVE ProcessInv
  OBVIOUS
<1>1. TypeOK
  BY FreshJoin, ProcessAssumption, Zenon DEF Init, TypeOK, NoPools, NoHttp, NoServe
<1>2. JoinInv(join) /\ QuietInv
  BY FreshJoin, Zenon DEF Init, JoinInv, QuietInv
<1>3. HttpInv /\ CauseInv
  BY DEF Init, HttpInv, CauseInv, Draining, NoHttp
<1>4. PoolInv
  BY DEF Init, GuardInit, PoolInv, CloseOrder, Closes, Gone, Busy, Running, NoPools, Part
<1> QED
  BY <1>1, <1>2, <1>3, <1>4 DEF ProcessInv

\* ... and every step keeps it.
LEMMA StepProcess ==
  ASSUME ProcessInv, GuardTypeOK, [Next]_vars
  PROVE  ProcessInv'
<1>1. CASE UNCHANGED vars
  BY <1>1, OutsidePreserves
<1>2. CASE StartUp
  BY <1>2, OpenPreserves, PingConn, RequestPreserves, AbortPreserves, LaunchPreserves DEF StartUp
<1>3. CASE Service
  BY <1>3, HttpPreserves, WorkerPreserves, SelectPreserves, DeadlinePreserves, ClosePreserves DEF Service
<1>4. CASE Outside
  BY <1>4, OutsidePreserves, WorkerPreserves, HttpPreserves, RequestPreserves DEF Outside
<1> QED
  BY <1>1, <1>2, <1>3, <1>4 DEF Next

\* ProcessInv, with the types of the guard.
LEMMA ProcessHolds == Spec => []ProcessInv
<1>1. GuardInv => GuardTypeOK
  BY DEF GuardInv
<1>2. ProcessInv /\ GuardTypeOK /\ [Next]_vars => ProcessInv'
  BY StepProcess
<1> QED
  BY <1>1, <1>2, InitProcess, ProcessGuardInv, PTL DEF Spec

\* The shutdown is orderly for every configuration and any number of requests: pools are closed
\* after the HTTP drain, in their order, and readiness is taken back first.
THEOREM ShutdownHolds == Spec => []ShutdownInv
<1>1. ProcessInv => ShutdownInv
  <2> SUFFICES ASSUME ProcessInv PROVE ShutdownInv
    OBVIOUS
  <2>1. DrainBeforeClose
    BY ZenonT(30) DEF ProcessInv, PoolInv, DrainBeforeClose, Closing, JoinInv, HttpInv, QuietInv
  <2>2. CloseOrder /\ ReadyServes
    BY DEF ProcessInv, PoolInv, HttpInv, ReadyServes
  <2> QED
    BY <2>1, <2>2 DEF ShutdownInv, ProcessInv
<1> QED
  BY <1>1, ProcessHolds, PTL

\* What the coordinator knows when it returns: a failure of the guard is in the code, and success
\* means that everybody has ended well.
LEMMA TurnedHonest ==
  ASSUME ProcessInv, GuardTypeOK, main = "join", NEW j, JoinInv(j), Grows(join, j), Turned(j), main' = "exit"
  PROVE  /\ tripped => code' = "identity"
         /\ worker \in {"none", "done"}
         /\ code' = "ok" =>
              /\ ~tripped /\ ~lost /\ http.pc = "returned" /\ ~http.err
              /\ Gone("message") /\ Gone("auth")
<1> DEFINE next == LoopTop(j)
<1>1. JoinInv(next) /\ next.terminal = tripped /\ tripped \in BOOLEAN
  BY LoopTopKeeps DEF GuardTypeOK
<1> HIDE DEF next
<1>2. ~Waiting(next) /\ code' = ExitCode(next)
  BY DEF Turned, End, mainVars, next
<1>3. ~next.server /\ ~next.worker /\ ~next.close
  BY <1>2 DEF Waiting
<1>4. /\ tripped => code' = "identity"
      /\ code' = "ok" => ~tripped /\ ~next.serverErr /\ ~next.workerErr
  BY <1>1, <1>2, CodeMeaning
<1> QED
  BY <1>1, <1>3, <1>4, ZenonT(30) DEF JoinInv

\* The exit code tells the truth, for every configuration and any number of requests.
LEMMA StepHonest ==
  ASSUME ProcessInv, GuardTypeOK, [Next]_vars, main = "join", main' = "exit"
  PROVE  /\ tripped => code' = "identity"
         /\ worker \in {"none", "done"} \/ overdue'
         /\ code' = "ok" =>
              /\ signalled /\ ~lost /\ ~http.err
              /\ request = {} /\ \A c \in Conn : step[c] = "idle"
              /\ \A p \in on \ {"webhook"} : pool[p] = "closed"
<1>1. Select \/ Deadline
  BY DEF Next, StartUp, Service, Outside, OpenPool, Opened, OpenFailed, Verify, WebhookFailed, Abort, Launch,
         Bind, GoReady, StopServing, StopListeners, DrainDone, DrainTimeout, RunReturns, Serve, ListenerFails,
         CancelWorker, WorkerReturns, LockLost, ClosePool, PoolClosed, Signal, DatabaseChanges,
         Arrive, Use, Return, Respond, Served, vars, mainVars
<1>2. CASE Select
  <2>1. PICK j : JoinInv(j) /\ Grows(join, j) /\ Turned(j)
    BY <1>2, SelectTurns
  <2>2. /\ tripped => code' = "identity"
        /\ worker \in {"none", "done"}
        /\ code' = "ok" =>
             /\ ~tripped /\ ~lost /\ http.pc = "returned" /\ ~http.err
             /\ Gone("message") /\ Gone("auth")
    BY <2>1, TurnedHonest
  <2>3. ASSUME code' = "ok" PROVE signalled /\ request = {}
    BY <2>2, <2>3 DEF ProcessInv, CauseInv, Draining, HttpInv
  <2>4. ASSUME code' = "ok", NEW c \in Conn PROVE step[c] = "idle"
    BY <2>2, <2>4, ProcessAssumption DEF ProcessInv, PoolInv, Running, Busy
  <2>5. ASSUME code' = "ok", NEW p \in on \ {"webhook"} PROVE pool[p] = "closed"
    BY <2>2, <2>5, ProcessAssumption DEF ProcessInv, TypeOK, PoolInv, Gone, Part
  <2> QED
    BY <2>2, <2>3, <2>4, <2>5
<1>3. CASE Deadline
  <2> DEFINE s == CancelAll(SyncTerminal(join))
             t == [s EXCEPT !.timedOut = ~s.terminal]
  <2>1. overdue' /\ code' = ExitCode(BeginClose(t))
    BY <1>3 DEF Deadline, End, OnDeadline
  <2>2. SyncTerminal(join) \in JoinState /\ SyncTerminal(join).terminal = tripped
    BY SyncTerminalKeeps, Zenon DEF ProcessInv, GuardTypeOK, JoinInv
  <2>3. s \in JoinState /\ s.terminal = tripped
    BY <2>2, Zenon DEF CancelAll, JoinState
  <2> HIDE DEF s
  <2>4. t \in JoinState /\ t.terminal = tripped /\ t.timedOut = ~tripped
    BY <2>3, Zenon DEF JoinState
  <2> HIDE DEF t
  <2>5. BeginClose(t).terminal = tripped /\ BeginClose(t).timedOut = ~tripped
    BY <2>4 DEF BeginClose, JoinState
  <2>6. code' # "ok" /\ (tripped => code' = "identity")
    BY <2>1, <2>5, CodeMeaning, Zenon
  <2> QED
    BY <2>1, <2>6
<1> QED
  BY <1>1, <1>2, <1>3

\* ExitHonest: neither a signal, a server error nor the time-out hides a failure of the guard, and
\* success is reported only after a signal, with every request answered and every pool closed.
THEOREM ExitIsHonest == Spec => ExitHonest
<1>1. GuardInv => GuardTypeOK
  BY DEF GuardInv
<1>2. ProcessInv /\ GuardTypeOK /\ [Next]_vars =>
        [main = "join" /\ main' = "exit" =>
           /\ tripped => code' = "identity"
           /\ worker \in {"none", "done"} \/ overdue'
           /\ code' = "ok" =>
                /\ signalled /\ ~lost /\ ~http.err
                /\ request = {} /\ \A c \in Conn : step[c] = "idle"
                /\ \A p \in on \ {"webhook"} : pool[p] = "closed"]_vars
  BY StepHonest
<1> QED
  BY <1>1, <1>2, ProcessHolds, ProcessGuardInv, PTL DEF Spec, ExitHonest
==============================================================================
