--------------------------- MODULE ServiceLifecycle ---------------------------
(***************************************************************************)
(* One run of the newim-server process: start-up (run, newAuthRuntimeFrom- *)
(* Env), the HTTP service with its two listeners (server/api/http.go), the *)
(* optional webhook worker, the coordinator joinRuntimeServerAndFatal, the *)
(* ordered closing of the pools, and the exit code.                        *)
(*                                                                         *)
(* The goroutines meet in channels, contexts and pools.  A timer may fire  *)
(* at any moment after it was armed; a request may run for ever.  Nothing  *)
(* happens after the exit.                                                 *)
(***************************************************************************)
EXTENDS IdentityGuard

CONSTANTS
  PoolOf,   \* the pool of each connection; request c uses connection c (a message request, which is
            \* authenticated first, stands for two)
  Configs   \* the configurations: which of the optional parts are enabled

Listener == {"api", "ops"}
Part == {"auth", "message", "webhook"}

\* newAuthRuntimeFromEnv refuses message HTTP without the DSN of auth.
ASSUME ProcessAssumption ==
  /\ PoolOf \in [Conn -> {"auth", "message"}]
  /\ \A p \in {"auth", "message"} : \E c \in Conn : PoolOf[c] = p
  /\ Configs \subseteq {on \in SUBSET Part : "message" \in on => "auth" \in on}

VARIABLES
  on,         \* the enabled parts
  main,       \* where run() is
  code,       \* the exit code with its reason
  signalled,  \* SIGTERM or SIGINT was received
  pool,       \* the connection pool of each part
  request,    \* the API requests whose handler is running
  http,       \* where Server.Run is, its error, and whether connections were cut
  ready,      \* what GET /ready says
  serve,      \* the Serve goroutine of each listener
  worker,     \* webhookRuntime.Run
  lost,       \* its advisory lock was lost
  join,       \* the locals of joinRuntimeServerAndFatal
  overdue     \* its deadline has fired (history)

httpVars == <<http, ready, serve>>
mainVars == <<on, main, code, signalled>>
useVars == <<pool, request>>
workerVars == <<worker, lost>>
joinVars == <<join, overdue>>
vars == <<guardVars, httpVars, mainVars, useVars, workerVars, joinVars>>

\* The channels awaited at first, the result, and what the coordinator has done so far.
NoJoin ==
  [server |-> TRUE, worker |-> "webhook" \in on, shutdown |-> TRUE, close |-> TRUE,
   terminal |-> FALSE, timedOut |-> FALSE, serverErr |-> FALSE, workerErr |-> FALSE,
   cancelServer |-> FALSE, cancelWorker |-> FALSE, armed |-> FALSE, closing |-> FALSE]

JoinState ==
  [server : BOOLEAN, worker : BOOLEAN, shutdown : BOOLEAN, close : BOOLEAN,
   terminal : BOOLEAN, timedOut : BOOLEAN, serverErr : BOOLEAN, workerErr : BOOLEAN,
   cancelServer : BOOLEAN, cancelWorker : BOOLEAN, armed : BOOLEAN, closing : BOOLEAN]

NoPools == [p \in Part |-> "none"]
NoHttp == [pc |-> "new", err |-> FALSE, forced |-> FALSE]
NoServe == [l \in Listener |-> "none"]

Init ==
  /\ GuardInit
  /\ on \in Configs
  /\ guarded = ("message" \in on)
  /\ main = "auth" /\ code = "none" /\ signalled = FALSE
  /\ pool = NoPools /\ request = {}
  /\ http = NoHttp /\ ready = FALSE /\ serve = NoServe
  /\ worker = "none" /\ lost = FALSE
  /\ join = NoJoin /\ overdue = FALSE

\* The process ends, with all its goroutines and connections.
End(reason) ==
  /\ main' = "exit" /\ code' = reason
  /\ pool' = NoPools /\ request' = {}
  /\ http' = NoHttp /\ ready' = FALSE /\ serve' = NoServe
  /\ worker' = "none" /\ lost' = FALSE
  /\ join' = NoJoin
  /\ UNCHANGED <<on, signalled, guardVars>>

Running == main # "exit"

------------------------------------------------------------------------------
(* The environment *)

Signal ==
  /\ Running /\ ~signalled
  /\ signalled' = TRUE
  /\ UNCHANGED <<guardVars, httpVars, on, main, code, useVars, workerVars, joinVars>>

\* Bound: the database changes once, before the guard trips; afterwards it makes no difference.
DatabaseChanges ==
  /\ Running /\ ~tripped /\ ~upset
  /\ DbChange
  /\ UNCHANGED <<httpVars, mainVars, useVars, workerVars, joinVars>>

------------------------------------------------------------------------------
(* Connections: the pools and their hooks *)

\* A verification goes on, also when the request that wanted the connection has given up.
Verify(c) ==
  /\ Running
  /\ Judge(c)
  /\ UNCHANGED <<httpVars, mainVars, pool, request, workerVars, joinVars>>

\* The API server starts a handler for a request that it has accepted.
Arrive(r) ==
  /\ Running
  /\ serve["api"] = "accepting"
  /\ r \notin request /\ step[r] = "idle"
  /\ request' = request \cup {r}
  /\ UNCHANGED <<guardVars, httpVars, mainVars, pool, workerVars, joinVars>>

\* Its handler acquires a connection, which the hooks of installGuard verify first.
Use(r) ==
  /\ Running
  /\ r \in request
  /\ pool[PoolOf[r]] = "open"
  /\ Begin(r)
  /\ UNCHANGED <<httpVars, mainVars, pool, request, workerVars, joinVars>>

Return(c) ==
  /\ main = "join"
  /\ Release(c)
  /\ UNCHANGED <<httpVars, mainVars, pool, request, workerVars, joinVars>>

\* The handler returns: with an answer, with an error, or because its client or its time-out
\* cancelled the wait for a connection that is still being verified.
Respond(r) ==
  /\ Running
  /\ r \in request /\ step[r] \notin {"held", "free"}
  /\ request' = request \ {r}
  /\ UNCHANGED <<guardVars, httpVars, mainVars, pool, workerVars, joinVars>>

------------------------------------------------------------------------------
(* Closing the pools *)

Busy(p) == \E c \in Conn : PoolOf[c] = p /\ step[c] # "idle"

Gone(p) == pool[p] \in {"none", "closed"}

\* The order of orderedCloser: the message pool, then the auth pool.
Turn(p) == p = "message" \/ (p = "auth" /\ Gone("message"))

Closing == main = "abort" \/ join.closing

\* pgxpool.Close: nobody gets a connection any more ...
ClosePool(p) ==
  /\ Running /\ Closing
  /\ Turn(p)
  /\ pool[p] = "open"
  /\ pool' = [pool EXCEPT ![p] = "closing"]
  /\ UNCHANGED <<guardVars, httpVars, mainVars, request, workerVars, joinVars>>

\* ... and the call returns when all of them are back.
PoolClosed(p) ==
  /\ Running
  /\ p \in {"auth", "message"}
  /\ pool[p] = "closing" /\ ~Busy(p)
  /\ pool' = [pool EXCEPT ![p] = "closed"]
  /\ UNCHANGED <<guardVars, httpVars, mainVars, request, workerVars, joinVars>>

AllClosed == Closing /\ Gone("message") /\ Gone("auth")

------------------------------------------------------------------------------
(* Start-up: run and newAuthRuntimeFromEnv *)

\* The connection that the ping of a new pool uses.
Ping(p) == CHOOSE c \in Conn : PoolOf[c] = p

\* store.Open: a new pool is pinged, which verifies a connection.
OpenPool(p) ==
  /\ main = p
  /\ pool[p] = "none"
  /\ p \in on
  /\ pool' = [pool EXCEPT ![p] = "open"]
  /\ Begin(Ping(p))
  /\ UNCHANGED <<httpVars, mainVars, request, workerVars, joinVars>>

Stage == [auth |-> "message", message |-> "webhook"]

\* The ping succeeded: the next part is opened.  Before the routes are published the guard is
\* asked once more.
Opened(p) ==
  /\ main = p
  /\ IF p \in on THEN pool[p] = "open" /\ Release(Ping(p))
     ELSE UNCHANGED guardVars
  /\ main' = IF p = "message" /\ tripped THEN "abort" ELSE Stage[p]
  /\ UNCHANGED <<on, code, signalled, httpVars, pool, request, workerVars, joinVars>>

\* The ping failed: Open closes its pool, and what was opened before it is closed.
OpenFailed(p) ==
  /\ main = p
  /\ p \in on
  /\ \/ pool[p] = "none" /\ UNCHANGED pool
     \/ /\ pool[p] = "open" /\ step[Ping(p)] = "idle"
        /\ pool' = [pool EXCEPT ![p] = "closed"]
  /\ main' = "abort"
  /\ UNCHANGED <<on, code, signalled, guardVars, request, httpVars, workerVars, joinVars>>

\* newWebhookRuntimeFromEnv: the pool, the advisory lock and the worker, or nothing.
WebhookFailed ==
  /\ main = "webhook"
  /\ "webhook" \in on
  /\ main' = "abort"
  /\ UNCHANGED <<on, code, signalled, guardVars, useVars, httpVars, workerVars, joinVars>>

\* A start-up error: closeRuntime, then exit with code 2.
Abort ==
  /\ main = "abort"
  /\ AllClosed
  /\ End("startup")
  /\ UNCHANGED overdue

------------------------------------------------------------------------------
(* The HTTP service: Server.Run *)

serverCancelled == signalled \/ join.cancelServer

Served == UNCHANGED <<guardVars, mainVars, useVars, workerVars, joinVars>>

\* bind: both listeners or none.
Bind ==
  /\ main = "join"
  /\ http.pc = "new"
  /\ \/ /\ http' = [http EXCEPT !.pc = "starting"]
        /\ serve' = [l \in Listener |-> "spawned"]
     \/ /\ http' = [pc |-> "returned", err |-> TRUE, forced |-> FALSE]
        /\ UNCHANGED serve
  /\ UNCHANGED ready /\ Served

\* The goroutine of a listener: http.Server.Serve announces its first Accept.
Serve(l) ==
  /\ Running
  /\ serve[l] = "spawned"
  /\ serve' = [serve EXCEPT ![l] = "accepting"]
  /\ UNCHANGED <<http, ready>> /\ Served

ListenerFails(l) ==
  /\ Running
  /\ serve[l] = "accepting"
  /\ serve' = [serve EXCEPT ![l] = "failed"]
  /\ UNCHANGED <<http, ready>> /\ Served

Started(l) == serve[l] \in {"accepting", "failed"}

\* Run has seen both listeners start and the context is not cancelled.
GoReady ==
  /\ Running
  /\ http.pc = "starting"
  /\ \A l \in Listener : Started(l)
  /\ ~serverCancelled
  /\ http' = [http EXCEPT !.pc = "ready"]
  /\ ready' = TRUE
  /\ UNCHANGED serve /\ Served

\* Run stops serving: it is cancelled, a listener failed, or the start took too long.
\* Shutdown takes readiness back and lets a probe see it, up to the drain time-out.
StopServing ==
  LET failed == \E l \in Listener : serve[l] = "failed"
  IN  /\ Running
      /\ http.pc \in {"starting", "ready"}
      /\ \/ serverCancelled /\ http' = [http EXCEPT !.pc = "draining"]
         \/ /\ http.pc = "starting" \/ failed
            /\ http' = [pc |-> "draining", err |-> TRUE, forced |-> FALSE]
      /\ ready' = FALSE
      /\ UNCHANGED serve /\ Served

\* The listeners are closed, and Serve returns, or will return when it is called.
Unserved == [l \in Listener |-> IF serve[l] = "failed" THEN "failed" ELSE "closed"]

\* doShutdown: http.Server.Shutdown closes the listeners ...
StopListeners ==
  /\ Running
  /\ http.pc = "draining"
  /\ serve # Unserved
  /\ serve' = Unserved
  /\ UNCHANGED <<http, ready>> /\ Served

\* Mutant: the requests under way are not waited for.
DrainedAtOnce == serve = Unserved

\* ... and returns when no handler runs.
Drained == serve = Unserved /\ request = {}

DrainDone ==
  /\ Running
  /\ http.pc = "draining"
  /\ Drained
  /\ http' = [http EXCEPT !.pc = "collecting"]
  /\ UNCHANGED <<ready, serve>> /\ Served

\* The shutdown time-out: closeServers cuts the connections, but the handlers run on.
DrainTimeout ==
  /\ Running
  /\ http.pc = "draining"
  /\ http' = [pc |-> "collecting", err |-> TRUE, forced |-> TRUE]
  /\ serve' = Unserved
  /\ UNCHANGED ready /\ Served

\* Run receives the results of the Serve goroutines, or gives up on them, and returns.
RunReturns ==
  /\ Running
  /\ http.pc = "collecting"
  /\ \E err \in {http.err \/ \E l \in Listener : serve[l] = "failed", TRUE} :
       http' = [pc |-> "returned", err |-> err, forced |-> http.forced]
  /\ UNCHANGED <<ready, serve>> /\ Served

------------------------------------------------------------------------------
(* The webhook worker: webhookRuntime.Run *)

workerCancelled == signalled \/ join.cancelWorker

\* The context ends, or the check of the advisory lock fails; both cancel the worker.
CancelWorker ==
  /\ Running
  /\ worker = "running" /\ workerCancelled
  /\ worker' = "stopping"
  /\ UNCHANGED <<lost, guardVars, httpVars, mainVars, useVars, joinVars>>

LockLost ==
  /\ Running
  /\ worker = "running"
  /\ worker' = "stopping" /\ lost' = TRUE
  /\ UNCHANGED <<guardVars, httpVars, mainVars, useVars, joinVars>>

\* The worker has ended its cycle.  A lost lock is an error unless the context has ended too.
WorkerReturns ==
  /\ Running
  /\ worker = "stopping"
  /\ worker' = "done"
  /\ lost' = (lost /\ ~workerCancelled)
  /\ UNCHANGED <<guardVars, httpVars, mainVars, useVars, joinVars>>

------------------------------------------------------------------------------
(* The coordinator: joinRuntimeServerAndFatal *)

BeginClose(j) == [j EXCEPT !.closing = TRUE]

CancelAll(j) == [j EXCEPT !.cancelServer = TRUE, !.cancelWorker = TRUE]

\* Mutant: a failure that came with the last event is not looked at.
SyncTerminalOnce(j) ==
  IF tripped /\ ~j.terminal /\ j.shutdown
  THEN CancelAll([j EXCEPT !.terminal = TRUE, !.shutdown = FALSE, !.armed = TRUE])
  ELSE j

\* syncTerminal: the first look at a failure of the guard stops everything.
SyncTerminal(j) ==
  IF tripped /\ ~j.terminal
  THEN CancelAll([j EXCEPT !.terminal = TRUE, !.shutdown = FALSE, !.armed = TRUE])
  ELSE j

CloseIfServed(j) == IF j.server THEN j ELSE BeginClose(j)

\* The cases of the select.
OnShutdown(j) == CloseIfServed(CancelAll([SyncTerminal([j EXCEPT !.shutdown = FALSE]) EXCEPT !.armed = TRUE]))

\* Mutant: the deadline is not armed when the server ends by itself.
OnServerUnarmed(j) ==
  BeginClose([SyncTerminal([j EXCEPT !.server = FALSE, !.shutdown = FALSE, !.serverErr = http.err])
                EXCEPT !.cancelWorker = TRUE])

OnServer(j) ==
  BeginClose([SyncTerminal([j EXCEPT !.server = FALSE, !.shutdown = FALSE, !.serverErr = http.err])
                EXCEPT !.cancelWorker = TRUE, !.armed = TRUE])

OnWorker(j) ==
  CloseIfServed([SyncTerminal([j EXCEPT !.worker = FALSE, !.shutdown = FALSE, !.workerErr = lost])
                   EXCEPT !.cancelServer = TRUE, !.armed = TRUE])

OnDeadline(j) ==
  LET s == CancelAll(SyncTerminal(j)) IN BeginClose([s EXCEPT !.timedOut = ~s.terminal])

\* The top of the loop, which also looks at the guard.
LoopTop(j) == LET s == SyncTerminal(j) IN IF s.terminal THEN CloseIfServed(s) ELSE s

Waiting(j) == j.server \/ j.worker \/ j.shutdown \/ j.close

\* The exit code that run makes of the result, before the deferred webhookRuntime.Close gives up
\* the lock and the pool of the worker, for which it waits a second at most.
ExitCode(j) ==
  IF j.terminal THEN "identity"
  ELSE IF j.timedOut THEN "timeout"
  ELSE IF j.serverErr \/ j.workerErr THEN "error"
  ELSE "ok"

\* A case is taken: the next turn of the loop, or its end.
Turned(j) == \E next \in {LoopTop(j)} :
  \/ /\ Waiting(next)
     /\ join' = next
     /\ UNCHANGED <<mainVars, guardVars, useVars, httpVars, workerVars>>
  \/ ~Waiting(next) /\ End(ExitCode(next))

Select ==
  /\ main = "join"
  /\ \/ tripped /\ ~join.terminal /\ Turned(SyncTerminal(join))
     \/ signalled /\ join.shutdown /\ Turned(OnShutdown(join))
     \/ http.pc = "returned" /\ join.server /\ Turned(OnServer(join))
     \/ worker = "done" /\ join.worker /\ Turned(OnWorker(join))
     \/ AllClosed /\ join.close /\ Turned([join EXCEPT !.close = FALSE])
  /\ UNCHANGED overdue

Deadline ==
  /\ main = "join"
  /\ join.armed
  /\ overdue' = TRUE
  /\ End(ExitCode(OnDeadline(join)))

\* run starts the goroutines and the coordinator.
Launch ==
  /\ main = "webhook"
  /\ main' = "join"
  /\ IF "webhook" \in on
     THEN pool' = [pool EXCEPT !["webhook"] = "open"] /\ worker' = "running"
     ELSE UNCHANGED <<pool, worker>>
  /\ join' = LoopTop(NoJoin)
  /\ UNCHANGED <<on, code, signalled, overdue, lost, guardVars, request, httpVars>>

------------------------------------------------------------------------------

StartUp ==
  \/ \E p \in {"auth", "message"} :
       OpenPool(p) \/ Opened(p) \/ OpenFailed(p) \/ (main = p /\ Verify(Ping(p)))
  \/ WebhookFailed \/ Abort \/ Launch

\* The steps of the goroutines and their timers.
Service ==
  \/ Bind \/ GoReady \/ StopServing \/ StopListeners \/ DrainDone \/ DrainTimeout \/ RunReturns
  \/ \E l \in Listener : Serve(l)
  \/ CancelWorker \/ WorkerReturns
  \/ Select \/ Deadline
  \/ \E p \in {"auth", "message"} : ClosePool(p) \/ PoolClosed(p)

\* The steps of requests, and faults.
Outside ==
  \/ Signal \/ DatabaseChanges \/ LockLost
  \/ \E l \in Listener : ListenerFails(l)
  \/ \E r \in Conn : Arrive(r) \/ Use(r) \/ Verify(r) \/ Return(r) \/ Respond(r)

Next == StartUp \/ Service \/ Outside

Spec == Init /\ [][Next]_vars

\* The goroutines are scheduled and their timers fire; a request need not end.
LiveSpec == Spec /\ WF_vars(StartUp \/ Service)

------------------------------------------------------------------------------
(* Properties *)

TypeOK ==
  /\ on \in Configs
  /\ main \in {"auth", "message", "webhook", "abort", "join", "exit"}
  /\ code \in {"none", "startup", "identity", "timeout", "error", "ok"}
  /\ {signalled, ready, lost, overdue} \subseteq BOOLEAN
  /\ pool \in [Part -> {"none", "open", "closing", "closed"}]
  /\ request \subseteq Conn
  /\ http \in [pc : {"new", "starting", "ready", "draining", "collecting", "returned"},
               err : BOOLEAN, forced : BOOLEAN]
  /\ serve \in [Listener -> {"none", "spawned", "accepting", "closed", "failed"}]
  /\ worker \in {"none", "running", "stopping", "done"}
  /\ join \in JoinState

Closes(p) == pool[p] \in {"closing", "closed"}

\* No pool is closed under a running handler unless a time-out cut the drain short: a signal,
\* a lost lock, a failed listener and a tripped guard, in any order, all wait for the HTTP drain
\* (joinRuntimeServerAndFatal: beginClose only after serverDone or the deadline).
DrainBeforeClose == Closes("auth") \/ Closes("message") => request = {} \/ http.forced

\* The auth pool, which every message request needs first, outlives the message pool
\* (orderedCloser).
CloseOrder == Closes("auth") => Gone("message")

\* GET /ready says yes only after both listeners have reached Accept and before Shutdown closes
\* one.  A listener may fail on its own and Run not have noticed yet.
ReadyServes == ready => \A l \in Listener : Started(l)

\* The shutdown is orderly, whatever starts it.
ShutdownInv == TypeOK /\ DrainBeforeClose /\ CloseOrder /\ ReadyServes

\* The exit code tells the truth.  Success means: after a signal, with every request answered,
\* every pool closed, the worker ended with its lock, and a guard that never failed, not even
\* after the last event of the coordinator.  A failure of the guard is reported as such: neither
\* a signal, a server error nor the time-out hides it.  Without the time-out the worker has
\* ended before its pool is closed (run, joinRuntimeServerAndFatal, syncTerminal).
ExitHonest ==
  [][main = "join" /\ main' = "exit" =>
       /\ tripped => code' = "identity"
       /\ worker \in {"none", "done"} \/ overdue'
       /\ code' = "ok" =>
            /\ signalled /\ ~lost /\ ~http.err
            /\ request = {} /\ \A c \in Conn : step[c] = "idle"
            /\ \A p \in on \ {"webhook"} : pool[p] = "closed"]_vars

\* The process ends after a signal, a tripped guard, the end of the HTTP service or the loss of
\* the worker, and when start-up fails, although requests may hang and pools never close.
EventuallyExits ==
  (signalled \/ tripped \/ http.pc = "returned" \/ worker = "done" \/ main = "abort") ~> main = "exit"
==============================================================================
