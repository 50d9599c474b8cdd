-------------------------- MODULE MediaUploadProofs --------------------------
(***************************************************************************)
(* What the media service promises about an asset is kept: proofs of the   *)
(* invariant and of the action property of MediaUpload.                    *)
(*                                                                         *)
(* The invariant says of each call what it has learned on its way (the     *)
(* grant it loaded, the object it stored or verified, the directory it     *)
(* synced, the session it locked), and that nobody can take it back.       *)
(***************************************************************************)
EXTENDS MediaUpload, TLAPS

Upload == {"put", "copy", "link", "verify", "sync"}
Row == {"snapshot", "lock", "write", "commit", "unknown"}
Place == {"idle", "load", "authorize", "persist", "done"} \cup Upload \cup Row

States == {"none", "pending", "ready"}
Asset == [state : States, owner : Identity \cup {None}, content : Content \cup {None},
          expires : Nat, completed : Nat]
Operation == {"none", "begin", "complete", "send", "download"}
Codes == {"MEDIA_OK", "MEDIA_UNAUTHORIZED", "MEDIA_GRANT_COLLISION", "MEDIA_STORAGE_UNAVAILABLE",
          "MEDIA_NOT_FOUND", "MEDIA_EXPIRED", "MEDIA_CONFLICT", "MEDIA_INVALID_INPUT"}
CallState == [op : Operation, pc : Place, id : Identity \cup {None}, key : Key \cup {None},
              content : Content \cup {None}, seen : States, at : Nat, tries : Nat,
              answer : Codes \cup {"none"}, failed : BOOLEAN]
Access == [member : BOOLEAN, session : BOOLEAN, token : BOOLEAN]

\* A row that inserts a new asset is about to be committed.
Inserting(x) == x.op = "begin" /\ x.pc \in {"commit", "unknown"}

\* Which places each operation has, and what it carries there.
Shape(x) ==
  /\ x \in CallState
  /\ x.at <= now /\ x.tries <= MaxGrantAttempts
  /\ x.pc \notin {"idle", "done"} => x.id \in Identity
  /\ x.op \in {"complete", "download"} => x.key \in Key
  /\ x.op = "send" /\ x.pc # "done" => x.key \in Key
  /\ x.op = "begin" /\ x.pc # "done" => x.content \in Content
  /\ x.pc \in Row => x.op \in {"begin", "complete"}
  /\ x.pc \in Upload => x.op = "complete"
  /\ x.pc = "persist" => x.op = "send"
  /\ x.pc \notin {"unknown", "done"} => x.answer = "none"
  /\ x.pc = "unknown" => x.answer = "MEDIA_STORAGE_UNAVAILABLE" /\ x.failed = TRUE

\* The session row is locked: no revocation of it is under way, and none has been committed.
Live(x) == x.pc \in Locked => access[x.id].session /\ revoking # x.id

\* The upload of a grant that was loaded: the grant is still there, and pending when loaded as
\* pending it was not expired; content, object and directory are as the upload left them.
Uploads(x) ==
  x.op = "complete" =>
    /\ x.seen # "none" => assets[x.key] # NoAsset
    /\ x.seen # "none" /\ x.pc # "done" => assets[x.key].owner = x.id
    /\ x.seen = "ready" => assets[x.key].state = "ready"
    /\ x.pc \in {"authorize"} \cup Upload \cup Row => x.seen # "none"
    /\ x.pc \in Upload \cup Row /\ x.seen = "pending" => x.at < assets[x.key].expires
    /\ x.pc \in Row => x.seen = "pending" /\ x.key \in synced
    /\ x.pc = "link" => x.content = assets[x.key].content
    /\ x.pc \in {"verify", "sync"} => entries[x.key] # None

\* The answer is about a ready row, or is going to be.
Promised(x) ==
  \/ x.op \in {"complete", "download"} /\ x.answer = "MEDIA_OK"
  \/ x.op = "download" /\ x.pc = "authorize"
  \/ x.pc = "persist"

\* Answers that an upload of the right content has to expect: without a failure of its own, and
\* with one.
Harmless == {"MEDIA_OK", "MEDIA_UNAUTHORIZED", "MEDIA_EXPIRED"}
Fair(x, code) ==
  \/ code \in Harmless
  \/ x.failed = TRUE /\ code \in {"MEDIA_STORAGE_UNAVAILABLE", "MEDIA_CONFLICT"}

Right(x) ==
  x.op = "complete" /\ x.pc = "done" /\ x.seen # "none" /\ x.content = assets[x.key].content =>
    Fair(x, x.answer)

CallOK(x) ==
  /\ Shape(x) /\ Live(x) /\ Uploads(x) /\ Right(x)
  /\ Inserting(x) => x.key \in Key /\ assets[x.key] = NoAsset
  /\ Promised(x) => assets[x.key].state = "ready"

\* An asset: a grant that somebody owns, and an object that is what the grant declares.
AssetOK(k) ==
  /\ assets[k] # NoAsset => /\ assets[k].owner \in Identity /\ assets[k].content \in Content
                            /\ assets[k].state \in {"pending", "ready"}
  /\ entries[k] # None => assets[k] # NoAsset /\ entries[k] = assets[k].content
  /\ assets[k].state = "ready" => k \in synced /\ assets[k].completed < assets[k].expires

\* The two stores, and the rest of the system.
StoreOK ==
  /\ assets \in [Key -> Asset] /\ entries \in [Key -> Content \cup {None}]
  /\ synced \subseteq {k \in Key : entries[k] # None}
  /\ sent \subseteq Key /\ \A k \in sent : assets[k].state = "ready"
  /\ access \in [Identity -> Access] /\ revoking \in Identity \cup {None}
  /\ now \in 1 .. MaxTime /\ faults \in 0 .. MaxFaults
  /\ \A k \in Key : AssetOK(k)

\* Calls that insert a row have keys of their own.
Unique == \A c, d \in Call : c # d /\ Inserting(call[c]) /\ Inserting(call[d]) => call[c].key # call[d].key

IndInv ==
  /\ StoreOK /\ Unique
  /\ call \in [Call -> CallState] /\ \A c \in Call : CallOK(call[c])

------------------------------------------------------------------------------
(* A call that does nothing *)

\* What others can do to the stores while a call runs: a row keeps what it declares and stays
\* ready, an object stays, and what is synced stays synced.
Grows ==
  /\ \A k \in Key : assets[k] # NoAsset =>
       /\ assets'[k] # NoAsset /\ assets'[k].owner = assets[k].owner
       /\ assets'[k].content = assets[k].content /\ assets'[k].expires = assets[k].expires
       /\ assets[k].state = "ready" => assets'[k].state = "ready"
  /\ \A k \in Key : entries[k] # None => entries'[k] # None
  /\ synced \subseteq synced'
  /\ now <= now' /\ now \in Nat /\ now' \in Nat

\* A call keeps what it knows.
LEMMA Knows ==
  ASSUME NEW x, CallOK(x), Grows, Inserting(x) => assets'[x.key] = assets[x.key],
         Live(x)'
  PROVE  CallOK(x)'
<1>1. Shape(x)'
  <2>1. x.at \in Nat
    BY DEF CallOK, Shape, CallState
  <2> QED
    BY <2>1 DEF CallOK, Shape, Grows
<1>2. x.op \in {"complete", "download"} => x.key \in Key
  BY DEF CallOK, Shape
<1>3. Uploads(x)'
  <2> SUFFICES ASSUME x.op = "complete" PROVE Uploads(x)'
    BY DEF Uploads
  <2> DEFINE k == x.key
  <2>1. k \in Key
    BY <1>2
  <2>2. assets[k] # NoAsset =>
          /\ assets'[k] # NoAsset /\ assets'[k].owner = assets[k].owner
          /\ assets'[k].content = assets[k].content /\ assets'[k].expires = assets[k].expires
          /\ assets[k].state = "ready" => assets'[k].state = "ready"
    BY <2>1 DEF Grows
  <2>3. (entries[k] # None => entries'[k] # None) /\ (k \in synced => k \in synced')
    BY <2>1 DEF Grows
  <2>4. x.seen \in States
    BY DEF CallOK, Shape, CallState
  <2>5. CASE x.seen = "none"
    BY <2>3, <2>5 DEF CallOK, Uploads, Upload
  <2>6. CASE x.seen # "none"
    <3>1. assets[k] # NoAsset
      BY <2>6 DEF CallOK, Uploads
    <3>2. /\ assets'[k] # NoAsset /\ assets'[k].owner = assets[k].owner
          /\ assets'[k].content = assets[k].content /\ assets'[k].expires = assets[k].expires
          /\ assets[k].state = "ready" => assets'[k].state = "ready"
      BY <2>2, <3>1
    <3> QED
      BY <2>3, <3>2, Zenon DEF CallOK, Uploads
  <2> QED
    BY <2>5, <2>6
<1>4. Right(x)'
  BY <1>2 DEF CallOK, Uploads, Right, Fair, Grows
<1>5. Inserting(x)' => x.key \in Key /\ assets'[x.key] = NoAsset
  BY DEF CallOK, Inserting
<1>6. Promised(x)' => assets'[x.key].state = "ready"
  <2> SUFFICES ASSUME Promised(x) PROVE assets'[x.key].state = "ready"
    BY DEF Promised
  <2>1. x.key \in Key /\ assets[x.key].state = "ready"
    BY DEF CallOK, Shape, Promised
  <2>2. assets[x.key] # NoAsset
    BY <2>1 DEF NoAsset
  <2> QED
    BY <2>1, <2>2 DEF Grows
<1> QED
  BY <1>1, <1>3, <1>4, <1>5, <1>6, Zenon DEF CallOK

\* A step of one call.
LEMMA CallStep ==
  ASSUME IndInv, NEW c \in Call, NEW y, call' = [call EXCEPT ![c] = y],
         Grows, StoreOK', UNCHANGED <<access, revoking>>, CallOK(y)',
         \A d \in Call \ {c} : Inserting(call[d]) => /\ assets'[call[d].key] = assets[call[d].key]
                                                     /\ Inserting(y) => call[d].key # y.key
  PROVE  IndInv'
<1>1. y \in CallState /\ call \in [Call -> CallState]
  BY DEF CallOK, Shape, IndInv
<1>2. call' \in [Call -> CallState] /\ call'[c] = y /\ \A d \in Call : d # c => call'[d] = call[d]
  BY <1>1
<1>3. ASSUME NEW d \in Call PROVE CallOK(call[d])'
  <2>1. CASE d = c
    BY <1>2, <2>1, Zenon
  <2>2. CASE d # c
    <3>1. CallOK(call[d]) /\ Inserting(call[d]) => assets'[call[d].key] = assets[call[d].key]
      BY <2>2 DEF IndInv
    <3>2. \A x : Live(x) => Live(x)'
      BY DEF Live
    <3>3. call'[d] = call[d] /\ CallOK(call[d])
      BY <1>2, <2>2 DEF IndInv
    <3>4. \A x : CallOK(x) => Live(x)
      BY Zenon DEF CallOK
    <3> QED
      BY <2>2, <3>2, <3>3, <3>4, Knows
  <2> QED
    BY <2>1, <2>2
<1>4. Unique'
  <2>1. \A x : Inserting(x)' <=> Inserting(x)
    BY DEF Inserting
  <2> SUFFICES ASSUME NEW d \in Call, NEW e \in Call, d # e, Inserting(call'[d]), Inserting(call'[e])
               PROVE  call'[d].key # call'[e].key
    BY Zenon DEF Unique, Inserting
  <2> QED
    BY <1>2 DEF IndInv, Unique
<1> QED
  BY <1>2, <1>3, <1>4, Zenon DEF IndInv

Quiet == UNCHANGED <<assets, entries, synced, sent, access, revoking, now>>

\* A step of one call that leaves both stores alone.
LEMMA QuietStep ==
  ASSUME IndInv, NEW c \in Call, NEW y, call' = [call EXCEPT ![c] = y],
         Quiet, faults' \in 0 .. MaxFaults, CallOK(y),
         \A d \in Call \ {c} : Inserting(call[d]) /\ Inserting(y) => call[d].key # y.key
  PROVE  IndInv'
<1>1. StoreOK'
  BY Zenon DEF IndInv, StoreOK, AssetOK, Quiet
<1>2. now \in Nat
  BY MediaAssumption DEF IndInv, StoreOK
<1>3. Grows
  BY <1>2 DEF Grows, Quiet
<1>4. CallOK(y)'
  BY <1>3, Knows DEF Quiet, Live, CallOK
<1> QED
  BY <1>1, <1>3, <1>4, CallStep, Zenon DEF Quiet

------------------------------------------------------------------------------
(* Answers *)

\* A call that is not running knows nothing.
LEMMA NothingKnown == IndInv => CallOK(NoCall) /\ NoCall \in CallState
<1> SUFFICES ASSUME IndInv PROVE CallOK(NoCall) /\ NoCall \in CallState
  OBVIOUS
<1>1. /\ NoCall \in CallState /\ NoCall.op = "none" /\ NoCall.pc = "idle" /\ NoCall.answer = "none"
      /\ NoCall.at = 0 /\ NoCall.tries = 1
  BY DEF NoCall, CallState, Place, Row, Upload, States, Operation
<1>2. MaxGrantAttempts \in Nat \ {0} /\ now \in Nat
  BY MediaAssumption DEF IndInv, StoreOK
<1>3. Shape(NoCall)
  BY <1>1, <1>2 DEF Shape, Row, Upload
<1>4. Live(NoCall) /\ Uploads(NoCall) /\ Right(NoCall) /\ ~Inserting(NoCall) /\ ~Promised(NoCall)
  BY <1>1 DEF Live, Uploads, Right, Inserting, Promised, Locked
<1> QED
  BY <1>1, <1>3, <1>4 DEF CallOK

\* An answer needs a reason: an OK a ready row, a complaint about the content a wrong content.
LEMMA AnswerOK ==
  ASSUME IndInv, NEW x, CallOK(x), NEW code \in Codes,
         x.op \in {"complete", "download"} /\ code = "MEDIA_OK" => assets[x.key].state = "ready",
         x.op = "complete" /\ x.seen # "none" /\ x.content = assets[x.key].content => Fair(x, code)
  PROVE  CallOK(Answered(x, code)) /\ ~Inserting(Answered(x, code))
<1> DEFINE y == Answered(x, code)
<1>1. /\ x \in CallState /\ now \in Nat /\ MaxGrantAttempts \in Nat \ {0} /\ x.tries <= MaxGrantAttempts
      /\ x.op \in {"complete", "download"} => x.key \in Key
  BY MediaAssumption DEF IndInv, StoreOK, CallOK, Shape
<1>2. CASE x.op \in {"complete", "download"}
  <2>1. y = [x EXCEPT !.pc = "done", !.answer = code, !.id = None, !.at = 0]
    BY <1>2 DEF Answered
  <2>a. "done" \in Place /\ code \in Codes \cup {"none"}
    BY DEF Place
  <2> HIDE DEF y
  <2>b. y \in CallState
    <3> DEFINE y1 == [x EXCEPT !.pc = "done"]
               y2 == [y1 EXCEPT !.answer = code]
               y3 == [y2 EXCEPT !.id = None]
    <3>1. y1 \in CallState
      BY <1>1, <2>a DEF CallState
    <3>2. y = [y3 EXCEPT !.at = 0]
      BY <2>1
    <3> HIDE DEF y1
    <3>3. y2 \in CallState
      BY <3>1, <2>a DEF CallState
    <3> HIDE DEF y2
    <3>4. y3 \in CallState
      BY <3>3 DEF CallState
    <3> HIDE DEF y3
    <3> QED
      BY <3>2, <3>4 DEF CallState
  <2>2. /\ y.pc = "done" /\ y.answer = code /\ y.at = 0
        /\ y.op = x.op /\ y.key = x.key /\ y.content = x.content /\ y.seen = x.seen /\ y.tries = x.tries
        /\ y.failed = x.failed
    BY <1>1, <2>1 DEF CallState
  <2>3. Shape(y)
    BY <1>1, <1>2, <2>2, <2>b DEF Shape, Row, Upload
  <2>4. Live(y) /\ ~Inserting(y)
    BY <2>2 DEF Live, Locked, Inserting
  <2>5. Uploads(y)
    BY <2>2 DEF CallOK, Uploads, Row, Upload
  <2>6. Right(y)
    BY <2>2, Zenon DEF Right, Fair
  <2>7. Promised(y) => assets[y.key].state = "ready"
    BY <1>2, <2>2 DEF Promised
  <2>8. CallOK(y)
    BY <2>3, <2>4, <2>5, <2>6, <2>7 DEF CallOK
  <2> QED
    BY <2>4, <2>8 DEF y
<1>3. CASE x.op \notin {"complete", "download"}
  <2>1. y = [NoCall EXCEPT !.op = x.op, !.pc = "done", !.answer = code]
    BY <1>3 DEF Answered
  <2>a. "done" \in Place /\ code \in Codes \cup {"none"} /\ x.op \in Operation
    BY <1>1 DEF Place, CallState
  <2>2. NoCall \in CallState /\ NoCall.at = 0 /\ NoCall.tries = 1
    BY NothingKnown DEF NoCall
  <2>b. /\ y \in CallState /\ y.pc = "done" /\ y.answer = code /\ y.at = NoCall.at /\ y.op = x.op
        /\ y.tries = NoCall.tries
    BY <2>1, <2>2, <2>a, Zenon DEF CallState
  <2> HIDE DEF y
  <2>3. Shape(y)
    BY <1>1, <1>3, <2>2, <2>b DEF Shape, Row, Upload
  <2>4. Live(y) /\ ~Inserting(y) /\ Uploads(y) /\ Right(y) /\ ~Promised(y)
    BY <1>3, <2>b DEF Live, Locked, Inserting, Uploads, Right, Promised
  <2>5. CallOK(y)
    BY <2>3, <2>4 DEF CallOK
  <2> QED
    BY <2>4, <2>5 DEF y
<1> QED
  BY <1>2, <1>3

\* A step that only answers.
LEMMA ReturnStep ==
  ASSUME IndInv, NEW c \in Call, NEW code \in Codes, Return(c, code), Quiet, faults' \in 0 .. MaxFaults,
         call[c].op \in {"complete", "download"} /\ code = "MEDIA_OK" => assets[call[c].key].state = "ready",
         call[c].op = "complete" /\ call[c].seen # "none" /\ call[c].content = assets[call[c].key].content =>
           Fair(call[c], code)
  PROVE  IndInv'
<1> DEFINE y == Answered(call[c], code)
<1>1. CallOK(call[c]) /\ call' = [call EXCEPT ![c] = y]
  BY Zenon DEF IndInv, Return, Set, Answered
<1>2. CallOK(y) /\ ~Inserting(y)
  BY <1>1, AnswerOK, Zenon
<1> HIDE DEF y
<1> QED
  BY <1>1, <1>2, QuietStep, Zenon

------------------------------------------------------------------------------
(* Steps that leave both stores alone *)

\* What is known of call c.
LEMMA Knowing ==
  ASSUME IndInv, NEW c \in Call
  PROVE  /\ CallOK(call[c]) /\ call[c] \in CallState /\ now \in Nat
         /\ MaxGrantAttempts \in Nat \ {0} /\ MaxFaults \in Nat /\ faults \in 0 .. MaxFaults
         /\ \A k \in Key : AssetOK(k) /\ assets[k] \in Asset
  BY MediaAssumption DEF IndInv, StoreOK, CallOK, Shape

\* A call that goes on at another place.
LEMMA GotoFields ==
  ASSUME NEW x \in CallState, NEW p \in Place
  PROVE  LET y == [x EXCEPT !.pc = p]
         IN  /\ y \in CallState /\ y.pc = p /\ y.op = x.op /\ y.id = x.id /\ y.key = x.key
             /\ y.content = x.content /\ y.seen = x.seen /\ y.at = x.at /\ y.tries = x.tries
             /\ y.answer = x.answer
  BY Zenon DEF CallState

\* It has to know there what the place asks for.
LEMMA GotoStep ==
  ASSUME IndInv, NEW c \in Call, NEW p \in Place, Goto(c, p), Quiet, UNCHANGED faults,
         call[c].pc \notin {"idle", "done", "unknown"}, p \notin {"idle", "done", "unknown"},
         p \in Row => call[c].op \in {"begin", "complete"},
         p \in Upload => call[c].op = "complete",
         p = "persist" => call[c].op = "send",
         p \in Locked => access[call[c].id].session /\ revoking # call[c].id,
         p = "commit" => call[c].op # "begin",
         (call[c].op = "download" /\ p = "authorize") \/ p = "persist" => assets[call[c].key].state = "ready",
         call[c].op = "complete" =>
           /\ call[c].pc \in Upload \cup Row /\ p \in Upload \cup Row
           /\ p \in Row => call[c].seen = "pending" /\ call[c].key \in synced
           /\ p = "link" => call[c].content = assets[call[c].key].content
           /\ p \in {"verify", "sync"} => entries[call[c].key] # None
  PROVE  IndInv'
<1> DEFINE x == call[c]
           y == [x EXCEPT !.pc = p]
<1>1. CallOK(x) /\ x \in CallState
  BY Knowing
<1>2. /\ y \in CallState /\ y.pc = p /\ y.op = x.op /\ y.id = x.id /\ y.key = x.key
      /\ y.content = x.content /\ y.seen = x.seen /\ y.at = x.at /\ y.tries = x.tries
      /\ y.answer = x.answer
  BY <1>1, GotoFields
<1>3. call' = [call EXCEPT ![c] = y]
  BY Zenon DEF Goto, Set
<1> HIDE DEF y
<1>4. Shape(y)
  BY <1>1, <1>2, Zenon DEF CallOK, Shape
<1>5. Live(y) /\ ~Inserting(y)
  BY <1>2 DEF Live, Inserting
<1>6. Uploads(y)
  <2>1. CASE x.op = "complete"
    BY <1>1, <1>2, <2>1, Zenon DEF CallOK, Uploads
  <2>2. CASE x.op # "complete"
    BY <1>2, <2>2, Zenon DEF Uploads
  <2> QED
    BY <2>1, <2>2
<1>7. Right(y)
  BY <1>2 DEF Right
<1>8. Promised(y) => assets[y.key].state = "ready"
  <2>1. y.answer = "none"
    BY <1>1, <1>2 DEF CallOK, Shape
  <2> QED
    BY <1>2, <2>1 DEF Promised
<1>9. CallOK(y)
  BY <1>4, <1>5, <1>6, <1>7, <1>8, Zenon DEF CallOK
<1>10. faults' \in 0 .. MaxFaults
  BY Knowing
<1> QED
  BY <1>3, <1>5, <1>9, <1>10, QuietStep, Zenon

\* Snapshot: authorized, the call goes on to lock the session.
LEMMA SnapshotInd == ASSUME IndInv, NEW c \in Call, Snapshot(c) PROVE IndInv'
<1>0. Quiet /\ faults' = faults /\ faults' \in 0 .. MaxFaults /\ call[c].pc = "snapshot"
  BY Knowing, Zenon DEF Snapshot, disk, World, Quiet
<1>1. CASE Goto(c, "lock")
  <2>1. /\ call[c].op \in {"begin", "complete"}
        /\ call[c].op = "complete" => call[c].seen = "pending" /\ call[c].key \in synced
    BY <1>0, Knowing, Zenon DEF CallOK, Shape, Uploads, Row
  <2> QED
    BY <1>0, <1>1, <2>1, GotoStep, Zenon DEF Place, Row, Upload, Locked
<1>2. CASE Return(c, "MEDIA_UNAUTHORIZED")
  BY <1>0, <1>2, ReturnStep, Zenon DEF Codes, Harmless, Fair
<1> QED
  BY <1>1, <1>2, Zenon DEF Snapshot

\* LockSession: the session is alive once its row is locked.
LEMMA LockInd == ASSUME IndInv, NEW c \in Call, LockSession(c) PROVE IndInv'
<1>0. Quiet /\ faults' = faults /\ faults' \in 0 .. MaxFaults /\ call[c].pc = "lock"
  BY Knowing, Zenon DEF LockSession, disk, World, Quiet
<1>1. CASE access[call[c].id].session /\ Goto(c, "write")
  <2>1. /\ call[c].op \in {"begin", "complete"} /\ revoking # call[c].id
        /\ call[c].op = "complete" => call[c].seen = "pending" /\ call[c].key \in synced
    BY <1>0, Knowing, Zenon DEF CallOK, Shape, Uploads, Row, LockSession, SessionFree
  <2> QED
    BY <1>0, <1>1, <2>1, GotoStep, Zenon DEF Place, Row, Upload, Locked
<1>2. CASE Return(c, "MEDIA_UNAUTHORIZED")
  BY <1>0, <1>2, ReturnStep, Zenon DEF Codes, Harmless, Fair
<1> QED
  BY <1>1, <1>2, Zenon DEF LockSession

\* UpdateReady: a row that is not pending any more is ready.
LEMMA UpdateReadyInd == ASSUME IndInv, NEW c \in Call, UpdateReady(c) PROVE IndInv'
<1>0. /\ Quiet /\ faults' = faults /\ faults' \in 0 .. MaxFaults
      /\ call[c].pc = "write" /\ call[c].op = "complete"
  BY Knowing, Zenon DEF UpdateReady, disk, World, Quiet
<1>1. /\ call[c].seen = "pending" /\ call[c].key \in synced /\ call[c].key \in Key
      /\ assets[call[c].key] # NoAsset
      /\ access[call[c].id].session /\ revoking # call[c].id
  BY <1>0, Knowing, Zenon DEF CallOK, Shape, Uploads, Row, Live, Locked
<1>2. CASE Goto(c, "commit")
  BY <1>0, <1>1, <1>2, GotoStep, Zenon DEF Place, Row, Upload
<1>3. CASE assets[call[c].key].state # "pending" /\ Return(c, "MEDIA_OK")
  <2>1. assets[call[c].key].state = "ready"
    BY <1>1, <1>3, Knowing DEF AssetOK
  <2> QED
    BY <1>0, <1>3, <2>1, ReturnStep, Zenon DEF Codes, Harmless, Fair
<1> QED
  BY <1>2, <1>3, Zenon DEF UpdateReady

\* PutImmutable complains only about a wrong content.
LEMMA PutInd == ASSUME IndInv, NEW c \in Call, PutImmutable(c) PROVE IndInv'
<1>0. Quiet /\ faults' = faults /\ faults' \in 0 .. MaxFaults /\ call[c].pc = "put"
  BY Knowing, Zenon DEF PutImmutable, disk, World, Quiet
<1>1. call[c].op = "complete"
  BY <1>0, Knowing, Zenon DEF CallOK, Shape, Upload
<1>2. CASE Goto(c, "copy")
  BY <1>0, <1>1, <1>2, GotoStep, Zenon DEF Place, Row, Upload, Locked
<1>3. ASSUME NEW code \in {"MEDIA_CONFLICT", "MEDIA_INVALID_INPUT"}, Return(c, code),
             ~Matches(c, call[c].content)
      PROVE  IndInv'
  BY <1>0, <1>3, ReturnStep DEF Codes, Matches
<1>4. CASE entries[call[c].key] # None /\ Goto(c, "verify")
  BY <1>0, <1>1, <1>4, GotoStep DEF Place, Row, Upload, Locked
<1> QED
  BY <1>2, <1>3, <1>4, Zenon DEF PutImmutable

\* So does the copy.
LEMMA CopyInd == ASSUME IndInv, NEW c \in Call, CopyTemp(c) PROVE IndInv'
<1>0. Quiet /\ faults' = faults /\ faults' \in 0 .. MaxFaults /\ call[c].pc = "copy"
  BY Knowing, Zenon DEF CopyTemp, disk, World, Quiet
<1>1. call[c].op = "complete"
  BY <1>0, Knowing, Zenon DEF CallOK, Shape, Upload
<1>2. CASE Matches(c, call[c].content) /\ Goto(c, "link")
  BY <1>0, <1>1, <1>2, GotoStep, Zenon DEF Place, Row, Upload, Locked, Matches
<1>3. CASE ~Matches(c, call[c].content) /\ Return(c, "MEDIA_INVALID_INPUT")
  BY <1>0, <1>3, ReturnStep, Zenon DEF Codes, Matches
<1> QED
  BY <1>2, <1>3, Zenon DEF CopyTemp

\* The object that is verified is there, and is what the row declares.
LEMMA VerifyInd == ASSUME IndInv, NEW c \in Call, Verify(c) PROVE IndInv'
<1>0. Quiet /\ faults' = faults /\ faults' \in 0 .. MaxFaults /\ call[c].pc = "verify"
  BY Knowing, Zenon DEF Verify, disk, World, Quiet
<1>1. call[c].op = "complete" /\ call[c].key \in Key
  BY <1>0, Knowing, Zenon DEF CallOK, Shape, Upload
<1>2. entries[call[c].key] # None
  BY <1>0, <1>1, Knowing, Zenon DEF CallOK, Uploads
<1>3. Matches(c, entries[call[c].key])
  BY <1>1, <1>2, Knowing DEF AssetOK, Matches
<1>4. Goto(c, "sync")
  BY <1>3, Zenon DEF Verify
<1> QED
  BY <1>0, <1>1, <1>2, <1>4, GotoStep, Zenon DEF Place, Row, Upload, Locked

\* ValidateForSend lets only a ready row through.
LEMMA ValidateInd == ASSUME IndInv, NEW c \in Call, ValidateForSend(c) PROVE IndInv'
<1>0. /\ Quiet /\ faults' = faults /\ faults' \in 0 .. MaxFaults
      /\ call[c].pc = "load" /\ call[c].op = "send"
  BY Knowing, Zenon DEF ValidateForSend, disk, World, Quiet
<1>1. CASE assets[call[c].key].state = "ready" /\ Goto(c, "persist")
  BY <1>0, <1>1, GotoStep, Zenon DEF Place, Row, Upload, Locked
<1>2. CASE Return(c, "MEDIA_UNAUTHORIZED")
  BY <1>0, <1>2, ReturnStep, Zenon DEF Codes, Harmless, Fair
<1> QED
  BY <1>1, <1>2, Zenon DEF ValidateForSend

\* So does LoadReadyAsset.
LEMMA LoadReadyInd == ASSUME IndInv, NEW c \in Call, LoadReadyAsset(c) PROVE IndInv'
<1>0. /\ Quiet /\ faults' = faults /\ faults' \in 0 .. MaxFaults
      /\ call[c].pc = "load" /\ call[c].op = "download"
  BY Knowing, Zenon DEF LoadReadyAsset, disk, World, Quiet
<1>1. CASE assets[call[c].key].state = "ready" /\ Goto(c, "authorize")
  BY <1>0, <1>1, GotoStep, Zenon DEF Place, Row, Upload, Locked
<1>2. CASE Return(c, "MEDIA_NOT_FOUND")
  BY <1>0, <1>2, ReturnStep, Zenon DEF Codes
<1> QED
  BY <1>1, <1>2, Zenon DEF LoadReadyAsset

\* The row of a download is still ready when it is answered.
LEMMA AuthorizeDownloadInd == ASSUME IndInv, NEW c \in Call, AuthorizeDownload(c) PROVE IndInv'
<1>0. /\ Quiet /\ faults' = faults /\ faults' \in 0 .. MaxFaults
      /\ call[c].pc = "authorize" /\ call[c].op = "download"
  BY Knowing, Zenon DEF AuthorizeDownload, disk, World, Quiet
<1>1. assets[call[c].key].state = "ready"
  BY <1>0, Knowing DEF CallOK, Promised
<1>2. PICK code \in {"MEDIA_OK", "MEDIA_UNAUTHORIZED"} : Return(c, code)
  BY Zenon DEF AuthorizeDownload
<1> QED
  BY <1>0, <1>1, <1>2, ReturnStep DEF Codes

\* A failure is no promise, and excuses the answer.
LEMMA FailInd == ASSUME IndInv, NEW c \in Call, Fail(c) PROVE IndInv'
<1> DEFINE x == call[c]
           z == [x EXCEPT !.failed = TRUE]
<1>0. /\ Quiet /\ faults' \in 0 .. MaxFaults /\ CallOK(x) /\ x \in CallState
      /\ x.pc \notin {"idle", "done", "commit", "unknown"}
  BY Knowing DEF Fail, Fault, disk, World, Quiet
<1>1. PICK code \in FailureCodes(x.pc) : call' = [call EXCEPT ![c] = Answered(z, code)]
  BY Zenon DEF Fail, Set
<1>2. code \in {"MEDIA_STORAGE_UNAVAILABLE", "MEDIA_CONFLICT"} /\ code \in Codes /\ code # "MEDIA_OK"
  BY <1>1 DEF FailureCodes, Codes
<1>3. /\ z \in CallState /\ z.failed = TRUE /\ z.pc = x.pc /\ z.op = x.op /\ z.id = x.id /\ z.key = x.key
      /\ z.content = x.content /\ z.seen = x.seen /\ z.at = x.at /\ z.tries = x.tries /\ z.answer = x.answer
  BY <1>0, Zenon DEF CallState
<1> HIDE DEF z
<1>4. Shape(z)
  BY <1>0, <1>3, Zenon DEF CallOK, Shape
<1>5. Live(z) /\ Right(z) /\ (Inserting(z) <=> Inserting(x)) /\ (Promised(z) <=> Promised(x))
  BY <1>0, <1>3, Zenon DEF CallOK, Live, Right, Inserting, Promised
<1>6. Uploads(z)
  BY <1>0, <1>3, Zenon DEF CallOK, Uploads
<1>7. CallOK(z)
  BY <1>0, <1>3, <1>4, <1>5, <1>6, Zenon DEF CallOK
<1>8. CallOK(Answered(z, code)) /\ ~Inserting(Answered(z, code))
  BY <1>2, <1>3, <1>7, AnswerOK, Zenon DEF Fair
<1> QED
  BY <1>0, <1>1, <1>8, QuietStep, Zenon

\* A call that has ended is forgotten.
LEMMA ForgetInd == ASSUME IndInv, NEW c \in Call, Forget(c) PROVE IndInv'
<1>0. Quiet /\ faults' \in 0 .. MaxFaults /\ call' = [call EXCEPT ![c] = NoCall]
  BY Knowing DEF Forget, Set, disk, World, Quiet
<1>1. CallOK(NoCall) /\ ~Inserting(NoCall)
  BY NothingKnown DEF NoCall, Inserting
<1> QED
  BY <1>0, <1>1, QuietStep, Zenon

\* A call begins: it knows nothing but its own input.
LEMMA BeginOK ==
  ASSUME IndInv, NEW y \in CallState, y.pc \in {"snapshot", "load"}, y.op # "none",
         y.pc = "snapshot" <=> y.op = "begin", y.id \in Identity, y.at <= now, y.tries = 1,
         y.op # "begin" => y.key \in Key, y.op = "begin" => y.content \in Content,
         y.seen = "none", y.answer = "none"
  PROVE  CallOK(y) /\ ~Inserting(y)
<1>1. MaxGrantAttempts \in Nat \ {0}
  BY MediaAssumption
<1>2. Shape(y)
  BY <1>1 DEF Shape, CallState, Operation, Row, Upload
<1>3. Live(y) /\ ~Inserting(y) /\ Right(y) /\ ~Promised(y)
  BY DEF Live, Locked, Inserting, Right, Promised
<1>4. Uploads(y)
  BY DEF Uploads, Row, Upload
<1> QED
  BY <1>2, <1>3, <1>4 DEF CallOK

\* Start.
LEMMA StartInd == ASSUME IndInv, NEW c \in Call, Start(c) PROVE IndInv'
<1>0. Quiet /\ faults' = faults /\ faults' \in 0 .. MaxFaults /\ now \in Nat
  BY Knowing, Zenon DEF Start, disk, World, Quiet
<1>1. PICK i \in Identity, x \in Content :
        \/ Set(c, [NoCall EXCEPT !.op = "begin", !.pc = "snapshot", !.id = i, !.content = x, !.at = now])
        \/ \E k \in Key : Set(c, [NoCall EXCEPT !.op = "download", !.pc = "load", !.id = i, !.key = k])
        \/ \E k \in Key, op \in {"complete", "send"} :
             Set(c, [NoCall EXCEPT !.op = op, !.pc = "load", !.id = i, !.content = x, !.key = k,
                                   !.at = IF op = "send" THEN now ELSE 0])
  BY Zenon DEF Start
<1>2. ASSUME NEW y, Set(c, y), CallOK(y) /\ ~Inserting(y) PROVE IndInv'
  BY <1>0, <1>2, QuietStep, Zenon DEF Set
<1>3. NoCall \in CallState /\ NoCall.seen = "none" /\ NoCall.answer = "none" /\ NoCall.tries = 1 /\ NoCall.at = 0
  BY NothingKnown DEF NoCall
<1>4. /\ "load" \in Place /\ "snapshot" \in Place
      /\ \A op \in {"begin", "download", "complete", "send"} : op \in Operation
  BY DEF Place, Row, Operation
<1>5. CASE Set(c, [NoCall EXCEPT !.op = "begin", !.pc = "snapshot", !.id = i, !.content = x, !.at = now])
  <2> DEFINE y == [NoCall EXCEPT !.op = "begin", !.pc = "snapshot", !.id = i, !.content = x, !.at = now]
  <2>1. /\ y \in CallState /\ y.op = "begin" /\ y.pc = "snapshot" /\ y.id = i /\ y.content = x /\ y.at = now
        /\ y.seen = NoCall.seen /\ y.answer = NoCall.answer /\ y.tries = NoCall.tries
    BY <1>0, <1>3, <1>4, Zenon DEF CallState
  <2> HIDE DEF y
  <2>2. CallOK(y) /\ ~Inserting(y)
    BY <1>0, <1>3, <2>1, BeginOK
  <2> QED
    BY <1>2, <1>5, <2>2 DEF y
<1>6. ASSUME NEW k \in Key,
             Set(c, [NoCall EXCEPT !.op = "download", !.pc = "load", !.id = i, !.key = k])
      PROVE  IndInv'
  <2> DEFINE y == [NoCall EXCEPT !.op = "download", !.pc = "load", !.id = i, !.key = k]
  <2>1. /\ y \in CallState /\ y.op = "download" /\ y.pc = "load" /\ y.id = i /\ y.key = k /\ y.at = NoCall.at
        /\ y.seen = NoCall.seen /\ y.answer = NoCall.answer /\ y.tries = NoCall.tries
    BY <1>0, <1>3, <1>4, Zenon DEF CallState
  <2> HIDE DEF y
  <2>2. CallOK(y) /\ ~Inserting(y)
    BY <1>0, <1>3, <2>1, BeginOK
  <2> QED
    BY <1>2, <1>6, <2>2 DEF y
<1>7. ASSUME NEW k \in Key, NEW op \in {"complete", "send"},
             Set(c, [NoCall EXCEPT !.op = op, !.pc = "load", !.id = i, !.content = x, !.key = k,
                                   !.at = IF op = "send" THEN now ELSE 0])
      PROVE  IndInv'
  <2> DEFINE n == IF op = "send" THEN now ELSE 0
             y == [NoCall EXCEPT !.op = op, !.pc = "load", !.id = i, !.content = x, !.key = k, !.at = n]
  <2>0. n \in Nat /\ n <= now
    BY <1>0
  <2>a. Set(c, y)
    BY <1>7
  <2> HIDE DEF n
  <2>1. /\ y \in CallState /\ y.op = op /\ y.pc = "load" /\ y.id = i /\ y.key = k /\ y.at = n
        /\ y.seen = NoCall.seen /\ y.answer = NoCall.answer /\ y.tries = NoCall.tries
    BY <1>3, <1>4, <2>0, Zenon DEF CallState
  <2> HIDE DEF y
  <2>2. CallOK(y) /\ ~Inserting(y)
    BY <1>3, <2>0, <2>1, BeginOK
  <2> QED
    BY <1>2, <2>a, <2>2
<1> QED
  BY <1>1, <1>5, <1>6, <1>7, Zenon

\* The key of an inserted row was free, and no other call is inserting it.
LEMMA InsertInd == ASSUME IndInv, NEW c \in Call, InsertPending(c) PROVE IndInv'
<1> DEFINE x == call[c]
<1>0. /\ Quiet /\ faults' = faults /\ faults' \in 0 .. MaxFaults
      /\ x.pc = "write" /\ x.op = "begin" /\ CallOK(x) /\ x \in CallState
  BY Knowing DEF InsertPending, disk, World, Quiet
<1>1. PICK k \in Key :
        /\ \A d \in Call \ {c} :
             ~(call[d].op = "begin" /\ call[d].pc \in {"commit", "unknown"} /\ call[d].key = k)
        /\ IF assets[k] = NoAsset /\ ~access[x.id].member THEN Return(c, "MEDIA_UNAUTHORIZED")
           ELSE IF assets[k] = NoAsset THEN Set(c, [x EXCEPT !.pc = "commit", !.key = k])
           ELSE IF x.tries < MaxGrantAttempts THEN Set(c, [x EXCEPT !.pc = "snapshot", !.tries = @ + 1])
           ELSE Return(c, "MEDIA_GRANT_COLLISION")
  BY Zenon DEF InsertPending
<1>2. ASSUME NEW code \in {"MEDIA_UNAUTHORIZED", "MEDIA_GRANT_COLLISION"}, Return(c, code) PROVE IndInv'
  BY <1>0, <1>2, ReturnStep DEF Codes
<1>3. CASE assets[k] = NoAsset /\ Set(c, [x EXCEPT !.pc = "commit", !.key = k])
  <2> DEFINE y == [x EXCEPT !.pc = "commit", !.key = k]
  <2>1. call' = [call EXCEPT ![c] = y]
    BY <1>3, Zenon DEF Set
  <2>2. /\ y \in CallState /\ y.pc = "commit" /\ y.key = k /\ y.op = x.op /\ y.id = x.id /\ y.content = x.content
        /\ y.at = x.at /\ y.tries = x.tries /\ y.answer = x.answer /\ y.seen = x.seen
    <3>1. "commit" \in Place
      BY DEF Place, Row
    <3> QED
      BY <1>0, <3>1, Zenon DEF CallState
  <2> HIDE DEF y
  <2>3. Shape(y)
    BY <1>0, <2>2, Zenon DEF CallOK, Shape, Row, Upload
  <2>4. Live(y) /\ Uploads(y) /\ Right(y)
    BY <1>0, <2>2, Zenon DEF CallOK, Live, Locked, Uploads, Right
  <2>5. Inserting(y) => y.key \in Key /\ assets[y.key] = NoAsset
    BY <1>3, <2>2, Zenon
  <2>6. ~Promised(y)
    BY <1>0, <2>2, Zenon DEF Promised
  <2>7. CallOK(y)
    BY <2>3, <2>4, <2>5, <2>6, Zenon DEF CallOK
  <2>8. \A d \in Call \ {c} : Inserting(call[d]) /\ Inserting(y) => call[d].key # y.key
    BY <1>1, <2>2, Zenon DEF Inserting
  <2> QED
    BY <1>0, <2>1, <2>7, <2>8, QuietStep, Zenon
<1>4. CASE x.tries < MaxGrantAttempts /\ Set(c, [x EXCEPT !.pc = "snapshot", !.tries = @ + 1])
  <2> DEFINE n == x.tries + 1
             y == [x EXCEPT !.pc = "snapshot", !.tries = n]
  <2>1. call' = [call EXCEPT ![c] = y]
    BY <1>4, Zenon DEF Set
  <2>a. n \in Nat /\ n <= MaxGrantAttempts /\ "snapshot" \in Place
    BY <1>0, <1>4, Knowing DEF CallState, Place, Row
  <2> HIDE DEF n
  <2>2. /\ y \in CallState /\ y.pc = "snapshot" /\ y.tries = n /\ y.op = x.op /\ y.id = x.id
        /\ y.content = x.content /\ y.at = x.at /\ y.answer = x.answer
    BY <1>0, <2>a, Zenon DEF CallState
  <2> HIDE DEF y
  <2>3. Shape(y)
    BY <1>0, <2>2, <2>a, Zenon DEF CallOK, Shape, Row, Upload
  <2>4. Live(y) /\ Uploads(y) /\ Right(y) /\ ~Inserting(y) /\ ~Promised(y)
    BY <1>0, <2>2, Zenon DEF Live, Locked, Uploads, Right, Inserting, Promised
  <2>5. CallOK(y)
    BY <2>3, <2>4, Zenon DEF CallOK
  <2> QED
    BY <1>0, <2>1, <2>4, <2>5, QuietStep, Zenon
<1> QED
  BY <1>1, <1>2, <1>3, <1>4, Zenon

\* A commit whose outcome is unknown keeps all that the commit relied on.
LEMMA CommitUnknownInd == ASSUME IndInv, NEW c \in Call, CommitUnknown(c) PROVE IndInv'
<1> DEFINE x == call[c]
           y == [x EXCEPT !.pc = "unknown", !.answer = "MEDIA_STORAGE_UNAVAILABLE", !.failed = TRUE]
<1>0. /\ Quiet /\ faults' \in 0 .. MaxFaults /\ x.pc = "commit" /\ CallOK(x) /\ x \in CallState
  BY Knowing DEF CommitUnknown, Fault, disk, World, Quiet
<1>1. call' = [call EXCEPT ![c] = y]
  BY Zenon DEF CommitUnknown, Set
<1>2. /\ y \in CallState /\ y.pc = "unknown" /\ y.answer = "MEDIA_STORAGE_UNAVAILABLE" /\ y.op = x.op
      /\ y.id = x.id /\ y.key = x.key /\ y.content = x.content /\ y.seen = x.seen /\ y.at = x.at /\ y.tries = x.tries
      /\ y.failed = TRUE
  <2>1. "unknown" \in Place /\ "MEDIA_STORAGE_UNAVAILABLE" \in Codes \cup {"none"}
    BY DEF Place, Row, Codes
  <2> QED
    BY <1>0, <2>1, Zenon DEF CallState
<1> HIDE DEF y
<1>3. Shape(y)
  BY <1>0, <1>2, Zenon DEF CallOK, Shape, Row, Upload
<1>4. Live(y) /\ Right(y) /\ ~Promised(y)
  BY <1>0, <1>2, Zenon DEF CallOK, Live, Locked, Right, Promised
<1>5. Uploads(y)
  BY <1>0, <1>2, Zenon DEF CallOK, Uploads, Row, Upload
<1>6. Inserting(y) => Inserting(x)
  BY <1>0, <1>2, Zenon DEF Inserting
<1>7. CallOK(y)
  BY <1>0, <1>2, <1>3, <1>4, <1>5, <1>6, Zenon DEF CallOK
<1>8. \A d \in Call \ {c} : Inserting(call[d]) /\ Inserting(y) => call[d].key # y.key
  BY <1>2, <1>6 DEF IndInv, Unique
<1> QED
  BY <1>0, <1>1, <1>7, <1>8, QuietStep, Zenon

\* LoadGrant: the grant is there, is the caller's, and is pending or ready.
LEMMA LoadGrantInd == ASSUME IndInv, NEW c \in Call, LoadGrant(c) PROVE IndInv'
<1> DEFINE x == call[c]
           a == assets[x.key]
<1>0. /\ Quiet /\ faults' = faults /\ faults' \in 0 .. MaxFaults
      /\ x.pc = "load" /\ x.op = "complete" /\ CallOK(x) /\ x \in CallState
  BY Knowing, Zenon DEF LoadGrant, disk, World, Quiet
<1>1. x.key \in Key
  BY <1>0, Zenon DEF CallOK, Shape
<1>2. CASE a = NoAsset /\ Return(c, "MEDIA_NOT_FOUND")
  <2>1. x.seen = "none"
    BY <1>0, <1>2, Zenon DEF CallOK, Uploads
  <2> QED
    BY <1>0, <1>2, <2>1, ReturnStep, Zenon DEF Codes
<1>3. CASE Return(c, "MEDIA_UNAUTHORIZED")
  BY <1>0, <1>3, ReturnStep, Zenon DEF Codes, Harmless, Fair
<1>4. CASE a # NoAsset /\ a.owner = x.id /\ Set(c, [x EXCEPT !.pc = "authorize", !.seen = a.state])
  <2> DEFINE s == a.state
             y == [x EXCEPT !.pc = "authorize", !.seen = s]
  <2>1. call' = [call EXCEPT ![c] = y]
    BY <1>4, Zenon DEF Set
  <2>a. s \in {"pending", "ready"} /\ s \in States /\ "authorize" \in Place
    BY <1>1, <1>4, Knowing DEF AssetOK, Place, States
  <2>b. a # NoAsset /\ a.owner = x.id /\ (s = "ready" => a.state = "ready")
    BY <1>4
  <2> HIDE DEF s
  <2>2. /\ y \in CallState /\ y.pc = "authorize" /\ y.seen = s /\ y.op = x.op /\ y.id = x.id /\ y.key = x.key
        /\ y.at = x.at /\ y.tries = x.tries /\ y.answer = x.answer
    BY <1>0, <2>a, Zenon DEF CallState
  <2> HIDE DEF y
  <2>3. Shape(y)
    BY <1>0, <1>1, <2>2, Zenon DEF CallOK, Shape, Row, Upload
  <2>4. Live(y) /\ Right(y) /\ ~Inserting(y) /\ ~Promised(y)
    BY <1>0, <2>2, Knowing, Zenon DEF CallOK, Shape, Live, Locked, Right, Inserting, Promised
  <2>5. Uploads(y)
    BY <2>2, <2>a, <2>b, Zenon DEF Uploads, Row, Upload
  <2>6. CallOK(y)
    BY <2>3, <2>4, <2>5, Zenon DEF CallOK
  <2> QED
    BY <1>0, <2>1, <2>4, <2>6, QuietStep, Zenon
<1> QED
  BY <1>2, <1>3, <1>4, Zenon DEF LoadGrant

\* AuthorizeUpload: the clock that completion uses is before the expiry of a pending grant.
LEMMA AuthorizeUploadInd == ASSUME IndInv, NEW c \in Call, AuthorizeUpload(c) PROVE IndInv'
<1> DEFINE x == call[c]
           a == assets[x.key]
<1>0. /\ Quiet /\ faults' = faults /\ faults' \in 0 .. MaxFaults
      /\ x.pc = "authorize" /\ x.op = "complete" /\ CallOK(x) /\ x \in CallState /\ now \in Nat
  BY Knowing, Zenon DEF AuthorizeUpload, disk, World, Quiet
<1>1. x.key \in Key /\ a \in Asset
  BY <1>0, Knowing, Zenon DEF CallOK, Shape
<1>2. ASSUME NEW code \in {"MEDIA_UNAUTHORIZED", "MEDIA_EXPIRED"}, Return(c, code) PROVE IndInv'
  BY <1>0, <1>2, ReturnStep, Zenon DEF Codes, Harmless, Fair
<1>3. CASE ~(x.seen = "pending" /\ now >= a.expires) /\ Set(c, [x EXCEPT !.pc = "put", !.at = now])
  <2> DEFINE y == [x EXCEPT !.pc = "put", !.at = now]
  <2>1. call' = [call EXCEPT ![c] = y]
    BY <1>3, Zenon DEF Set
  <2>2. /\ y \in CallState /\ y.pc = "put" /\ y.at = now /\ y.op = x.op /\ y.id = x.id /\ y.key = x.key
        /\ y.seen = x.seen /\ y.tries = x.tries /\ y.answer = x.answer
    <3>1. "put" \in Place
      BY DEF Place, Upload
    <3> QED
      BY <1>0, <3>1, Zenon DEF CallState
  <2>a. x.seen = "pending" => now < a.expires
    BY <1>0, <1>1, <1>3 DEF Asset
  <2> HIDE DEF y
  <2>3. Shape(y)
    BY <1>0, <2>2 DEF CallOK, Shape, Row, Upload
  <2>4. Live(y) /\ Right(y) /\ ~Inserting(y) /\ ~Promised(y)
    BY <1>0, <2>2, Zenon DEF CallOK, Shape, Live, Locked, Right, Inserting, Promised
  <2>5. Uploads(y)
    BY <1>0, <2>2, <2>a, Zenon DEF CallOK, Uploads, Row, Upload
  <2>6. CallOK(y)
    BY <2>3, <2>4, <2>5, Zenon DEF CallOK
  <2> QED
    BY <1>0, <2>1, <2>4, <2>6, QuietStep, Zenon
<1> QED
  BY <1>2, <1>3, Zenon DEF AuthorizeUpload

------------------------------------------------------------------------------
(* Commits *)

\* A commit makes a row of nothing, or makes the row of a stored object ready; the row is that of
\* the caller, whose session is locked.
LEMMA Published ==
  ASSUME IndInv, NEW c \in Call, call[c].pc \in {"commit", "unknown"}, Publish(c)
  PROVE  /\ assets' \in [Key -> Asset] /\ call[c].key \in Key
         /\ \A k \in Key : k # call[c].key => assets'[k] = assets[k]
         /\ assets'[call[c].key].owner = call[c].id /\ access[call[c].id].session
         /\ call[c].op = "begin" => /\ assets[call[c].key] = NoAsset
                                    /\ assets'[call[c].key].state = "pending"
                                    /\ assets'[call[c].key].owner \in Identity
                                    /\ assets'[call[c].key].content \in Content
         /\ call[c].op = "complete" => /\ assets[call[c].key] # NoAsset /\ call[c].key \in synced
                                       /\ assets'[call[c].key].state = "ready"
                                       /\ assets'[call[c].key].content = assets[call[c].key].content
                                       /\ assets'[call[c].key].expires = assets[call[c].key].expires
                                       /\ assets'[call[c].key].owner = assets[call[c].key].owner
                                       /\ assets'[call[c].key].completed < assets'[call[c].key].expires
         /\ call[c].op \in {"begin", "complete"}
<1> DEFINE x == call[c]
           k == x.key
<1>0. /\ CallOK(x) /\ x \in CallState /\ assets \in [Key -> Asset] /\ x.op \in {"begin", "complete"}
      /\ x.id \in Identity /\ access[x.id].session /\ x.at \in Nat
  BY Knowing, Zenon DEF IndInv, StoreOK, CallOK, Shape, Live, Row, Locked, CallState
<1>1. CASE x.op = "begin"
  <2>1. k \in Key /\ assets[k] = NoAsset /\ x.content \in Content
    BY <1>0, <1>1, Zenon DEF CallOK, Shape, Inserting
  <2> DEFINE a == [state |-> "pending", owner |-> x.id, content |-> x.content,
                   expires |-> x.at + UploadTTL, completed |-> 0]
  <2>2. assets' = [assets EXCEPT ![k] = a]
    BY <1>1, Zenon DEF Publish, PendingGrant
  <2>3. x.at + UploadTTL \in Nat
    BY <1>0, MediaAssumption
  <2>4. a \in Asset /\ a.owner = x.id /\ a.state = "pending" /\ a.content = x.content
    BY <1>0, <2>1, <2>3, Zenon DEF Asset, States
  <2> HIDE DEF a
  <2>5. assets' \in [Key -> Asset] /\ assets'[k] = a /\ \A l \in Key : l # k => assets'[l] = assets[l]
    BY <1>0, <2>1, <2>2, <2>4, Zenon
  <2> QED
    BY <1>0, <1>1, <2>1, <2>4, <2>5, Zenon
<1>2. CASE x.op = "complete"
  <2> DEFINE a == [assets[k] EXCEPT !.state = "ready", !.completed = x.at]
  <2>1. /\ k \in Key /\ assets[k] # NoAsset /\ k \in synced /\ assets[k].owner = x.id
        /\ x.at < assets[k].expires
    BY <1>0, <1>2, Zenon DEF CallOK, Shape, Uploads, Row
  <2>2. assets' = [assets EXCEPT ![k] = a]
    BY <1>2, Zenon DEF Publish
  <2>3. /\ a \in Asset /\ a.state = "ready" /\ a.completed = x.at /\ a.owner = assets[k].owner
        /\ a.content = assets[k].content /\ a.expires = assets[k].expires
    <3>1. assets[k] \in Asset /\ "ready" \in States
      BY <1>0, <2>1, Zenon DEF States
    <3> QED
      BY <1>0, <3>1, Zenon DEF Asset
  <2> HIDE DEF a
  <2>4. assets' \in [Key -> Asset] /\ assets'[k] = a /\ \A l \in Key : l # k => assets'[l] = assets[l]
    BY <1>0, <2>1, <2>2, <2>3, Zenon
  <2> QED
    BY <1>0, <1>2, <2>1, <2>3, <2>4, Zenon
<1> QED
  BY <1>0, <1>1, <1>2, Zenon

\* So a commit preserves what the stores and the other calls rely on.
LEMMA PublishHolds ==
  ASSUME IndInv, NEW c \in Call, call[c].pc \in {"commit", "unknown"}, Publish(c),
         UNCHANGED <<entries, synced, sent, access, revoking, now>>, faults' \in 0 .. MaxFaults
  PROVE  /\ StoreOK' /\ Grows
         /\ \A d \in Call \ {c} : Inserting(call[d]) => assets'[call[d].key] = assets[call[d].key]
<1> DEFINE x == call[c]
           k == x.key
<1>0. CallOK(x) /\ StoreOK /\ now \in Nat
  BY Knowing, Zenon DEF IndInv
<1>1. ~(assets[k].state = "ready") \/ x.op = "complete"
  BY Published DEF NoAsset
<1>2. Grows
  <2>1. \A l \in Key : l # k => assets'[l] = assets[l]
    BY Published, Zenon
  <2>2. assets[k] # NoAsset => /\ assets'[k] # NoAsset /\ assets'[k].owner = assets[k].owner
                               /\ assets'[k].content = assets[k].content /\ assets'[k].expires = assets[k].expires
                               /\ assets'[k].state = "ready"
    <3>1. assets'[k].state = "ready" => assets'[k] # NoAsset
      BY DEF NoAsset
    <3> QED
      BY <3>1, Published, Zenon
  <2> QED
    BY <1>0, <2>1, <2>2 DEF Grows
<1>3. ASSUME NEW l \in Key PROVE AssetOK(l)'
  <2>0. AssetOK(l)
    BY <1>0, Zenon DEF StoreOK
  <2>1. CASE l # k
    BY <2>0, <2>1, Published, Zenon DEF AssetOK
  <2>2. CASE l = k /\ x.op = "begin"
    <3>1. entries'[l] = None
      BY <2>0, <2>2, Published, Zenon DEF AssetOK
    <3> QED
      BY <2>2, <3>1, Published, Zenon DEF AssetOK
  <2>3. CASE l = k /\ x.op = "complete"
    <3>1. assets[l].owner \in Identity /\ assets[l].content \in Content
      BY <2>0, <2>3, Published, Zenon DEF AssetOK
    <3>2. assets'[l] # NoAsset
      BY <2>3, Published DEF NoAsset
    <3> QED
      BY <2>0, <2>3, <3>1, <3>2, Published, Zenon DEF AssetOK
  <2> QED
    BY <2>1, <2>2, <2>3, Published, Zenon
<1>4. \A l \in sent' : assets'[l].state = "ready"
  <2>1. \A l \in sent : l \in Key /\ assets[l].state = "ready"
    BY <1>0, Zenon DEF StoreOK
  <2> QED
    BY <1>1, <2>1, Published
<1>5. StoreOK'
  BY <1>0, <1>3, <1>4, Published, Zenon DEF StoreOK
<1>6. ASSUME NEW d \in Call \ {c}, Inserting(call[d]) PROVE assets'[call[d].key] = assets[call[d].key]
  <2>1. call[d].key \in Key /\ assets[call[d].key] = NoAsset
    BY <1>6, Zenon DEF IndInv, CallOK
  <2>2. call[d].key # k
    BY <1>6, <2>1, Published, Zenon DEF IndInv, Unique, Inserting
  <2> QED
    BY <2>1, <2>2, Published, Zenon
<1> QED
  BY <1>2, <1>5, <1>6, Zenon

\* A call answers while the stores change.
LEMMA AnswerStep ==
  ASSUME IndInv, NEW c \in Call, NEW code \in Codes, Return(c, code),
         StoreOK', Grows, UNCHANGED <<access, revoking>>,
         \A d \in Call \ {c} : Inserting(call[d]) => assets'[call[d].key] = assets[call[d].key],
         Fair(call[c], code),
         call[c].op \in {"complete", "download"} /\ code = "MEDIA_OK" => assets'[call[c].key].state = "ready"
  PROVE  IndInv'
<1> DEFINE x == call[c]
<1>y. PICK y : y = Answered(x, code)
  BY Zenon
<1>z. PICK z : z = Answered(x, "MEDIA_UNAUTHORIZED")
  OBVIOUS
<1>0. CallOK(x) /\ x \in CallState /\ call' = [call EXCEPT ![c] = y]
  BY <1>y, Knowing, Zenon DEF Return, Set, Answered
<1>1. CallOK(z) /\ ~Inserting(z)
  BY <1>0, <1>z, AnswerOK, Zenon DEF Codes, Harmless, Fair
<1>2. /\ y \in CallState /\ y.pc = "done" /\ y.answer = code /\ z.pc = "done" /\ z \in CallState
      /\ y.op = z.op /\ y.id = z.id /\ y.key = z.key /\ y.content = z.content /\ y.seen = z.seen
      /\ y.at = z.at /\ y.tries = z.tries /\ y.op = x.op
      /\ x.op \in {"complete", "download"} => y.key = x.key /\ y.failed = x.failed
  <2>1. /\ "done" \in Place /\ code \in Codes \cup {"none"} /\ x.op \in Operation
        /\ "MEDIA_UNAUTHORIZED" \in Codes \cup {"none"}
    BY <1>0, Zenon DEF Place, CallState, Codes
  <2>2. CASE x.op \in {"complete", "download"}
    <3> DEFINE b == [x EXCEPT !.pc = "done", !.id = None, !.at = 0]
    <3>1. /\ b \in CallState /\ b.pc = "done" /\ b.op = x.op /\ b.key = x.key /\ b.failed = x.failed
      BY <1>0, <2>1, Zenon DEF CallState
    <3>2. y = [b EXCEPT !.answer = code] /\ z = [b EXCEPT !.answer = "MEDIA_UNAUTHORIZED"]
      BY <1>0, <1>y, <1>z, <2>2, Zenon DEF Answered, CallState
    <3> HIDE DEF b
    <3> QED
      BY <2>1, <3>1, <3>2, Zenon DEF CallState
  <2>3. CASE x.op \notin {"complete", "download"}
    <3> DEFINE b == [NoCall EXCEPT !.op = x.op, !.pc = "done"]
    <3>0. NoCall \in CallState
      BY NothingKnown, Zenon
    <3>1. b \in CallState /\ b.pc = "done" /\ b.op = x.op
      BY <2>1, <3>0, Zenon DEF CallState
    <3>2. y = [b EXCEPT !.answer = code] /\ z = [b EXCEPT !.answer = "MEDIA_UNAUTHORIZED"]
      BY <1>y, <1>z, <2>3, <3>0 DEF Answered, CallState
    <3> HIDE DEF b
    <3> QED
      BY <2>1, <2>3, <3>1, <3>2, Zenon DEF CallState
  <2> QED
    BY <2>2, <2>3, Zenon
<1>3. CallOK(z)'
  <2>1. Live(z)'
    BY <1>2, Zenon DEF Live, Locked
  <2> QED
    BY <1>1, <2>1, Knows, Zenon
<1>4. Shape(y)'
  BY <1>2, <1>3, Zenon DEF CallOK, Shape
<1>5. Live(y)' /\ ~Inserting(y) /\ ~Inserting(y)'
  BY <1>2, Zenon DEF Live, Locked, Inserting
<1>6. Uploads(y)'
  BY <1>2, <1>3, Zenon DEF CallOK, Uploads
<1>7. Right(y)'
  BY <1>2, Zenon DEF Right, Fair
<1>8. Promised(y)' => assets'[y.key].state = "ready"
  BY <1>2, Zenon DEF Promised
<1>9. CallOK(y)'
  BY <1>4, <1>5, <1>6, <1>7, <1>8, Zenon DEF CallOK
<1> QED
  BY <1>0, <1>5, <1>9, CallStep, Zenon

\* Commit.
LEMMA CommitInd == ASSUME IndInv, NEW c \in Call, Commit(c) PROVE IndInv'
<1>0. /\ call[c].pc \in {"commit", "unknown"} /\ Publish(c) /\ Return(c, "MEDIA_OK")
      /\ UNCHANGED <<entries, synced, sent, access, revoking, now>> /\ faults' \in 0 .. MaxFaults
  BY Knowing, Zenon DEF Commit, disk, World
<1>1. /\ StoreOK' /\ Grows
      /\ \A d \in Call \ {c} : Inserting(call[d]) => assets'[call[d].key] = assets[call[d].key]
  BY <1>0, PublishHolds, Zenon
<1>2. call[c].op \in {"complete", "download"} => assets'[call[c].key].state = "ready"
  BY <1>0, Published, Zenon
<1> QED
  BY <1>0, <1>1, <1>2, AnswerStep, Zenon DEF Codes, Harmless, Fair

\* A commit of unknown outcome took place or did not; the answer promises nothing.
LEMMA SettleInd == ASSUME IndInv, NEW c \in Call, Settle(c) PROVE IndInv'
<1>0. /\ call[c].pc \in {"commit", "unknown"}
      /\ Publish(c) \/ UNCHANGED assets
      /\ UNCHANGED <<entries, synced, sent, access, revoking, now>>
      /\ faults' = faults /\ faults' \in 0 .. MaxFaults
  BY Knowing, Zenon DEF Settle, disk, World
<1>1. Return(c, "MEDIA_STORAGE_UNAVAILABLE") /\ Fair(call[c], "MEDIA_STORAGE_UNAVAILABLE")
  BY Knowing, Zenon DEF Settle, CallOK, Shape, Fair
<1>2. CASE Publish(c)
  <2>1. /\ StoreOK' /\ Grows
        /\ \A d \in Call \ {c} : Inserting(call[d]) => assets'[call[d].key] = assets[call[d].key]
    BY <1>0, <1>2, PublishHolds, Zenon
  <2> QED
    BY <1>0, <1>1, <2>1, AnswerStep, Zenon DEF Codes
<1>3. CASE UNCHANGED assets
  BY <1>0, <1>1, <1>3, ReturnStep, Zenon DEF Codes, Quiet
<1> QED
  BY <1>0, <1>2, <1>3, Zenon

------------------------------------------------------------------------------
(* The directory, messages, and everybody else *)

\* Link stores only what the row declares.
LEMMA LinkInd == ASSUME IndInv, NEW c \in Call, Link(c) PROVE IndInv'
<1> DEFINE x == call[c]
           k == x.key
<1>0. /\ x.pc = "link" /\ CallOK(x) /\ x \in CallState /\ StoreOK /\ now \in Nat
      /\ UNCHANGED <<assets, synced, sent, access, revoking, now>>
      /\ faults' = faults /\ faults' \in 0 .. MaxFaults
  BY Knowing, Zenon DEF IndInv, Link, World
<1>1. /\ x.op = "complete" /\ k \in Key /\ x.content = assets[k].content /\ assets[k] # NoAsset
  BY <1>0, Zenon DEF CallOK, Shape, Uploads, Upload
<1>2. CASE entries[k] # None /\ Goto(c, "verify") /\ UNCHANGED entries
  BY <1>0, <1>1, <1>2, GotoStep, Zenon DEF Place, Row, Upload, Locked, Quiet
<1>3. CASE entries[k] = None /\ Goto(c, "sync") /\ entries' = [entries EXCEPT ![k] = x.content]
  <2>1. x.content \in Content /\ x.content # None
    <3>1. AssetOK(k)
      BY <1>1, Knowing, Zenon
    <3> QED
      BY <1>1, <3>1, MediaAssumption DEF AssetOK
  <2>2. /\ entries' \in [Key -> Content \cup {None}] /\ entries'[k] = x.content
        /\ \A l \in Key : l # k => entries'[l] = entries[l]
    BY <1>0, <1>1, <1>3, <2>1, Zenon DEF StoreOK
  <2>3. \A l \in Key : AssetOK(l)'
    <3> SUFFICES ASSUME NEW l \in Key PROVE AssetOK(l)'
      BY Zenon
    <3>1. AssetOK(l)
      BY Knowing, Zenon
    <3> QED
      BY <1>0, <1>1, <2>2, <3>1, Zenon DEF AssetOK
  <2>4. synced' \subseteq {l \in Key : entries'[l] # None}
    BY <1>0, <2>1, <2>2, Zenon DEF StoreOK
  <2>5. StoreOK'
    BY <1>0, <2>2, <2>3, <2>4, Zenon DEF StoreOK
  <2>6. Grows
    BY <1>0, <2>1, <2>2 DEF Grows
  <2>7. PICK y : y = [x EXCEPT !.pc = "sync"]
    BY Zenon
  <2>8. /\ y \in CallState /\ y.pc = "sync" /\ y.op = x.op /\ y.id = x.id /\ y.key = x.key
        /\ y.content = x.content /\ y.seen = x.seen /\ y.at = x.at /\ y.tries = x.tries
        /\ y.answer = x.answer
    <3>1. "sync" \in Place
      BY Zenon DEF Place, Upload
    <3> QED
      BY <1>0, <2>7, <3>1, GotoFields
  <2>9. Shape(y)'
    BY <1>0, <1>1, <2>8, Zenon DEF CallOK, Shape, Row, Upload
  <2>10. Live(y)' /\ ~Inserting(y) /\ ~Inserting(y)' /\ Right(y)' /\ ~Promised(y)'
    BY <1>0, <1>1, <2>8, Zenon DEF CallOK, Shape, Live, Locked, Inserting, Right, Promised
  <2>11. Uploads(y)'
    BY <1>0, <1>1, <2>1, <2>2, <2>8, Zenon DEF CallOK, Uploads, Row, Upload
  <2>12. CallOK(y)'
    BY <2>9, <2>10, <2>11, Zenon DEF CallOK
  <2>13. call' = [call EXCEPT ![c] = y]
    BY <1>3, <2>7, Zenon DEF Goto, Set
  <2> QED
    BY <1>0, <2>5, <2>6, <2>10, <2>12, <2>13, CallStep, Zenon
<1> QED
  BY <1>2, <1>3, Zenon DEF Link

\* After syncRoot the object of the upload is durable.
LEMMA SyncInd == ASSUME IndInv, NEW c \in Call, SyncRoot(c) PROVE IndInv'
<1> DEFINE x == call[c]
           k == x.key
<1>0. /\ x.pc = "sync" /\ CallOK(x) /\ x \in CallState /\ StoreOK /\ now \in Nat
      /\ UNCHANGED <<assets, entries, sent, access, revoking, now>>
      /\ faults' = faults /\ faults' \in 0 .. MaxFaults
      /\ synced' = {l \in Key : entries[l] # None}
  BY Knowing, Zenon DEF IndInv, SyncRoot, World
<1>1. /\ x.op = "complete" /\ k \in Key /\ entries[k] # None /\ x.seen # "none" /\ x.seen \in States
      /\ x.seen = "ready" => assets[k].state = "ready"
  BY <1>0, Zenon DEF CallOK, Shape, Uploads, Upload, CallState
<1>2. synced \subseteq synced' /\ k \in synced'
  BY <1>0, <1>1, Zenon DEF StoreOK
<1>3. Grows
  BY <1>0, <1>2 DEF Grows
<1>4. \A l \in Key : AssetOK(l)'
  BY <1>0, <1>2, Zenon DEF AssetOK, StoreOK
<1>5. StoreOK'
  BY <1>0, <1>4, Zenon DEF StoreOK
<1>6. CASE x.seen = "ready" /\ Return(c, "MEDIA_OK")
  BY <1>0, <1>1, <1>3, <1>5, <1>6, AnswerStep, Zenon DEF Codes, Harmless, Fair
<1>7. CASE x.seen # "ready" /\ Goto(c, "snapshot")
  <2>7. PICK y : y = [x EXCEPT !.pc = "snapshot"]
    BY Zenon
  <2>8. /\ y \in CallState /\ y.pc = "snapshot" /\ y.op = x.op /\ y.id = x.id /\ y.key = x.key
        /\ y.content = x.content /\ y.seen = x.seen /\ y.at = x.at /\ y.tries = x.tries
        /\ y.answer = x.answer
    <3>1. "snapshot" \in Place
      BY DEF Place, Row
    <3> QED
      BY <1>0, <2>7, <3>1, GotoFields
  <2>9. Shape(y)'
    BY <1>0, <1>1, <2>8, Zenon DEF CallOK, Shape, Row, Upload
  <2>10. Live(y)' /\ ~Inserting(y) /\ ~Inserting(y)' /\ Right(y)' /\ ~Promised(y)'
    BY <1>0, <1>1, <2>8, Zenon DEF CallOK, Shape, Live, Locked, Inserting, Right, Promised
  <2>11. Uploads(y)'
    BY <1>0, <1>1, <1>2, <1>7, <2>8, Zenon DEF CallOK, Uploads, Row, Upload, States
  <2>12. CallOK(y)'
    BY <2>9, <2>10, <2>11, Zenon DEF CallOK
  <2>13. call' = [call EXCEPT ![c] = y]
    BY <1>7, <2>7, Zenon DEF Goto, Set
  <2> QED
    BY <1>0, <1>3, <1>5, <2>10, <2>12, <2>13, CallStep, Zenon
<1> QED
  BY <1>6, <1>7, Zenon DEF SyncRoot, AfterPut

\* The asset that a stored message refers to is ready.
LEMMA PersistInd == ASSUME IndInv, NEW c \in Call, PersistMessage(c) PROVE IndInv'
<1> DEFINE x == call[c]
<1>0. /\ x.pc = "persist" /\ CallOK(x) /\ StoreOK /\ now \in Nat /\ Return(c, "MEDIA_OK")
      /\ UNCHANGED <<assets, entries, synced, access, revoking, now>>
      /\ faults' = faults /\ faults' \in 0 .. MaxFaults
      /\ sent' = sent \cup {x.key}
  BY Knowing, Zenon DEF IndInv, PersistMessage, disk, World
<1>1. x.op = "send" /\ x.key \in Key /\ assets[x.key].state = "ready"
  BY <1>0, Zenon DEF CallOK, Shape, Promised
<1>2. Grows
  BY <1>0 DEF Grows
<1>3. sent' \subseteq Key /\ \A k \in sent' : assets'[k].state = "ready"
  BY <1>0, <1>1, Zenon DEF StoreOK
<1>4. StoreOK'
  BY <1>0, <1>3, Zenon DEF StoreOK, AssetOK
<1> QED
  BY <1>0, <1>1, <1>2, <1>4, AnswerStep, Zenon DEF Codes, Harmless, Fair

\* The world moves on, and no call does anything.
LEMMA WorldStep ==
  ASSUME IndInv, UNCHANGED <<assets, entries, synced, sent, call, faults>>,
         access' \in [Identity -> Access], revoking' \in Identity \cup {None}, now' \in 1 .. MaxTime, now <= now',
         \A c \in Call : call[c].pc \in Locked => access'[call[c].id].session /\ revoking' # call[c].id
  PROVE  IndInv'
<1>1. StoreOK'
  BY Zenon DEF IndInv, StoreOK, AssetOK
<1>2. now \in Nat /\ now' \in Nat
  BY MediaAssumption DEF IndInv, StoreOK
<1>3. Grows
  BY <1>2, Zenon DEF Grows
<1>4. ASSUME NEW c \in Call PROVE CallOK(call[c])'
  <2>1. PICK x : x = call[c]
    BY Zenon
  <2>2. CallOK(x) /\ x = call'[c]
    BY <2>1, Zenon DEF IndInv
  <2>3. Live(x)'
    BY <2>1, Zenon DEF Live
  <2>4. CallOK(x)'
    BY <1>3, <2>2, <2>3, Knows, Zenon
  <2> QED
    BY <2>2, <2>4, Zenon
<1>5. Unique'
  BY Zenon DEF IndInv, Unique, Inserting
<1> QED
  BY <1>1, <1>4, <1>5, Zenon DEF IndInv

\* A revocation waits for the session rows that are locked,
LEMMA RevokeLockInd == ASSUME IndInv, NEW i \in Identity, RevokeLock(i) PROVE IndInv'
<1>1. /\ UNCHANGED <<assets, entries, synced, sent, call, faults, access, now>> /\ revoking' = i
      /\ \A c \in Call : ~(call[c].id = i /\ call[c].pc \in Locked)
  BY Zenon DEF RevokeLock, disk
<1>2. access \in [Identity -> Access] /\ now \in 1 .. MaxTime /\ now <= now
  BY MediaAssumption DEF IndInv, StoreOK
<1>3. \A c \in Call : call[c].pc \in Locked => access[call[c].id].session
  BY Zenon DEF IndInv, CallOK, Live
<1> QED
  BY <1>1, <1>2, <1>3, WorldStep, Zenon

\* and ends the session while nobody holds its row.
LEMMA RevokeCommitInd == ASSUME IndInv, RevokeCommit PROVE IndInv'
<1>0. /\ UNCHANGED <<assets, entries, synced, sent, call, faults, now>> /\ revoking' = None
      /\ revoking \in Identity /\ access \in [Identity -> Access] /\ now \in 1 .. MaxTime /\ now <= now
  BY MediaAssumption DEF RevokeCommit, disk, IndInv, StoreOK
<1>1. PICK s \in BOOLEAN : access' = [access EXCEPT ![revoking].token = FALSE, ![revoking].session = s /\ @]
  BY Zenon DEF RevokeCommit
<1>2. access' \in [Identity -> Access] /\ \A i \in Identity : i # revoking => access'[i] = access[i]
  BY <1>0, <1>1, Zenon DEF Access
<1>3. ASSUME NEW c \in Call, call[c].pc \in Locked
      PROVE  access'[call[c].id].session /\ revoking' # call[c].id
  <2>1. /\ call[c].id \in Identity /\ revoking # call[c].id /\ access[call[c].id].session
    BY <1>3, Zenon DEF IndInv, CallOK, Shape, Live, Locked
  <2> QED
    BY <1>0, <1>2, <2>1, MediaAssumption, Zenon
<1> QED
  BY <1>0, <1>2, <1>3, WorldStep, Zenon

\* A member leaves.
LEMMA RemoveMemberInd == ASSUME IndInv, NEW i \in Identity, RemoveMember(i) PROVE IndInv'
<1>0. /\ UNCHANGED <<assets, entries, synced, sent, call, faults, revoking, now>>
      /\ access' = [access EXCEPT ![i].member = FALSE]
      /\ revoking \in Identity \cup {None} /\ access \in [Identity -> Access] /\ now \in 1 .. MaxTime /\ now <= now
  BY MediaAssumption DEF RemoveMember, disk, IndInv, StoreOK
<1>1. access' \in [Identity -> Access] /\ \A j \in Identity : access'[j].session = access[j].session
  BY <1>0, Zenon DEF Access
<1>2. ASSUME NEW c \in Call, call[c].pc \in Locked
      PROVE  access'[call[c].id].session /\ revoking' # call[c].id
  <2>1. /\ call[c].id \in Identity /\ revoking # call[c].id /\ access[call[c].id].session
    BY <1>2, Zenon DEF IndInv, CallOK, Shape, Live, Locked
  <2> QED
    BY <1>0, <1>1, <2>1
<1> QED
  BY <1>0, <1>1, <1>2, WorldStep, Zenon

\* The clock.
LEMMA TickInd == ASSUME IndInv, Tick PROVE IndInv'
<1>1. /\ UNCHANGED <<assets, entries, synced, sent, call, faults, access, revoking>>
      /\ now' \in 1 .. MaxTime /\ now <= now'
      /\ access \in [Identity -> Access] /\ revoking \in Identity \cup {None}
  BY MediaAssumption DEF Tick, disk, IndInv, StoreOK
<1>2. \A c \in Call : call[c].pc \in Locked => access[call[c].id].session /\ revoking # call[c].id
  BY Zenon DEF IndInv, CallOK, Live
<1> QED
  BY <1>1, <1>2, WorldStep, Zenon

\* A crash ends the calls, except commits under way, and takes objects that nobody relies on.
LEMMA CrashInd == ASSUME IndInv, Crash PROVE IndInv'
<1>0. /\ UNCHANGED <<assets, synced, sent, access, revoking, now>> /\ faults' \in 0 .. MaxFaults
      /\ StoreOK /\ call \in [Call -> CallState] /\ \A c \in Call : CallOK(call[c])
      /\ call' = [c \in Call |-> IF call[c].pc = "unknown" THEN call[c] ELSE NoCall]
  BY MediaAssumption DEF Crash, Fault, IndInv, StoreOK, World
<1>1. PICK lost \in SUBSET (Key \ synced) : entries' = [k \in Key |-> IF k \in lost THEN None ELSE entries[k]]
  BY Zenon DEF Crash
<1>2. /\ entries' \in [Key -> Content \cup {None}]
      /\ \A k \in Key : entries'[k] = entries[k] \/ (k \notin synced /\ entries'[k] = None)
  BY <1>0, <1>1, Zenon DEF StoreOK
<1>3. StoreOK'
  <2>1. \A k \in Key : AssetOK(k)'
    BY <1>0, <1>2, Zenon DEF StoreOK, AssetOK
  <2>2. synced' \subseteq {k \in Key : entries'[k] # None}
    BY <1>0, <1>2, Zenon DEF StoreOK
  <2> QED
    BY <1>0, <1>2, <2>1, <2>2, Zenon DEF StoreOK
<1>4. call' \in [Call -> CallState]
  BY <1>0, NothingKnown, Zenon
<1>5. ASSUME NEW c \in Call PROVE CallOK(call[c])'
  <2>1. PICK x : x = call'[c]
    BY Zenon
  <2>2. CASE call[c].pc = "unknown"
    <3>1. x = call[c] /\ CallOK(x) /\ x.pc = "unknown"
      BY <1>0, <2>1, <2>2, Zenon
    <3>2. Shape(x)' /\ Live(x)' /\ Right(x)'
      BY <1>0, <3>1, Zenon DEF CallOK, Shape, Live, Right
    <3>3. Uploads(x)'
      BY <1>0, <3>1, Zenon DEF CallOK, Uploads
    <3>4. CallOK(x)'
      BY <1>0, <3>1, <3>2, <3>3, Zenon DEF CallOK, Inserting, Promised
    <3> QED
      BY <2>1, <3>4, Zenon
  <2>3. CASE call[c].pc # "unknown"
    <3>1. x = NoCall
      BY <1>0, <2>1, <2>3, Zenon
    <3>2. /\ CallOK(x) /\ x.op = "none" /\ x.pc = "idle"
      BY <3>1, NothingKnown, Zenon DEF NoCall
    <3>3. Shape(x)'
      BY <1>0, <3>2, Zenon DEF CallOK, Shape
    <3>4. x.answer = "none"
      BY <3>2, Zenon DEF CallOK, Shape
    <3>5. Live(x)' /\ Uploads(x)' /\ Right(x)' /\ ~Inserting(x)' /\ ~Promised(x)'
      BY <3>2, <3>4, Zenon DEF Live, Locked, Uploads, Right, Inserting, Promised
    <3>6. CallOK(x)'
      BY <3>3, <3>5, Zenon DEF CallOK
    <3> QED
      BY <2>1, <3>6
  <2> QED
    BY <2>2, <2>3, Zenon
<1>6. Unique'
  <2>1. ~Inserting(NoCall)
    BY Zenon DEF Inserting, NoCall
  <2>2. \A c \in Call : call'[c] = call[c] \/ call'[c] = NoCall
    BY <1>0, Zenon
  <2> QED
    BY <2>1, <2>2, Zenon DEF IndInv, Unique, Inserting
<1> QED
  BY <1>3, <1>4, <1>5, <1>6, Zenon DEF IndInv

------------------------------------------------------------------------------
(* The theorems *)

\* At first there is no row, no object and no call.
LEMMA InitInd == Init => IndInv
<1> SUFFICES ASSUME Init PROVE IndInv
  BY Zenon
<1>1. NoAsset \in Asset /\ NoAsset.state = "none"
  BY Zenon DEF NoAsset, Asset, States
<1>2. StoreOK
  <2>1. assets \in [Key -> Asset] /\ entries \in [Key -> Content \cup {None}] /\ access \in [Identity -> Access]
    BY <1>1, Zenon DEF Init, Access
  <2>2. \A k \in Key : AssetOK(k)
    BY <1>1, Zenon DEF Init, AssetOK
  <2>3. now \in 1 .. MaxTime /\ faults \in 0 .. MaxFaults
    BY MediaAssumption DEF Init
  <2> QED
    BY <2>1, <2>2, <2>3, Zenon DEF Init, StoreOK
<1>3. /\ NoCall \in CallState /\ NoCall.op = "none" /\ NoCall.pc = "idle" /\ NoCall.answer = "none"
      /\ NoCall.at = 0 /\ NoCall.tries = 1
  BY Zenon DEF NoCall, CallState, Place, Row, Upload, States, Operation
<1>4. call \in [Call -> CallState] /\ \A c \in Call : call[c] = NoCall
  BY <1>3, Zenon DEF Init
<1>5. CallOK(NoCall) /\ ~Inserting(NoCall)
  <2>1. Shape(NoCall)
    BY <1>3, MediaAssumption DEF Init, Shape, Row, Upload
  <2>2. Live(NoCall) /\ Uploads(NoCall) /\ Right(NoCall) /\ ~Inserting(NoCall) /\ ~Promised(NoCall)
    BY <1>3, Zenon DEF Live, Locked, Uploads, Right, Inserting, Promised
  <2> QED
    BY <2>1, <2>2, Zenon DEF CallOK
<1> QED
  BY <1>2, <1>4, <1>5, Zenon DEF IndInv, Unique

\* Every step of a call preserves the invariant.
LEMMA StepInd == ASSUME IndInv, NEW c \in Call, Step(c) PROVE IndInv'
  BY StartInd, SnapshotInd, LockInd, InsertInd, UpdateReadyInd, CommitInd, CommitUnknownInd, SettleInd,
     LoadGrantInd, AuthorizeUploadInd, PutInd, CopyInd, LinkInd, VerifyInd, SyncInd, ValidateInd, PersistInd,
     LoadReadyInd, AuthorizeDownloadInd, FailInd, ForgetInd, Zenon DEF Step

\* So does every other step.
LEMMA NextInd == IndInv /\ [Next]_vars => IndInv'
<1> SUFFICES ASSUME IndInv, [Next]_vars PROVE IndInv'
  BY Zenon
<1>1. CASE UNCHANGED vars
  <2>1. /\ UNCHANGED <<assets, entries, synced, sent, call, faults, access, revoking, now>>
        /\ access \in [Identity -> Access] /\ revoking \in Identity \cup {None}
        /\ now \in 1 .. MaxTime /\ now <= now
    BY <1>1, MediaAssumption DEF vars, disk, IndInv, StoreOK
  <2>2. \A c \in Call : call[c].pc \in Locked => access[call[c].id].session /\ revoking # call[c].id
    BY Zenon DEF IndInv, CallOK, Live
  <2> QED
    BY <2>1, <2>2, WorldStep, Zenon
<1> QED
  BY <1>1, StepInd, RevokeLockInd, RemoveMemberInd, RevokeCommitInd, CrashInd, TickInd, Zenon DEF Next

\* The induction: what each call has learned on its way stays true.
THEOREM Inductive == Spec => []IndInv
  BY InitInd, NextInd, PTL DEF Spec

\* A ready row has a durable object of its content, every answer and every stored message that
\* promises an asset is about a ready row, and an owner who sends the declared content is refused
\* only for a lost right, an expired grant or a failure within this very call: for any number of
\* calls, keys, identities and faults (CompleteUpload, PutImmutable, verifyExisting).
THEOREM MediaPromisesKept == Spec => []MediaInv
<1>1. IndInv => MediaInv
  <2> SUFFICES ASSUME IndInv PROVE MediaInv
    BY Zenon
  <2>0. StoreOK /\ \A c \in Call : CallOK(call[c])
    BY Zenon DEF IndInv
  <2>1. TypeOK
    <3>1. \A k \in Key : /\ assets[k] # NoAsset => assets[k].owner \in Identity /\ assets[k].content \in Content
                         /\ assets[k].state \in {"none", "pending", "ready"}
                         /\ entries[k] \in Content \cup {None}
      <4>1. \A k \in Key : assets[k] \in Asset /\ AssetOK(k) /\ entries[k] \in Content \cup {None}
        BY <2>0, Zenon DEF StoreOK
      <4> QED
        BY <4>1, Zenon DEF AssetOK, Asset, States
    <3>2. \A c \in Call : call[c].at <= now /\ call[c].tries <= MaxGrantAttempts
      BY <2>0, Zenon DEF CallOK, Shape
    <3> QED
      BY <2>0, <3>1, <3>2, Zenon DEF StoreOK, TypeOK
  <2>2. ReadyDurable
    <3> SUFFICES ASSUME NEW k \in Key, assets[k].state = "ready"
                 PROVE  /\ entries[k] = assets[k].content /\ k \in synced
                        /\ assets[k].completed < assets[k].expires
      BY Zenon DEF ReadyDurable
    <3> QED
      BY <2>0, Zenon DEF StoreOK, AssetOK
  <2>3. PromisesReady
    BY <2>0 DEF StoreOK, CallOK, Promised, PromisesReady
  <2>4. RightContentAccepted
    BY <2>0, Zenon DEF CallOK, Right, Fair, Harmless, RightContentAccepted, Matches
  <2> QED
    BY <2>1, <2>2, <2>3, <2>4, Zenon DEF MediaInv
<1> QED
  BY <1>1, Inductive, PTL

\* Whoever revokes a session waits for the commit that has locked it, and no commit comes after:
\* a grant is created or completed only for a session that is alive at that moment.
THEOREM SessionAlive == Spec => SessionLiveAtCommit
<1> DEFINE A == \A k \in Key : assets'[k] # assets[k] => access[assets'[k].owner].session
<1>1. IndInv /\ [Next]_vars => A
  <2> SUFFICES ASSUME IndInv, [Next]_vars, NEW k \in Key, assets'[k] # assets[k]
               PROVE  access[assets'[k].owner].session
    OBVIOUS
  <2>1. PICK c \in Call : call[c].pc \in {"commit", "unknown"} /\ Publish(c)
    <3>1. (~\E c \in Call : Commit(c) \/ Settle(c)) => assets' = assets
      BY Zenon DEF Next, Step, Start, Snapshot, LockSession, InsertPending, UpdateReady, CommitUnknown, LoadGrant,
             AuthorizeUpload, PutImmutable, CopyTemp, Link, Verify, SyncRoot, ValidateForSend, PersistMessage,
             LoadReadyAsset, AuthorizeDownload, Fail, Forget, RevokeLock, RevokeCommit, RemoveMember, Crash,
             Tick, vars
    <3> QED
      BY <3>1, Zenon DEF Commit, Settle
  <2> QED
    BY <2>1, Published
<1> QED
  BY <1>1, Inductive, PTL DEF Spec, SessionLiveAtCommit
==============================================================================
