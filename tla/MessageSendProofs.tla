-------------------------- MODULE MessageSendProofs --------------------------
(***************************************************************************)
(* Proofs about the durable send and about its readers, for any number of  *)
(* requests, conversations and clients.                                    *)
(*                                                                         *)
(* The argument: an open transaction has the lock of its conversation      *)
(* (LockOK), so the row it has inserted still is the next one of the       *)
(* conversation when it commits (InsertedOK), and the unique indexes keep  *)
(* the inserted rows of different transactions apart (ApartInv). Every     *)
(* statement of a transaction preserves this, and so does its end.         *)
(*                                                                         *)
(* The readers come last: a page is a segment of a conversation without    *)
(* gaps, so what a client has got is the part of the conversation up to    *)
(* its position.                                                           *)
(***************************************************************************)
EXTENDS MessageRead, FiniteSetTheorems, TLAPS

\* Where a transaction has locked its conversation.
Locking == {"member", "load", "prepare", "persist", "allocate", "insert", "compare", "commit", "unknown"}

\* A request that has locked its conversation still has the lock.
LockOK(r) ==
  /\ pc[r] \notin {"new", "done"} => intent[r] \in Intent
  /\ pc[r] \in Locking \/ inserted[r] =>
       intent[r] \in Intent /\ intent[r].conv \in Known /\ lock[intent[r].conv] = r

\* What a request has read or allocated, and where its sender was seen to be a member.
ProgressOK(r) ==
  /\ pc[r] \in {"persist", "allocate", "insert"} => id[r] \in ServerId
  /\ pc[r] = "insert" => lastSeq[intent[r].conv] < MaxSeq
  /\ pc[r] \in Locking \ {"member"} => <<intent[r].conv, intent[r].sender>> \in members

\* The row of a transaction that has inserted one: the next of its conversation.
InsertedOK(r) ==
  inserted[r] =>
    /\ pc[r] \in {"compare", "commit", "unknown", "aborting"}
    /\ row[r] \in Row /\ SameKey(row[r], intent[r]) /\ SameIntent(row[r], intent[r])
    /\ row[r].seq = lastSeq[row[r].conv] + 1
    /\ \A m \in messages : ~SameKey(m, row[r]) /\ m.server # row[r].server

\* The row a request has found or inserted.
ResultOK(r) ==
  /\ pc[r] \in {"compare", "commit", "unknown"} =>
       /\ inserted[r] \/ row[r] \in messages
       /\ row[r] \in Row /\ SameKey(row[r], intent[r])
  /\ pc[r] \in {"commit", "unknown"} => SameIntent(row[r], intent[r])

\* What the caller was told.
AnswerOK(r) ==
  /\ answer[r] # "none" => pc[r] \in {"unknown", "aborting", "done"}
  /\ pc[r] = "unknown" => answer[r] = Temporary
  /\ pc[r] = "aborting" => answer[r] \in {Temporary, "SEND_UNKNOWN"}
  /\ answer[r] = "SERVER_PERSISTED" =>
       row[r] \in messages /\ SameKey(row[r], intent[r]) /\ SameIntent(row[r], intent[r])
  /\ answer[r] = "SEND_ID_CONFLICT" =>
       \E m \in messages : SameKey(m, intent[r]) /\ ~SameIntent(m, intent[r])

RequestInv(r) == LockOK(r) /\ ProgressOK(r) /\ InsertedOK(r) /\ ResultOK(r) /\ AnswerOK(r)

\* The unique indexes: two open transactions have not inserted the same key or the same id.
ApartInv ==
  \A r, q \in Request :
    r # q /\ inserted[r] /\ inserted[q] => ~SameKey(row[r], row[q]) /\ row[r].server # row[q].server

SendInv ==
  /\ TypeOK /\ SequenceGapless /\ OneMessagePerIntent
  /\ ApartInv
  /\ \A r \in Request : RequestInv(r)

\* Nothing is stored, and no request has begun.
LEMMA InitSend == Init => SendInv
<1> SUFFICES ASSUME Init PROVE SendInv
  OBVIOUS
<1>1. TypeOK
  BY SendAssumption DEF Init, TypeOK, Answer
<1>2. SequenceGapless /\ OneMessagePerIntent
  BY SendAssumption DEF Init, SequenceGapless, OneMessagePerIntent
<1>3. ApartInv
  BY DEF Init, ApartInv
<1>4. ASSUME NEW r \in Request PROVE RequestInv(r)
  <2>1. pc[r] = "new" /\ inserted[r] = FALSE /\ answer[r] = "none"
    BY DEF Init
  <2> QED
    BY <2>1 DEF RequestInv, LockOK, ProgressOK, InsertedOK, ResultOK, AnswerOK, Locking
<1> QED
  BY <1>1, <1>2, <1>3, <1>4 DEF SendInv

------------------------------------------------------------------------------
(* Frames *)

\* A step of r leaves the other requests and their locks alone.
Own(r) ==
  /\ \A q \in Request \ {r} :
       /\ pc'[q] = pc[q] /\ intent'[q] = intent[q] /\ id'[q] = id[q] /\ row'[q] = row[q]
       /\ inserted'[q] = inserted[q] /\ answer'[q] = answer[q]
  /\ \A c \in Known : lock[c] \in Request \ {r} => lock'[c] = lock[c]
  /\ members' = members

\* What holds of another request is about its own rows, its lock and what is committed.
LEMMA OthersKeep ==
  ASSUME SendInv, NEW r \in Request, Own(r), UNCHANGED table, NEW q \in Request \ {r}
  PROVE  RequestInv(q)'
<1>1. RequestInv(q)
  BY DEF SendInv
<1>2. /\ pc'[q] = pc[q] /\ intent'[q] = intent[q] /\ id'[q] = id[q] /\ row'[q] = row[q]
      /\ inserted'[q] = inserted[q] /\ answer'[q] = answer[q] /\ members' = members
      /\ messages' = messages /\ lastSeq' = lastSeq
      /\ \A c \in Known : lock[c] = q => lock'[c] = q
  BY DEF Own, table
<1>3. LockOK(q)'
  BY <1>1, <1>2 DEF RequestInv, LockOK
<1>4. ProgressOK(q)'
  BY <1>1, <1>2, Zenon DEF RequestInv, ProgressOK
<1>5. InsertedOK(q)'
  BY <1>1, <1>2 DEF RequestInv, InsertedOK, SameKey, SameIntent
<1>6. ResultOK(q)'
  BY <1>1, <1>2, Zenon DEF RequestInv, ResultOK, SameKey, SameIntent
<1>7. AnswerOK(q)'
  BY <1>1, <1>2 DEF RequestInv, AnswerOK, SameKey, SameIntent
<1> QED
  BY <1>3, <1>4, <1>5, <1>6, <1>7 DEF RequestInv

\* A step that commits nothing need only look at its own request.
LEMMA QuietPreserves ==
  ASSUME SendInv, NEW r \in Request, Own(r), UNCHANGED table, TypeOK', RequestInv(r)',
         \A q \in Request \ {r} : inserted'[r] /\ inserted[q] =>
           ~SameKey(row'[r], row[q]) /\ row'[r].server # row[q].server
  PROVE  SendInv'
<1>1. SequenceGapless' /\ OneMessagePerIntent'
  BY DEF SendInv, SequenceGapless, OneMessagePerIntent, SameKey, table
<1>2. \A q \in Request : RequestInv(q)'
  BY OthersKeep
<1>3. ApartInv'
  <2> SUFFICES ASSUME NEW p \in Request, NEW q \in Request, p # q, inserted'[p], inserted'[q]
               PROVE  ~SameKey(row'[p], row'[q]) /\ row'[p].server # row'[q].server
    BY DEF ApartInv, SameKey
  <2>1. CASE p = r
    BY <2>1 DEF Own
  <2>2. CASE q = r
    BY <2>2 DEF Own, SameKey
  <2>3. CASE p # r /\ q # r
    BY <2>3 DEF Own, SendInv, ApartInv
  <2> QED
    BY <2>1, <2>2, <2>3
<1> QED
  BY <1>1, <1>2, <1>3 DEF SendInv

\* The end of a transaction.
LEMMA Closed ==
  ASSUME SendInv, NEW r \in Request, NEW kept \in Row \cup {NoRow}, Close(r, kept)
  PROVE  /\ pc'[r] = "done" /\ inserted'[r] = FALSE /\ row'[r] = kept /\ intent' = intent
         /\ \A q \in Request \ {r} :
              /\ pc'[q] = pc[q] /\ intent'[q] = intent[q] /\ id'[q] = id[q] /\ row'[q] = row[q]
              /\ inserted'[q] = inserted[q]
         /\ \A c \in Known : lock[c] \in Request \ {r} => lock'[c] = lock[c]
         /\ members' = members
         /\ pc' \in [Request -> Running \cup {"new", "aborting", "unknown", "done"}]
         /\ id' \in [Request -> ServerId \cup {NoId}] /\ row' \in [Request -> Row \cup {NoRow}]
         /\ inserted' \in [Request -> BOOLEAN] /\ lock' \in [Known -> Request \cup {NoRequest}]
<1>1. TypeOK
  BY DEF SendInv
<1>2. /\ pc' = [pc EXCEPT ![r] = "done"] /\ inserted' = [inserted EXCEPT ![r] = FALSE]
      /\ id' = [id EXCEPT ![r] = NoId] /\ row' = [row EXCEPT ![r] = kept]
      /\ members' = members /\ intent' = intent
      /\ lock' = [c \in Known |-> IF lock[c] = r THEN NoRequest ELSE lock[c]]
  BY DEF Close, Step, Release
<1>3. /\ pc'[r] = "done" /\ row'[r] = kept
      /\ \A q \in Request \ {r} : pc'[q] = pc[q] /\ intent'[q] = intent[q] /\ id'[q] = id[q] /\ row'[q] = row[q]
      /\ pc' \in [Request -> Running \cup {"new", "aborting", "unknown", "done"}]
      /\ id' \in [Request -> ServerId \cup {NoId}] /\ row' \in [Request -> Row \cup {NoRow}]
  BY <1>1, <1>2 DEF TypeOK
<1>4. /\ inserted'[r] = FALSE /\ inserted' \in [Request -> BOOLEAN]
      /\ \A q \in Request \ {r} : inserted'[q] = inserted[q]
  BY <1>1, <1>2, Zenon DEF TypeOK
<1>5. /\ lock' \in [Known -> Request \cup {NoRequest}]
      /\ \A c \in Known : lock[c] \in Request \ {r} => lock'[c] = lock[c]
  BY <1>1, <1>2 DEF TypeOK
<1> QED
  BY <1>2, <1>3, <1>4, <1>5

\* The answer of one request.
LEMMA Answered ==
  ASSUME SendInv, NEW r \in Request, NEW code \in Answer, answer' = [answer EXCEPT ![r] = code]
  PROVE  answer' \in [Request -> Answer] /\ answer'[r] = code /\ \A q \in Request \ {r} : answer'[q] = answer[q]
  BY DEF SendInv, TypeOK

\* Codes of Send are answers once they are mapped.
LEMMA MappedCodes ==
  \A code \in Final \cup RetrySameIntent :
    MapSendError(code) \in Answer /\ (code \in Final => MapSendError(code) = code)
  BY Zenon DEF Final, RetrySameIntent, MapSendError, Answer

\* A transaction that ends without storing anything.
LEMMA ClosePreserves ==
  ASSUME SendInv, NEW r \in Request, NEW kept \in Row \cup {NoRow}, Close(r, kept), UNCHANGED table,
         answer' \in [Request -> Answer], \A q \in Request \ {r} : answer'[q] = answer[q],
         answer'[r] = "SERVER_PERSISTED" =>
           kept \in messages /\ SameKey(kept, intent[r]) /\ SameIntent(kept, intent[r]),
         answer'[r] = "SEND_ID_CONFLICT" =>
           \E m \in messages : SameKey(m, intent[r]) /\ ~SameIntent(m, intent[r])
  PROVE  SendInv'
<1>1. /\ pc'[r] = "done" /\ inserted'[r] = FALSE /\ row'[r] = kept /\ intent' = intent /\ messages' = messages
  BY Closed, Zenon DEF table
<1>2. Own(r)
  BY Closed, ZenonT(30) DEF Own
<1>3. TypeOK'
  BY Closed, Zenon DEF SendInv, TypeOK, table
<1>4. RequestInv(r)'
  <2>1. LockOK(r)' /\ ProgressOK(r)' /\ InsertedOK(r)' /\ ResultOK(r)'
    BY <1>1, Zenon DEF LockOK, ProgressOK, InsertedOK, ResultOK, Locking
  <2>2. AnswerOK(r)'
    BY <1>1, Zenon DEF AnswerOK, SameKey, SameIntent
  <2> QED
    BY <2>1, <2>2 DEF RequestInv
<1> QED
  BY <1>1, <1>2, <1>3, <1>4, QuietPreserves

\* Refusals: a conflict is refused only when the row that was found is committed.
LEMMA RefusePreserves ==
  ASSUME SendInv, NEW r \in Request, NEW code \in Final \cup RetrySameIntent, Refuse(r, code),
         code = "SEND_ID_CONFLICT" => \E m \in messages : SameKey(m, intent[r]) /\ ~SameIntent(m, intent[r])
  PROVE  SendInv'
<1>1. Close(r, NoRow) /\ UNCHANGED table /\ answer' = [answer EXCEPT ![r] = MapSendError(code)]
  BY DEF Refuse
<1>2. MapSendError(code) \in Answer
  BY MappedCodes
<1>3. /\ MapSendError(code) # "SERVER_PERSISTED"
      /\ MapSendError(code) = "SEND_ID_CONFLICT" => code = "SEND_ID_CONFLICT"
  BY DEF MapSendError, Final, RetrySameIntent, Temporary
<1>4. /\ answer' \in [Request -> Answer] /\ answer'[r] = MapSendError(code)
      /\ \A q \in Request \ {r} : answer'[q] = answer[q]
  BY <1>1, <1>2, Answered, Zenon
<1> QED
  BY <1>1, <1>3, <1>4, ClosePreserves, Zenon
------------------------------------------------------------------------------
(* The statements of a transaction *)

Place == Running \cup {"new", "aborting", "unknown", "done"}

\* A request goes on.
LEMMA Stepped ==
  ASSUME SendInv, NEW r \in Request, NEW next \in Place, Step(r, next)
  PROVE  pc' \in [Request -> Place] /\ pc'[r] = next /\ \A q \in Request \ {r} : pc'[q] = pc[q]
  BY DEF SendInv, TypeOK, Step, Place

\* A statement that only reads.
LEMMA GoOnPreserves ==
  ASSUME SendInv, NEW r \in Request, NEW next \in Place, GoOn(r, next), RequestInv(r)'
  PROVE  SendInv'
<1>1. /\ Step(r, next) /\ UNCHANGED table /\ members' = members /\ lock' = lock /\ intent' = intent
      /\ id' = id /\ row' = row /\ inserted' = inserted /\ answer' = answer
  BY DEF GoOn
<1>2. Own(r)
  BY <1>1, Stepped DEF Own
<1>3. TypeOK'
  BY <1>1, Stepped, Zenon DEF SendInv, TypeOK, table, Place
<1>4. \A q \in Request \ {r} : inserted'[r] /\ inserted[q] =>
        ~SameKey(row'[r], row[q]) /\ row'[r].server # row[q].server
  BY <1>1, Zenon DEF SendInv, ApartInv
<1> QED
  BY <1>1, <1>2, <1>3, <1>4, QuietPreserves, Zenon

\* What GoOn leaves of the request.
LEMMA GoneOn ==
  ASSUME SendInv, NEW r \in Request, NEW next \in Place, GoOn(r, next)
  PROVE  /\ pc'[r] = next /\ intent'[r] = intent[r] /\ id'[r] = id[r] /\ row'[r] = row[r]
         /\ inserted'[r] = inserted[r] /\ answer'[r] = answer[r] /\ lock' = lock /\ members' = members
         /\ messages' = messages /\ lastSeq' = lastSeq
  BY Stepped DEF GoOn, table

\* From one statement under the lock to the next one.
LEMMA AdvancePreserves ==
  ASSUME SendInv, NEW r \in Request, NEW next \in Locking \ {"unknown", "member"}, GoOn(r, next),
         pc[r] \in Locking \ {"unknown"},
         <<intent[r].conv, intent[r].sender>> \in members,
         next \in {"persist", "allocate", "insert"} => id[r] \in ServerId,
         next = "insert" => lastSeq[intent[r].conv] < MaxSeq,
         inserted[r] => next \in {"compare", "commit"},
         next \in {"compare", "commit"} =>
           /\ inserted[r] \/ row[r] \in messages
           /\ row[r] \in Row /\ SameKey(row[r], intent[r]),
         next = "commit" => SameIntent(row[r], intent[r])
  PROVE  SendInv'
<1>1. next \in Place /\ RequestInv(r)
  BY Zenon DEF Locking, Place, Running, SendInv
<1>2. /\ pc'[r] = next /\ intent'[r] = intent[r] /\ id'[r] = id[r] /\ row'[r] = row[r]
      /\ inserted'[r] = inserted[r] /\ answer'[r] = answer[r] /\ lock' = lock /\ members' = members
      /\ messages' = messages /\ lastSeq' = lastSeq
  BY <1>1, GoneOn, Zenon
<1>3. LockOK(r)'
  BY <1>1, <1>2, Zenon DEF RequestInv, LockOK, Locking
<1>4. ProgressOK(r)'
  BY <1>2, Zenon DEF ProgressOK
<1>5. InsertedOK(r)'
  BY <1>1, <1>2, Zenon DEF RequestInv, InsertedOK, SameKey, SameIntent
<1>6. ResultOK(r)'
  BY <1>2 DEF ResultOK, SameKey, SameIntent, Locking
<1>7. AnswerOK(r)'
  <2>1. answer[r] = "none"
    BY <1>1, Zenon DEF RequestInv, AnswerOK, Locking
  <2> QED
    BY <1>2, <2>1, Zenon DEF AnswerOK, Locking
<1> QED
  BY <1>1, <1>3, <1>4, <1>5, <1>6, <1>7, GoOnPreserves, Zenon DEF RequestInv

\* A statement that finds the committed row of the key.
LEMMA FoundPreserves ==
  ASSUME SendInv, NEW r \in Request, Found(r), pc[r] \in Locking \ {"unknown", "member"}, ~inserted[r]
  PROVE  SendInv'
<1>1. PICK m \in messages :
        /\ SameKey(m, intent[r])
        /\ row' = [row EXCEPT ![r] = m]
        /\ Step(r, "compare")
        /\ UNCHANGED <<table, members, lock, intent, id, inserted, answer>>
  BY Zenon DEF Found
<1>2. m \in Row /\ "compare" \in Place /\ RequestInv(r) /\ row \in [Request -> Row \cup {NoRow}]
  BY DEF SendInv, TypeOK, Place, Running
<1>3. /\ row' \in [Request -> Row \cup {NoRow}] /\ row'[r] = m
      /\ \A q \in Request \ {r} : row'[q] = row[q]
  BY <1>1, <1>2, Zenon
<1>4. /\ pc' \in [Request -> Place] /\ pc'[r] = "compare" /\ \A q \in Request \ {r} : pc'[q] = pc[q]
  BY <1>1, <1>2, Stepped, Zenon
<1>5. /\ UNCHANGED table /\ messages' = messages /\ lastSeq' = lastSeq /\ members' = members /\ lock' = lock
      /\ intent' = intent /\ id' = id /\ inserted' = inserted /\ answer' = answer
  BY <1>1, Zenon DEF table
<1>6. Own(r)
  BY <1>3, <1>4, <1>5, Zenon DEF Own
<1>7. TypeOK'
  BY <1>3, <1>4, <1>5, Zenon DEF SendInv, TypeOK, Place, table
<1>8. RequestInv(r)'
  <2>1. LockOK(r)'
    BY <1>2, <1>4, <1>5, Zenon DEF RequestInv, LockOK
  <2>2. ProgressOK(r)'
    BY <1>2, <1>4, <1>5, Zenon DEF RequestInv, ProgressOK
  <2>3. InsertedOK(r)'
    BY <1>5, Zenon DEF InsertedOK
  <2>4. ResultOK(r)'
    BY <1>1, <1>2, <1>3, <1>4, <1>5, Zenon DEF ResultOK, SameKey
  <2>5. answer[r] = "none"
    BY <1>2, Zenon DEF RequestInv, AnswerOK, Locking
  <2>6. AnswerOK(r)'
    BY <1>4, <1>5, <2>5, Zenon DEF AnswerOK
  <2> QED
    BY <2>1, <2>2, <2>3, <2>4, <2>6, Zenon DEF RequestInv
<1> QED
  BY <1>5, <1>6, <1>7, <1>8, QuietPreserves, Zenon

\* What a request under its lock, before its insert, knows.
LEMMA Underway ==
  ASSUME SendInv, NEW r \in Request, pc[r] \in {"load", "prepare", "persist", "allocate", "insert"}
  PROVE  /\ ~inserted[r] /\ pc[r] \in Locking \ {"unknown", "member"} /\ intent[r] \in Intent
         /\ intent[r].conv \in Known /\ <<intent[r].conv, intent[r].sender>> \in members
         /\ pc[r] \in {"persist", "allocate", "insert"} => id[r] \in ServerId
         /\ pc[r] = "insert" => lastSeq[intent[r].conv] < MaxSeq
<1>1. RequestInv(r)
  BY DEF SendInv
<1>2. ~inserted[r] /\ pc[r] \in Locking \ {"unknown", "member"}
  BY <1>1, Zenon DEF RequestInv, InsertedOK, Locking
<1> QED
  BY <1>1, <1>2 DEF RequestInv, LockOK, ProgressOK

\* The reads of Load, of persist_message and of its second look under the lock.
LEMMA ReadsPreserve ==
  ASSUME SendInv, NEW r \in Request, LoadMessage(r) \/ FirstLook(r) \/ Allocate(r)
  PROVE  SendInv'
<1>1. pc[r] \in {"load", "persist", "allocate"}
  BY DEF LoadMessage, FirstLook, Allocate
<1>2. CASE Found(r)
  BY <1>1, <1>2, Underway, FoundPreserves, Zenon
<1>3. CASE Refuse(r, "SEND_SEQUENCE_EXHAUSTED")
  BY <1>3, RefusePreserves DEF Final
<1>4. ASSUME pc[r] = "load", GoOn(r, "prepare") PROVE SendInv'
  BY <1>4, Underway, AdvancePreserves, Zenon DEF Locking
<1>5. ASSUME pc[r] = "persist", GoOn(r, "allocate") PROVE SendInv'
  BY <1>5, Underway, AdvancePreserves, Zenon DEF Locking
<1>6. ASSUME pc[r] = "allocate", lastSeq[intent[r].conv] < MaxSeq, GoOn(r, "insert") PROVE SendInv'
  BY <1>6, Underway, AdvancePreserves, Zenon DEF Locking
<1> QED
  BY <1>2, <1>3, <1>4, <1>5, <1>6, Zenon DEF LoadMessage, FirstLook, Allocate

\* The ids of a new message.
LEMMA PreparePreserves == ASSUME SendInv, NEW r \in Request, Prepare(r) PROVE SendInv'
<1>1. ASSUME NEW code \in {"SEND_INVALID_INPUT", "SEND_UNAUTHORIZED", "SEND_STORAGE_UNAVAILABLE"}, Refuse(r, code)
      PROVE  SendInv'
  BY <1>1, RefusePreserves, Zenon DEF Final, RetrySameIntent
<1>2. ASSUME NEW x \in ServerId, id' = [id EXCEPT ![r] = x], Step(r, "persist"),
             UNCHANGED <<table, members, lock, intent, row, inserted, answer>>
      PROVE  SendInv'
  <2>1. /\ pc[r] = "prepare" /\ "persist" \in Place /\ ~inserted[r] /\ RequestInv(r)
        /\ id \in [Request -> ServerId \cup {NoId}]
    BY Underway, Zenon DEF Prepare, Place, Running, SendInv, TypeOK
  <2>2. id' \in [Request -> ServerId \cup {NoId}] /\ id'[r] = x /\ \A q \in Request \ {r} : id'[q] = id[q]
    BY <1>2, <2>1, Zenon
  <2>3. /\ pc' \in [Request -> Place] /\ pc'[r] = "persist" /\ \A q \in Request \ {r} : pc'[q] = pc[q]
    BY <1>2, <2>1, Stepped, Zenon
  <2>4. /\ UNCHANGED table /\ messages' = messages /\ lastSeq' = lastSeq /\ members' = members /\ lock' = lock
        /\ intent' = intent /\ row' = row /\ inserted' = inserted /\ answer' = answer
    BY <1>2 DEF table
  <2>5. Own(r)
    BY <2>2, <2>3, <2>4, Zenon DEF Own
  <2>6. TypeOK'
    BY <2>2, <2>3, <2>4, Zenon DEF SendInv, TypeOK, Place, table
  <2>7. RequestInv(r)'
    <3>1. LockOK(r)' /\ ProgressOK(r)'
      BY <2>1, <2>2, <2>3, <2>4, SMTT(30) DEF RequestInv, LockOK, ProgressOK, Locking
    <3>2. InsertedOK(r)' /\ ResultOK(r)'
      BY <2>1, <2>3, <2>4, Zenon DEF InsertedOK, ResultOK
    <3>3. answer[r] = "none"
      BY <2>1 DEF RequestInv, AnswerOK
    <3>4. AnswerOK(r)'
      BY <2>3, <2>4, <3>3, Zenon DEF AnswerOK
    <3> QED
      BY <3>1, <3>2, <3>4, SMTT(30) DEF RequestInv
  <2> QED
    BY <2>1, <2>4, <2>5, <2>6, <2>7, QuietPreserves, Zenon
<1> QED
  BY <1>1, <1>2 DEF Prepare
\* A request that the route turns away never reaches the database.
LEMMA TurnAwayPreserves == ASSUME SendInv, NEW r \in Request, TurnAway(r) PROVE SendInv'
<1>1. PICK code \in Turned : answer' = [answer EXCEPT ![r] = code]
  BY Zenon DEF TurnAway
<1>2. code \in Answer /\ code \notin {"SERVER_PERSISTED", "SEND_ID_CONFLICT", "none"} /\ "done" \in Place
  BY SMTT(30) DEF Turned, Answer, Place
<1>3. RequestInv(r) /\ ~inserted[r]
  BY DEF SendInv, RequestInv, InsertedOK, TurnAway
<1>4. /\ UNCHANGED table /\ messages' = messages /\ lastSeq' = lastSeq /\ members' = members /\ lock' = lock
      /\ intent' = intent /\ id' = id /\ row' = row /\ inserted' = inserted /\ Step(r, "done")
  BY DEF TurnAway, table
<1>5. /\ pc' \in [Request -> Place] /\ pc'[r] = "done" /\ \A q \in Request \ {r} : pc'[q] = pc[q]
  BY <1>2, <1>4, Stepped, Zenon
<1>6. /\ answer' \in [Request -> Answer] /\ answer'[r] = code
      /\ \A q \in Request \ {r} : answer'[q] = answer[q]
  BY <1>1, <1>2, Answered, Zenon
<1>7. Own(r)
  BY <1>4, <1>5, <1>6, Zenon DEF Own
<1>8. TypeOK'
  BY <1>4, <1>5, <1>6 DEF SendInv, TypeOK, Place, table
<1>9. RequestInv(r)'
  BY <1>2, <1>3, <1>4, <1>5, <1>6, Zenon
  DEF RequestInv, LockOK, ProgressOK, InsertedOK, ResultOK, AnswerOK, Locking
<1> QED
  BY <1>3, <1>4, <1>7, <1>8, <1>9, QuietPreserves, Zenon

\* A transaction begins.
LEMMA BeginPreserves == ASSUME SendInv, NEW r \in Request, NEW i \in Intent, Begin(r, i) PROVE SendInv'
<1>1. /\ pc[r] = "new" /\ RequestInv(r) /\ ~inserted[r] /\ answer[r] = "none" /\ "lock" \in Place
  BY DEF SendInv, RequestInv, InsertedOK, AnswerOK, Begin, Place, Running
<1>2. /\ UNCHANGED table /\ messages' = messages /\ lastSeq' = lastSeq /\ members' = members /\ lock' = lock
      /\ id' = id /\ row' = row /\ inserted' = inserted /\ answer' = answer
      /\ intent' = [intent EXCEPT ![r] = i] /\ Step(r, "lock")
  BY DEF Begin, table
<1>3. /\ pc' \in [Request -> Place] /\ pc'[r] = "lock" /\ \A q \in Request \ {r} : pc'[q] = pc[q]
  BY <1>1, <1>2, Stepped, Zenon
<1>4. /\ intent' \in [Request -> Intent \cup {NoIntent}] /\ intent'[r] = i
      /\ \A q \in Request \ {r} : intent'[q] = intent[q]
  BY <1>2, Zenon DEF SendInv, TypeOK
<1>5. Own(r)
  BY <1>2, <1>3, <1>4, Zenon DEF Own
<1>6. TypeOK'
  BY <1>2, <1>3, <1>4, SMTT(30) DEF SendInv, TypeOK, Place, table
<1>7. RequestInv(r)'
  BY <1>1, <1>2, <1>3, <1>4, SMTT(30)
  DEF RequestInv, LockOK, ProgressOK, InsertedOK, ResultOK, AnswerOK, Locking
<1> QED
  BY <1>1, <1>2, <1>5, <1>6, <1>7, QuietPreserves, ZenonT(30)

\* The lock of the conversation is free when it is taken.
LEMMA LockPreserves == ASSUME SendInv, NEW r \in Request, LockConversation(r) PROVE SendInv'
<1> DEFINE c == intent[r].conv
<1>1. CASE Refuse(r, "SEND_CONVERSATION_NOT_FOUND")
  BY <1>1, RefusePreserves, SMTT(30) DEF Final
<1>2. CASE /\ c \in Known
           /\ lock[c] = NoRequest
           /\ lock' = [lock EXCEPT ![c] = r]
           /\ Step(r, "member")
           /\ UNCHANGED <<table, members, intent, id, row, inserted, answer>>
  <2>1. /\ pc[r] = "lock" /\ RequestInv(r) /\ ~inserted[r] /\ answer[r] = "none" /\ "member" \in Place
        /\ intent[r] \in Intent
    BY Zenon DEF SendInv, RequestInv, LockOK, InsertedOK, AnswerOK, LockConversation, Place, Running
  <2>2. /\ UNCHANGED table /\ messages' = messages /\ lastSeq' = lastSeq /\ members' = members
        /\ intent' = intent /\ id' = id /\ row' = row /\ inserted' = inserted /\ answer' = answer
    BY <1>2, SMTT(30) DEF table
  <2>3. /\ pc' \in [Request -> Place] /\ pc'[r] = "member" /\ \A q \in Request \ {r} : pc'[q] = pc[q]
    BY <1>2, <2>1, Stepped, Zenon
  <2>4. /\ lock' \in [Known -> Request \cup {NoRequest}] /\ lock'[c] = r
        /\ \A k \in Known : lock[k] \in Request \ {r} => lock'[k] = lock[k]
    BY <1>2, SendAssumption, SMTT(30) DEF SendInv, TypeOK
  <2>5. Own(r)
    BY <2>2, <2>3, <2>4, Zenon DEF Own
  <2>6. TypeOK'
    BY <2>2, <2>3, <2>4 DEF SendInv, TypeOK, Place, table
  <2>7. RequestInv(r)'
    <3>1. LockOK(r)'
      BY <1>2, <2>1, <2>2, <2>3, <2>4, Zenon DEF LockOK
    <3> QED
      BY <2>1, <2>2, <2>3, <3>1, Zenon DEF RequestInv, ProgressOK, InsertedOK, ResultOK, AnswerOK
  <2> QED
    BY <2>1, <2>2, <2>5, <2>6, <2>7, QuietPreserves, SMTT(30)
<1> QED
  BY <1>1, <1>2, Zenon DEF LockConversation

\* The membership that is checked stays until the transaction ends.
LEMMA MemberPreserves == ASSUME SendInv, NEW r \in Request, CheckMember(r) PROVE SendInv'
<1>1. pc[r] = "member" /\ RequestInv(r) /\ pc[r] \in Locking \ {"unknown"} /\ ~inserted[r]
  BY Zenon DEF SendInv, RequestInv, InsertedOK, CheckMember, Locking
<1>2. CASE <<intent[r].conv, intent[r].sender>> \in members
  <2>1. GoOn(r, "load") /\ "load" \in Locking \ {"unknown", "member"}
    BY <1>2 DEF CheckMember, Locking
  <2> QED
    BY <1>1, <1>2, <2>1, AdvancePreserves, Zenon
<1>3. CASE <<intent[r].conv, intent[r].sender>> \notin members
  <2>1. Refuse(r, "SEND_UNAUTHORIZED")
    BY <1>3 DEF CheckMember
  <2> QED
    BY <2>1, RefusePreserves, Zenon DEF Final
<1> QED
  BY <1>2, <1>3, Zenon

\* The row that is inserted is the next of its conversation, and its key and its id are nobody
\* else's: neither committed nor inserted by another open transaction.
LEMMA InsertPreserves == ASSUME SendInv, NEW r \in Request, Insert(r) PROVE SendInv'
<1> DEFINE n == NewRow(r)
           c == intent[r].conv
<1>1. /\ pc[r] = "insert" /\ ~inserted[r] /\ intent[r] \in Intent /\ c \in Known
      /\ <<c, intent[r].sender>> \in members /\ id[r] \in ServerId /\ lastSeq[c] < MaxSeq
      /\ pc[r] \in Locking \ {"unknown", "member"}
  BY Underway, Zenon DEF Insert
<1>2. CASE Found(r)
  BY <1>1, <1>2, FoundPreserves, Zenon
<1>3. CASE Refuse(r, "SEND_UNKNOWN")
  BY <1>3, RefusePreserves, SMTT(30) DEF Final
<1>4. CASE /\ NotFound(r)
           /\ \A m \in messages : ~Clash(m, r)
           /\ row' = [row EXCEPT ![r] = NewRow(r)]
           /\ inserted' = [inserted EXCEPT ![r] = TRUE]
           /\ Step(r, "compare")
           /\ UNCHANGED <<table, members, lock, intent, id, answer>>
  <2>1. lastSeq[c] \in Nat /\ lastSeq[c] + 1 \in 1 .. MaxSeq
    BY <1>1, SendAssumption DEF SendInv, TypeOK
  <2>2. /\ n \in Row /\ n.sender = intent[r].sender /\ n.client = intent[r].client /\ n.conv = c
        /\ n.body = intent[r].body /\ n.seq = lastSeq[c] + 1 /\ n.server = id[r]
    BY <1>1, <2>1, Zenon DEF NewRow, Row, Intent
  <2>3. /\ UNCHANGED table /\ messages' = messages /\ lastSeq' = lastSeq /\ members' = members
        /\ lock' = lock /\ intent' = intent /\ id' = id /\ answer' = answer
    BY <1>4 DEF table
  <2>4. "compare" \in Place
    BY DEF Place, Running
  <2>5. /\ pc' \in [Request -> Place] /\ pc'[r] = "compare" /\ \A q \in Request \ {r} : pc'[q] = pc[q]
    BY <1>4, <2>4, Stepped, SMTT(30)
  <2> HIDE DEF n
  <2>6. /\ row' \in [Request -> Row \cup {NoRow}] /\ row'[r] = n
        /\ \A q \in Request \ {r} : row'[q] = row[q]
    BY <1>4, <2>2 DEF SendInv, TypeOK, n
  <2>7. /\ inserted' \in [Request -> BOOLEAN] /\ inserted'[r] = TRUE
        /\ \A q \in Request \ {r} : inserted'[q] = inserted[q]
    BY <1>4, ZenonT(30) DEF SendInv, TypeOK
  <2>8. Own(r)
    BY <2>3, <2>5, <2>6, <2>7, Zenon DEF Own
  <2>9. TypeOK'
    BY <2>3, <2>5, <2>6, <2>7, Zenon DEF SendInv, TypeOK, Place, table
  <2>10. \A m \in messages : ~SameKey(m, n) /\ m.server # n.server
    BY <1>4, <2>2, Zenon DEF NotFound, Clash, SameKey
  <2>11. RequestInv(r)'
    <3>1. RequestInv(r)
      BY DEF SendInv
    <3>2. LockOK(r)' /\ ProgressOK(r)'
      BY <1>1, <2>3, <2>5, <3>1, ZenonT(30) DEF RequestInv, LockOK, ProgressOK
    <3>3. InsertedOK(r)'
      BY <2>2, <2>3, <2>5, <2>6, <2>10, SMTT(30) DEF InsertedOK, SameKey, SameIntent
    <3>4. ResultOK(r)'
      BY <2>2, <2>3, <2>5, <2>6, <2>7, SMTT(30) DEF ResultOK, SameKey
    <3>5. answer[r] = "none"
      BY <1>1, <3>1, SMTT(30) DEF RequestInv, AnswerOK
    <3>6. AnswerOK(r)'
      BY <2>3, <2>5, <3>5, SMTT(30) DEF AnswerOK
    <3> QED
      BY <3>2, <3>3, <3>4, <3>6, Zenon DEF RequestInv
  <2>12. \A q \in Request \ {r} : inserted[q] => ~SameKey(n, row[q]) /\ n.server # row[q].server
    BY <2>2, Zenon DEF Insert, Blocked, HasEntry, Clash, SameKey
  <2> QED
    BY <2>3, <2>6, <2>8, <2>9, <2>11, <2>12, QuietPreserves, Zenon
<1> QED
  BY <1>2, <1>3, <1>4, Zenon DEF Insert

\* A row that differs from the intent is not the request's own, so it is committed.
LEMMA ComparePreserves == ASSUME SendInv, NEW r \in Request, Compare(r) PROVE SendInv'
<1>1. /\ pc[r] = "compare" /\ RequestInv(r) /\ pc[r] \in Locking \ {"unknown"}
      /\ inserted[r] \/ row[r] \in messages
      /\ row[r] \in Row /\ SameKey(row[r], intent[r])
      /\ <<intent[r].conv, intent[r].sender>> \in members
  BY Zenon DEF SendInv, RequestInv, ResultOK, ProgressOK, Compare, Locking
<1>2. CASE SameIntent(row[r], intent[r])
  <2>1. GoOn(r, "commit") /\ "commit" \in Locking \ {"unknown", "member"}
    BY <1>2, Zenon DEF Compare, Locking
  <2> QED
    BY <1>1, <1>2, <2>1, AdvancePreserves, Zenon
<1>3. CASE ~SameIntent(row[r], intent[r])
  <2>1. Refuse(r, "SEND_ID_CONFLICT")
    BY <1>3, Zenon DEF Compare
  <2>2. row[r] \in messages
    BY <1>1, <1>3, Zenon DEF RequestInv, InsertedOK
  <2> QED
    BY <1>1, <1>3, <2>1, <2>2, RefusePreserves, Zenon DEF Final
<1> QED
  BY <1>2, <1>3, Zenon

------------------------------------------------------------------------------
(* The end of a transaction *)

\* The caller is told to retry, or that nothing is known, while the transaction is still open.
LEMMA ErrorPreserves == ASSUME SendInv, NEW r \in Request, Fail(r) \/ CommitUnknown(r) PROVE SendInv'
<1>1. /\ UNCHANGED table /\ messages' = messages /\ lastSeq' = lastSeq /\ members' = members
      /\ lock' = lock /\ intent' = intent /\ id' = id /\ row' = row /\ inserted' = inserted
  BY DEF Fail, CommitUnknown, table
<1>2. PICK next \in {"aborting", "unknown"} : Step(r, next) /\ (next = "unknown" <=> pc[r] = "commit")
  BY Zenon DEF Fail, CommitUnknown
<1>3. PICK code \in {Temporary, "SEND_UNKNOWN"} :
        answer' = [answer EXCEPT ![r] = code] /\ (pc[r] = "commit" => code = Temporary)
  BY DEF Fail, CommitUnknown, MapSendError, RetrySameIntent
<1>4. next \in Place /\ code \in Answer /\ code \notin {"SERVER_PERSISTED", "SEND_ID_CONFLICT", "none"}
  BY DEF Place, Answer, Temporary, Final
<1>5. pc' \in [Request -> Place] /\ pc'[r] = next /\ \A q \in Request \ {r} : pc'[q] = pc[q]
  BY <1>2, <1>4, Stepped
<1>6. answer' \in [Request -> Answer] /\ answer'[r] = code /\ \A q \in Request \ {r} : answer'[q] = answer[q]
  BY <1>3, <1>4, Answered, Zenon
<1>7. Own(r)
  BY <1>1, <1>5, <1>6, Zenon DEF Own
<1>8. TypeOK'
  BY <1>1, <1>5, <1>6, Zenon DEF SendInv, TypeOK, Place, table
<1>9. RequestInv(r) /\ pc[r] \in Running
  BY DEF SendInv, Fail, CommitUnknown, Running
<1>10. RequestInv(r)'
  <2>1. LockOK(r)'
    BY <1>1, <1>2, <1>5, <1>9, Zenon DEF RequestInv, LockOK, Running, Locking
  <2>2. ProgressOK(r)'
    BY <1>1, <1>2, <1>5, <1>9, Zenon DEF RequestInv, ProgressOK, Locking
  <2>3. InsertedOK(r)'
    BY <1>1, <1>2, <1>5, <1>9, Zenon DEF RequestInv, InsertedOK, SameKey, SameIntent
  <2>4. ResultOK(r)'
    BY <1>1, <1>2, <1>5, <1>9, Zenon DEF RequestInv, ResultOK, SameKey, SameIntent
  <2>5. AnswerOK(r)'
    BY <1>2, <1>3, <1>4, <1>5, <1>6, Zenon DEF AnswerOK
  <2> QED
    BY <2>1, <2>2, <2>3, <2>4, <2>5, Zenon DEF RequestInv
<1>11. \A q \in Request \ {r} : inserted'[r] /\ inserted[q] =>
         ~SameKey(row'[r], row[q]) /\ row'[r].server # row[q].server
  BY <1>1, Zenon DEF SendInv, ApartInv
<1> QED
  BY <1>1, <1>7, <1>8, <1>10, <1>11, QuietPreserves, Zenon

\* A rollback stores nothing.
LEMMA RollbackPreserves == ASSUME SendInv, NEW r \in Request, Rollback(r) PROVE SendInv'
<1>1. Close(r, NoRow) /\ UNCHANGED table /\ answer' = answer /\ pc[r] \in {"aborting", "unknown"}
  BY Zenon DEF Rollback
<1>2. answer[r] \in {Temporary, "SEND_UNKNOWN"} /\ answer \in [Request -> Answer]
  BY <1>1, Zenon DEF SendInv, TypeOK, RequestInv, AnswerOK
<1> QED
  BY <1>1, <1>2, ClosePreserves DEF Temporary

\* The row that is committed: its transaction has the lock of its conversation.
LEMMA OwnRow ==
  ASSUME SendInv, NEW r \in Request, inserted[r]
  PROVE  /\ row[r] \in Row /\ row[r].conv \in Known /\ row[r].conv = intent[r].conv
         /\ lock[row[r].conv] = r /\ row[r].seq = lastSeq[row[r].conv] + 1
         /\ \A m \in messages : ~SameKey(m, row[r]) /\ m.server # row[r].server
  BY Zenon DEF SendInv, RequestInv, LockOK, InsertedOK, SameIntent

\* What a commit stores.
LEMMA Published ==
  ASSUME SendInv, NEW r \in Request, inserted[r], Publish(r)
  PROVE  /\ messages' = messages \cup {row[r]} /\ events' = events \cup {row[r].server}
         /\ lastSeq' = [lastSeq EXCEPT ![row[r].conv] = row[r].seq]
         /\ lastSeq'[row[r].conv] = row[r].seq /\ latest'[row[r].conv] = row[r].server
         /\ \A c \in Known \ {row[r].conv} : lastSeq'[c] = lastSeq[c] /\ latest'[c] = latest[c]
         /\ messages' \subseteq Row /\ events' \subseteq ServerId
         /\ lastSeq' \in [Known -> 0 .. MaxSeq] /\ latest' \in [Known -> ServerId \cup {NoId}]
<1>1. /\ messages' = messages \cup {row[r]} /\ events' = events \cup {row[r].server}
      /\ lastSeq' = [lastSeq EXCEPT ![row[r].conv] = row[r].seq]
      /\ latest' = [latest EXCEPT ![row[r].conv] = row[r].server]
  BY Zenon DEF Publish
<1>2. row[r] \in Row /\ row[r].conv \in Known /\ row[r].seq \in 0 .. MaxSeq /\ row[r].server \in ServerId
  BY OwnRow, SendAssumption DEF Row
<1>3. /\ messages \subseteq Row /\ events \subseteq ServerId /\ lastSeq \in [Known -> 0 .. MaxSeq]
      /\ latest \in [Known -> ServerId \cup {NoId}]
  BY DEF SendInv, TypeOK
<1> QED
  BY <1>1, <1>2, <1>3, Zenon

\* The committed rows stay gapless, with one message and one event per key.
LEMMA LedgerKeeps ==
  ASSUME SendInv, NEW r \in Request, inserted[r], Publish(r)
  PROVE  SequenceGapless' /\ OneMessagePerIntent'
<1> DEFINE m0 == row[r]
           c0 == row[r].conv
<1>1. /\ m0 \in Row /\ c0 \in Known /\ m0.seq = lastSeq[c0] + 1
      /\ \A m \in messages : ~SameKey(m, m0) /\ m.server # m0.server
  BY OwnRow, Zenon
<1>2. /\ messages' = messages \cup {m0} /\ events' = events \cup {m0.server}
      /\ lastSeq'[c0] = m0.seq /\ latest'[c0] = m0.server
      /\ \A c \in Known \ {c0} : lastSeq'[c] = lastSeq[c] /\ latest'[c] = latest[c]
  BY Published, Zenon
<1>3. SequenceGapless /\ OneMessagePerIntent /\ lastSeq[c0] \in Nat /\ messages \subseteq Row
  BY <1>1, SendAssumption DEF SendInv, TypeOK
<1>4. \A m \in messages : m.seq \in Nat /\ m.conv \in Known
  BY <1>3, SendAssumption DEF Row
<1> HIDE DEF m0, c0
<1>5. \A m \in messages : m.conv = c0 => m.seq <= lastSeq[c0]
  <2> SUFFICES ASSUME NEW m \in messages, m.conv = c0 PROVE m.seq <= lastSeq[c0]
    OBVIOUS
  <2>1. m.seq \in {x.seq : x \in {y \in messages : y.conv = c0}}
    BY Zenon
  <2>2. m.seq \in 1 .. lastSeq[c0]
    BY <1>1, <1>3, <2>1, Zenon DEF SequenceGapless
  <2> QED
    BY <1>3, <2>2
<1>6. ASSUME NEW c \in Known
      PROVE  /\ {m.seq : m \in {x \in messages' : x.conv = c}} = 1 .. lastSeq'[c]
             /\ \A m, n \in messages' : m.conv = c /\ n.conv = c /\ m.seq = n.seq => m = n
             /\ \A m \in messages' : m.conv = c /\ m.seq = lastSeq'[c] => latest'[c] = m.server
  <2>1. /\ {m.seq : m \in {x \in messages : x.conv = c}} = 1 .. lastSeq[c]
        /\ \A m, n \in messages : m.conv = c /\ n.conv = c /\ m.seq = n.seq => m = n
        /\ \A m \in messages : m.conv = c /\ m.seq = lastSeq[c] => latest[c] = m.server
    BY <1>3, Zenon DEF SequenceGapless
  <2>2. m0.conv = c0
    BY Zenon DEF m0, c0
  <2>3. CASE c # c0
    <3>1. {x \in messages' : x.conv = c} = {x \in messages : x.conv = c}
      BY <1>2, <2>2, <2>3, Zenon
    <3>2. lastSeq'[c] = lastSeq[c] /\ latest'[c] = latest[c]
      BY <1>2, <2>3, Zenon
    <3> QED
      BY <2>1, <3>1, <3>2, Zenon
  <2>4. CASE c = c0
    <3>1. {m.seq : m \in {x \in messages' : x.conv = c}} = {m.seq : m \in {x \in messages : x.conv = c}} \cup {m0.seq}
      BY <1>2, <2>2, <2>4
    <3>2. {m.seq : m \in {x \in messages' : x.conv = c}} = 1 .. lastSeq'[c]
      <4>1. \A h \in Nat : (1 .. h) \cup {h + 1} = 1 .. (h + 1)
        OBVIOUS
      <4>2. lastSeq'[c] = lastSeq[c] + 1 /\ m0.seq = lastSeq[c] + 1 /\ lastSeq[c] \in Nat
        BY <1>1, <1>2, <1>3, <2>4, Zenon
      <4>3. (1 .. lastSeq[c]) \cup {m0.seq} = 1 .. lastSeq'[c]
        BY <4>1, <4>2, Zenon
      <4> QED
        BY <2>1, <3>1, <4>3, Zenon
    <3>3. \A m, n \in messages' : m.conv = c /\ n.conv = c /\ m.seq = n.seq => m = n
      BY <1>1, <1>2, <1>3, <1>4, <1>5, <2>1, <2>4
    <3>4. \A m \in messages' : m.conv = c /\ m.seq = lastSeq'[c] => latest'[c] = m.server
      BY <1>1, <1>2, <1>3, <1>4, <1>5, <2>4
    <3> QED
      BY <3>2, <3>3, <3>4, Zenon
  <2> QED
    BY <2>3, <2>4, Zenon
<1>7. SequenceGapless'
  BY <1>6, Zenon DEF SequenceGapless
<1>8. OneMessagePerIntent'
  <2>1. ASSUME NEW m \in messages', NEW n \in messages', SameKey(m, n) \/ m.server = n.server PROVE m = n
    BY <1>1, <1>2, <1>3, <2>1, Zenon DEF OneMessagePerIntent, SameKey
  <2>2. events' = {m.server : m \in messages'}
    BY <1>2, <1>3, Zenon DEF OneMessagePerIntent
  <2> QED
    BY <2>1, <2>2, Zenon DEF OneMessagePerIntent, SameKey
<1> QED
  BY <1>7, <1>8, Zenon

\* Another open transaction has locked another conversation, and has other keys and ids.
LEMMA OthersPublished ==
  ASSUME SendInv, NEW r \in Request, inserted[r], Publish(r), Own(r), NEW q \in Request \ {r}
  PROVE  RequestInv(q)'
<1>1. RequestInv(q)
  BY Zenon DEF SendInv
<1>2. /\ pc'[q] = pc[q] /\ intent'[q] = intent[q] /\ id'[q] = id[q] /\ row'[q] = row[q]
      /\ inserted'[q] = inserted[q] /\ answer'[q] = answer[q] /\ members' = members
      /\ \A c \in Known : lock[c] = q => lock'[c] = q
  BY Zenon DEF Own
<1>3. /\ messages' = messages \cup {row[r]}
      /\ \A c \in Known \ {row[r].conv} : lastSeq'[c] = lastSeq[c]
  BY Published, Zenon
<1>4. pc[q] \in Locking \/ inserted[q] =>
        /\ intent[q].conv \in Known \ {row[r].conv}
        /\ lastSeq'[intent[q].conv] = lastSeq[intent[q].conv]
  BY <1>1, <1>3, OwnRow DEF RequestInv, LockOK
<1>5. LockOK(q)'
  BY <1>1, <1>2, ZenonT(30) DEF RequestInv, LockOK
<1>6. ProgressOK(q)'
  BY <1>1, <1>2, <1>4, SMTT(30) DEF RequestInv, ProgressOK, Locking
<1>7. InsertedOK(q)'
  <2> SUFFICES ASSUME inserted[q] PROVE InsertedOK(q)'
    BY <1>2, Zenon DEF InsertedOK
  <2>1. ~SameKey(row[r], row[q]) /\ row[r].server # row[q].server
    BY Zenon DEF SendInv, ApartInv
  <2>2. row[q].conv = intent[q].conv
    BY <1>1, Zenon DEF RequestInv, InsertedOK, SameIntent
  <2> QED
    <3>1. /\ pc[q] \in {"compare", "commit", "unknown", "aborting"}
          /\ row[q] \in Row /\ SameKey(row[q], intent[q]) /\ SameIntent(row[q], intent[q])
          /\ row[q].seq = lastSeq[row[q].conv] + 1
          /\ \A m \in messages : ~SameKey(m, row[q]) /\ m.server # row[q].server
      BY <1>1 DEF RequestInv, InsertedOK
    <3>2. \A m \in messages' : ~SameKey(m, row[q]) /\ m.server # row[q].server
      BY <1>3, <2>1, <3>1, Zenon
    <3>3. lastSeq'[row[q].conv] = lastSeq[row[q].conv]
      BY <1>4, <2>2, Zenon
    <3> QED
      BY <1>2, <3>1, <3>2, <3>3, Zenon DEF InsertedOK, SameKey, SameIntent
<1>8. ResultOK(q)'
  <2>1. ResultOK(q) /\ messages \subseteq messages'
    BY <1>1, <1>3, Zenon DEF RequestInv
  <2> QED
    BY <1>2, <2>1, ZenonT(30) DEF ResultOK, SameKey, SameIntent
<1>9. AnswerOK(q)'
  <2>1. AnswerOK(q) /\ messages \subseteq messages'
    BY <1>1, <1>3, Zenon DEF RequestInv
  <2>2. answer[q] = "SERVER_PERSISTED" =>
          row[q] \in messages' /\ SameKey(row[q], intent[q]) /\ SameIntent(row[q], intent[q])
    BY <2>1, Zenon DEF AnswerOK
  <2>3. answer[q] = "SEND_ID_CONFLICT" =>
          \E m \in messages' : SameKey(m, intent[q]) /\ ~SameIntent(m, intent[q])
    BY <2>1, Zenon DEF AnswerOK
  <2> QED
    BY <1>2, <2>1, <2>2, <2>3, ZenonT(30) DEF AnswerOK, SameKey, SameIntent
<1> QED
  BY <1>5, <1>6, <1>7, <1>8, <1>9, Zenon DEF RequestInv
\* A transaction ends with a row stored: the one it has inserted.
LEMMA PublishPreserves ==
  ASSUME SendInv, NEW r \in Request, inserted[r], Publish(r), NEW kept \in Row \cup {NoRow}, Close(r, kept),
         answer' \in [Request -> Answer], \A q \in Request \ {r} : answer'[q] = answer[q],
         answer'[r] = "SERVER_PERSISTED" =>
           kept = row[r] /\ SameKey(row[r], intent[r]) /\ SameIntent(row[r], intent[r]),
         answer'[r] # "SEND_ID_CONFLICT"
  PROVE  SendInv'
<1>1. pc'[r] = "done" /\ inserted'[r] = FALSE /\ row'[r] = kept /\ intent' = intent
  BY Closed, Zenon
<1>2. messages' = messages \cup {row[r]}
  BY Published, Zenon
<1>3. Own(r)
  BY Closed, Zenon DEF Own
<1>4. TypeOK'
  <2>1. /\ messages' \subseteq Row /\ events' \subseteq ServerId
        /\ lastSeq' \in [Known -> 0 .. MaxSeq] /\ latest' \in [Known -> ServerId \cup {NoId}]
    BY Published, Zenon
  <2> QED
    BY <2>1, Closed, Zenon DEF SendInv, TypeOK
<1>5. SequenceGapless' /\ OneMessagePerIntent'
  BY LedgerKeeps, Zenon
<1>6. RequestInv(r)'
  <2>1. LockOK(r)' /\ ProgressOK(r)' /\ InsertedOK(r)' /\ ResultOK(r)'
    BY <1>1, Zenon DEF LockOK, ProgressOK, InsertedOK, ResultOK, Locking
  <2>2. AnswerOK(r)'
    BY <1>1, <1>2, Zenon DEF AnswerOK, SameKey, SameIntent
  <2> QED
    BY <2>1, <2>2, Zenon DEF RequestInv
<1>7. \A q \in Request : RequestInv(q)'
  BY <1>3, <1>6, OthersPublished, Zenon
<1>8. ApartInv'
  <2> SUFFICES ASSUME NEW p \in Request, NEW q \in Request, p # q, inserted'[p], inserted'[q]
               PROVE  ~SameKey(row'[p], row'[q]) /\ row'[p].server # row'[q].server
    BY DEF ApartInv, SameKey
  <2>1. p # r /\ q # r
    BY <1>1, Zenon
  <2>2. row'[p] = row[p] /\ row'[q] = row[q] /\ inserted[p] /\ inserted[q]
    BY <1>3, <2>1, Zenon DEF Own
  <2> QED
    BY <2>2, Zenon DEF SendInv, ApartInv
<1> QED
  BY <1>4, <1>5, <1>7, <1>8, Zenon DEF SendInv

\* The commits that succeed, for their caller or after it was told otherwise.
LEMMA CommitPreserves == ASSUME SendInv, NEW r \in Request, Commit(r) \/ LateCommit(r) PROVE SendInv'
<1>1. /\ RequestInv(r) /\ row[r] \in Row /\ SameKey(row[r], intent[r]) /\ SameIntent(row[r], intent[r])
      /\ inserted[r] \/ row[r] \in messages
  BY DEF SendInv, RequestInv, ResultOK, Commit, LateCommit
<1>2. CASE Commit(r)
  <2>1. /\ answer' \in [Request -> Answer] /\ answer'[r] = "SERVER_PERSISTED"
        /\ \A q \in Request \ {r} : answer'[q] = answer[q]
    BY <1>2, Answered, Zenon DEF Commit, Answer
  <2>2. CASE inserted[r]
    BY <1>1, <1>2, <2>1, <2>2, PublishPreserves, Zenon DEF Commit
  <2>3. CASE ~inserted[r]
    BY <1>1, <1>2, <2>1, <2>3, ClosePreserves, Zenon DEF Commit, Publish
  <2> QED
    BY <2>2, <2>3
<1>3. CASE LateCommit(r)
  <2>1. answer' = answer /\ answer \in [Request -> Answer] /\ answer[r] = Temporary
    BY <1>1, <1>3, Zenon DEF SendInv, TypeOK, RequestInv, AnswerOK, LateCommit
  <2>2. Temporary \notin {"SERVER_PERSISTED", "SEND_ID_CONFLICT"}
    BY Zenon DEF Temporary
  <2>3. CASE inserted[r]
    BY <1>3, <2>1, <2>2, <2>3, PublishPreserves, Zenon DEF LateCommit
  <2>4. CASE ~inserted[r]
    BY <1>3, <2>1, <2>2, <2>4, ClosePreserves, Zenon DEF LateCommit, Publish
  <2> QED
    BY <2>3, <2>4
<1> QED
  BY <1>2, <1>3, Zenon

\* A membership that a transaction has locked is not removed.
LEMMA RemovePreserves ==
  ASSUME SendInv, NEW c \in Known, NEW s \in Sender, RemoveMember(c, s) PROVE SendInv'
<1>1. /\ UNCHANGED table /\ messages' = messages /\ lastSeq' = lastSeq /\ lock' = lock /\ pc' = pc
      /\ intent' = intent /\ id' = id /\ row' = row /\ inserted' = inserted /\ answer' = answer
      /\ members' = members \ {<<c, s>>} /\ ~ShareLocked(c, s)
  BY Zenon DEF RemoveMember, table
<1>2. TypeOK'
  <2>1. TypeOK /\ members' \subseteq members
    BY <1>1, Zenon DEF SendInv
  <2> QED
    BY <1>1, <2>1, SMTT(30) DEF TypeOK, table
<1>3. SequenceGapless' /\ OneMessagePerIntent' /\ ApartInv'
  BY <1>1 DEF SendInv, SequenceGapless, OneMessagePerIntent, ApartInv, SameKey, table
<1>4. ASSUME NEW r \in Request PROVE RequestInv(r)'
  <2>1. RequestInv(r)
    BY DEF SendInv
  <2>2. ProgressOK(r)'
    <3>1. ASSUME pc[r] \in Locking \ {"member"} PROVE <<intent[r].conv, intent[r].sender>> # <<c, s>>
      <4>1. pc[r] \notin {"new", "lock", "member", "done"} /\ lock[intent[r].conv] = r
        BY <2>1, <3>1, Zenon DEF RequestInv, LockOK, Locking
      <4> QED
        BY <1>1, <4>1, SMTT(30) DEF ShareLocked
    <3> QED
      BY <1>1, <2>1, <3>1, Zenon DEF RequestInv, ProgressOK
  <2>3. LockOK(r)' /\ InsertedOK(r)'
    BY <1>1, <2>1, Zenon DEF RequestInv, LockOK, InsertedOK, SameKey, SameIntent
  <2>4. ResultOK(r)' /\ AnswerOK(r)'
    BY <1>1, <2>1, Zenon DEF RequestInv, ResultOK, AnswerOK, SameKey, SameIntent
  <2> QED
    BY <2>2, <2>3, <2>4 DEF RequestInv
<1> QED
  BY <1>2, <1>3, <1>4, Zenon DEF SendInv

------------------------------------------------------------------------------
(* The theorems *)

\* Every step of every request, and of the memberships, preserves the invariant.
LEMMA StepSend == SendInv /\ [Next]_vars => SendInv'
<1> SUFFICES ASSUME SendInv, [Next]_vars PROVE SendInv'
  OBVIOUS
<1>1. CASE UNCHANGED vars
  <2>1. /\ UNCHANGED table /\ messages' = messages /\ lastSeq' = lastSeq /\ lock' = lock /\ pc' = pc
        /\ intent' = intent /\ id' = id /\ row' = row /\ inserted' = inserted /\ answer' = answer
        /\ members' = members
    BY <1>1, Zenon DEF vars, table
  <2>2. TypeOK' /\ ApartInv'
    BY <2>1, Zenon DEF SendInv, TypeOK, ApartInv, SameKey, table
  <2>4. SequenceGapless' /\ OneMessagePerIntent'
    BY <2>1 DEF SendInv, SequenceGapless, OneMessagePerIntent, SameKey, table
  <2>3. ASSUME NEW r \in Request PROVE RequestInv(r)'
    <3>1. RequestInv(r)
      BY DEF SendInv
    <3>2. LockOK(r)' /\ ProgressOK(r)' /\ InsertedOK(r)'
      BY <2>1, <3>1, ZenonT(30) DEF RequestInv, LockOK, ProgressOK, InsertedOK, SameKey, SameIntent
    <3>3. ResultOK(r)' /\ AnswerOK(r)'
      BY <2>1, <3>1, Zenon DEF RequestInv, ResultOK, AnswerOK, SameKey, SameIntent
    <3> QED
      BY <3>2, <3>3 DEF RequestInv
  <2> QED
    BY <2>2, <2>3, <2>4, Zenon DEF SendInv
<1>2. ASSUME NEW r \in Request, TurnAway(r) \/ (\E i \in Intent : Begin(r, i)) PROVE SendInv'
  BY <1>2, TurnAwayPreserves, BeginPreserves, Zenon
<1>3. ASSUME NEW r \in Request, Statement(r) PROVE SendInv'
  BY <1>3, LockPreserves, MemberPreserves, ReadsPreserve, PreparePreserves, InsertPreserves, ComparePreserves, Zenon
  DEF Statement
<1>4. ASSUME NEW r \in Request, Finish(r) \/ CommitUnknown(r) \/ Fail(r) PROVE SendInv'
  BY <1>4, CommitPreserves, RollbackPreserves, ErrorPreserves, Zenon DEF Finish
<1>5. ASSUME NEW c \in Known, NEW s \in Sender, RemoveMember(c, s) PROVE SendInv'
  BY <1>5, RemovePreserves
<1> QED
  BY <1>1, <1>2, <1>3, <1>4, <1>5 DEF Next

\* The inductive invariant holds in every reachable state.
LEMMA SendHolds == Spec => []SendInv
  BY InitSend, StepSend, PTL DEF Spec

\* For any requests, senders and conversations: the sequences of a conversation have no gap and
\* no duplicate, and there is one message and one event per sender and client id
\* (persist_message).
THEOREM LedgerHolds == Spec => []LedgerInv
<1>1. SendInv => LedgerInv
  BY Zenon DEF SendInv, LedgerInv
<1> QED
  BY <1>1, SendHolds, PTL

\* For any requests: an ACK names a committed message of its own intent, and a conflict a
\* committed message of another one (Persist, Send).
THEOREM AnswersHold == Spec => []AnswersTrue
<1>1. SendInv => AnswersTrue
  BY Zenon DEF SendInv, RequestInv, AnswerOK, AnswersTrue, AckDurable, ConflictJustified
<1> QED
  BY <1>1, SendHolds, PTL

\* Who has the lock of a conversation has an open transaction that got past its first statement.
HoldersOpen ==
  \A c \in Known : lock[c] \in Request => pc[lock[c]] \notin {"new", "lock", "done"}

\* A statement that leaves the locks alone, or takes one, goes on behind the first statement.
LEMMA GoingOnHolds ==
  ASSUME SendInv, HoldersOpen, NEW r \in Request, NEW next, Step(r, next),
         next \notin {"new", "lock", "done"},
         \/ lock' = lock
         \/ \E c \in Known : lock' = [lock EXCEPT ![c] = r]
  PROVE  HoldersOpen'
<1>1. /\ pc \in [Request -> Running \cup {"new", "aborting", "unknown", "done"}]
      /\ lock \in [Known -> Request \cup {NoRequest}]
  BY Zenon DEF SendInv, TypeOK
<1>2. pc' = [pc EXCEPT ![r] = next]
  BY Zenon DEF Step
<1> QED
  BY <1>1, <1>2, SendAssumption DEF HoldersOpen

\* The end of a transaction releases its locks.
LEMMA ClosingHolds ==
  ASSUME SendInv, HoldersOpen, NEW r \in Request, NEW kept, Close(r, kept)
  PROVE  HoldersOpen'
<1>1. /\ pc \in [Request -> Running \cup {"new", "aborting", "unknown", "done"}]
      /\ lock \in [Known -> Request \cup {NoRequest}]
  BY Zenon DEF SendInv, TypeOK
<1>2. /\ pc' = [pc EXCEPT ![r] = "done"]
      /\ lock' = [c \in Known |-> IF lock[c] = r THEN NoRequest ELSE lock[c]]
  BY Zenon DEF Close, Step, Release
<1> QED
  BY <1>1, <1>2, SendAssumption DEF HoldersOpen

\* A request without a transaction has no lock, whatever becomes of it.
LEMMA NewHolds ==
  ASSUME SendInv, HoldersOpen, NEW r \in Request, NEW next, pc[r] = "new", Step(r, next), lock' = lock
  PROVE  HoldersOpen'
<1>1. pc \in [Request -> Running \cup {"new", "aborting", "unknown", "done"}]
  BY Zenon DEF SendInv, TypeOK
<1>2. pc' = [pc EXCEPT ![r] = next]
  BY Zenon DEF Step
<1> QED
  BY <1>1, <1>2 DEF HoldersOpen

\* Every step keeps the locks with open transactions.
LEMMA HoldersStep ==
  ASSUME SendInv, HoldersOpen, Next
  PROVE  HoldersOpen'
<1>1. ASSUME NEW r \in Request, NEW next \in Locking, GoOn(r, next) \/ Found(r)
      PROVE  HoldersOpen'
  <2>1. lock' = lock /\ (Step(r, next) \/ Step(r, "compare"))
    BY <1>1, Zenon DEF GoOn, Found
  <2>2. next \notin {"new", "lock", "done"}
    BY <1>1 DEF Locking
  <2> QED
    BY <2>1, <2>2, GoingOnHolds, Zenon
<1>2. ASSUME NEW r \in Request, NEW code, Refuse(r, code)
      PROVE  HoldersOpen'
  BY <1>2, ClosingHolds, Zenon DEF Refuse
<1>3. ASSUME NEW r \in Request, TurnAway(r) \/ \E i \in Intent : Begin(r, i)
      PROVE  HoldersOpen'
  BY <1>3, NewHolds, Zenon DEF TurnAway, Begin
<1>4. ASSUME NEW r \in Request, LockConversation(r)
      PROVE  HoldersOpen'
  <2>1. \/ Refuse(r, "SEND_CONVERSATION_NOT_FOUND")
        \/ Step(r, "member") /\ \E c \in Known : lock' = [lock EXCEPT ![c] = r]
    BY <1>4, Zenon DEF LockConversation
  <2> QED
    BY <1>2, <2>1, GoingOnHolds, Zenon
<1>5. ASSUME NEW r \in Request, CheckMember(r) \/ LoadMessage(r) \/ FirstLook(r) \/ Allocate(r) \/ Compare(r)
      PROVE  HoldersOpen'
  <2>1. \/ \E next \in {"load", "prepare", "allocate", "insert", "commit"} : GoOn(r, next) \/ Found(r)
        \/ \E code : Refuse(r, code)
    BY <1>5, Zenon DEF CheckMember, LoadMessage, FirstLook, Allocate, Compare
  <2>2. {"load", "prepare", "allocate", "insert", "commit"} \subseteq Locking
    BY DEF Locking
  <2> QED
    BY <1>1, <1>2, <2>1, <2>2, Zenon
<1>6. ASSUME NEW r \in Request, Prepare(r) \/ Insert(r)
      PROVE  HoldersOpen'
  <2>1. \/ Step(r, "persist") /\ lock' = lock
        \/ Step(r, "compare") /\ lock' = lock
        \/ \E code : Refuse(r, code)
    BY <1>6, Zenon DEF Prepare, Insert, Found
  <2> QED
    BY <1>2, <2>1, GoingOnHolds, Zenon
<1>7. ASSUME NEW r \in Request, Finish(r)
      PROVE  HoldersOpen'
  BY <1>7, ClosingHolds, Zenon DEF Finish, Commit, LateCommit, Rollback
<1>8. ASSUME NEW r \in Request, CommitUnknown(r) \/ Fail(r)
      PROVE  HoldersOpen'
  BY <1>8, GoingOnHolds, Zenon DEF CommitUnknown, Fail
<1>9. ASSUME NEW c \in Known, NEW s \in Sender, RemoveMember(c, s)
      PROVE  HoldersOpen'
  BY <1>9, Zenon DEF RemoveMember, HoldersOpen
<1> QED
  BY <1>3, <1>4, <1>5, <1>6, <1>7, <1>8, <1>9, Zenon DEF Next, Statement

\* For any requests and conversations: the waits of sends for each other end.  A transaction
\* that has inserted waits for nobody, and one that has a lock waits at most for such a one
\* (Authorize, persist_message).
THEOREM WaitsEnd == Spec => []NoWaitCycle
<1>1. Init => HoldersOpen
  BY SendAssumption DEF Init, HoldersOpen
<1>2. SendInv /\ HoldersOpen /\ [Next]_vars => HoldersOpen'
  <2>1. ASSUME HoldersOpen, UNCHANGED vars PROVE HoldersOpen'
    BY <2>1, Zenon DEF vars, HoldersOpen
  <2> QED
    BY <2>1, HoldersStep, Zenon
<1>3. ASSUME SendInv, HoldersOpen PROVE NoWaitCycle
  <2>1. \A q \in Request : inserted[q] => pc[q] \in {"compare", "commit", "unknown", "aborting"}
    BY <1>3, Zenon DEF SendInv, RequestInv, InsertedOK
  <2>2. ASSUME NEW r \in Request, NEW q \in Request, WaitsFor(r, q)
        PROVE  \/ inserted[q]
               \/ pc[q] \notin {"new", "lock", "done"}
    BY <1>3, <2>2, Zenon DEF WaitsFor, HasEntry, HoldersOpen
  <2>3. ASSUME NEW q \in Request, NEW p \in Request, pc[q] # "lock", WaitsFor(q, p)
        PROVE  pc[q] = "insert" /\ inserted[p]
    BY <2>3, Zenon DEF WaitsFor, HasEntry
  <2>4. ASSUME NEW p \in Request, NEW o \in Request, inserted[p], WaitsFor(p, o)
        PROVE  FALSE
    BY <2>1, <2>4, Zenon DEF WaitsFor
  <2> QED
    BY <2>1, <2>2, <2>3, <2>4, Zenon DEF NoWaitCycle
<1> QED
  BY <1>1, <1>2, <1>3, SendHolds, PTL DEF Spec

\* Only the end of a transaction, Commit or LateCommit, stores or acknowledges anything.
LEMMA OnlyCommits ==
  ASSUME SendInv, Next
  PROVE  \/ \E r \in Request : Commit(r) \/ LateCommit(r)
         \/ /\ messages' = messages /\ lastSeq' = lastSeq /\ latest' = latest
            /\ \A q \in Request : (answer'[q] = "SERVER_PERSISTED") = (answer[q] = "SERVER_PERSISTED")
            /\ \A q \in Request : answer[q] = "SERVER_PERSISTED" => row'[q] = row[q]
<1> DEFINE Same == /\ messages' = messages /\ lastSeq' = lastSeq /\ latest' = latest
                   /\ \A q \in Request : (answer'[q] = "SERVER_PERSISTED") = (answer[q] = "SERVER_PERSISTED")
                   /\ \A q \in Request : answer[q] = "SERVER_PERSISTED" => row'[q] = row[q]
<1>1. ASSUME NEW c \in Known, NEW s \in Sender, RemoveMember(c, s) PROVE Same
  BY <1>1, Zenon DEF RemoveMember, table
<1>2. ASSUME NEW r \in Request,
             TurnAway(r) \/ (\E i \in Intent : Begin(r, i)) \/ Statement(r) \/ Rollback(r)
               \/ CommitUnknown(r) \/ Fail(r)
      PROVE  Same
  <2>1. RequestInv(r) /\ answer \in [Request -> Answer] /\ row \in [Request -> Row \cup {NoRow}]
    BY Zenon DEF SendInv, TypeOK
  <2>2. answer[r] # "SERVER_PERSISTED"
    <3>1. pc[r] # "done"
      BY <1>2, Zenon DEF TurnAway, Begin, Statement, LockConversation, CheckMember, LoadMessage, Prepare, FirstLook,
                  Allocate, Insert, Compare, Rollback, CommitUnknown, Fail, Running
    <3> QED
      BY <2>1, <3>1, Zenon DEF RequestInv, AnswerOK, Temporary
  <2>3. UNCHANGED table
    BY <1>2, ZenonT(30)
    DEF TurnAway, Begin, Statement, LockConversation, CheckMember, LoadMessage, Prepare, FirstLook,
        Allocate, Insert, Compare, Rollback, CommitUnknown, Fail, Found, GoOn, Refuse
  <2>4. row' = row \/ \E m : row' = [row EXCEPT ![r] = m]
    BY <1>2, ZenonT(30)
    DEF TurnAway, Begin, Statement, LockConversation, CheckMember, LoadMessage, Prepare, FirstLook,
        Allocate, Insert, Compare, Rollback, CommitUnknown, Fail, Found, GoOn, Refuse, Close
  <2>5. \A q \in Request \ {r} : row'[q] = row[q]
    BY <2>1, <2>4, Zenon
  <2>6. answer' = answer \/ \E code \in Turned \cup {MapSendError(x) : x \in Final \cup RetrySameIntent} :
                               answer' = [answer EXCEPT ![r] = code]
    <3>1. ASSUME NEW code \in Final \cup RetrySameIntent, answer' = [answer EXCEPT ![r] = MapSendError(code)]
          PROVE  \E x \in Turned \cup {MapSendError(y) : y \in Final \cup RetrySameIntent} :
                   answer' = [answer EXCEPT ![r] = x]
      BY <3>1, Zenon
    <3>2. \A code \in Final \cup RetrySameIntent : Refuse(r, code) => answer' = [answer EXCEPT ![r] = MapSendError(code)]
      BY DEF Refuse
    <3>3. {"SEND_CONVERSATION_NOT_FOUND", "SEND_UNAUTHORIZED", "SEND_INVALID_INPUT", "SEND_STORAGE_UNAVAILABLE",
           "SEND_SEQUENCE_EXHAUSTED", "SEND_UNKNOWN", "SEND_ID_CONFLICT"} \subseteq Final \cup RetrySameIntent
      BY Zenon DEF Final, RetrySameIntent
    <3>4. CASE Statement(r)
      <4>1. \/ answer' = answer
            \/ \E code \in {"SEND_CONVERSATION_NOT_FOUND", "SEND_UNAUTHORIZED", "SEND_INVALID_INPUT",
                            "SEND_STORAGE_UNAVAILABLE", "SEND_SEQUENCE_EXHAUSTED", "SEND_UNKNOWN",
                            "SEND_ID_CONFLICT"} : Refuse(r, code)
        BY <3>4, Zenon DEF Statement, LockConversation, CheckMember, LoadMessage, Prepare, FirstLook,
                    Allocate, Insert, Compare, Found, GoOn
      <4> QED
        BY <3>1, <3>2, <3>3, <4>1, Zenon
    <3>5. CASE TurnAway(r) \/ (\E i \in Intent : Begin(r, i)) \/ Rollback(r)
      BY <3>5, Zenon DEF TurnAway, Begin, Rollback
    <3>6. CASE CommitUnknown(r) \/ Fail(r)
      BY <3>1, <3>3, <3>6, Zenon DEF CommitUnknown, Fail
    <3> QED
      BY <1>2, <3>4, <3>5, <3>6, Zenon
  <2>7. \A code \in Turned \cup {MapSendError(x) : x \in Final \cup RetrySameIntent} : code # "SERVER_PERSISTED"
    BY Zenon DEF Turned, MapSendError, Final, RetrySameIntent, Temporary
  <2>8. \A q \in Request : (answer'[q] = "SERVER_PERSISTED") = (answer[q] = "SERVER_PERSISTED")
    BY <2>1, <2>2, <2>6, <2>7, Zenon
  <2> QED
    BY <2>2, <2>3, <2>5, <2>8, Zenon DEF table
<1> QED
  BY <1>1, <1>2, Zenon DEF Next, Finish

\* What a commit finds.
LEMMA CommitFacts ==
  ASSUME SendInv, NEW r \in Request, Commit(r) \/ LateCommit(r)
  PROVE  /\ row[r] \in Row /\ SameKey(row[r], intent[r]) /\ SameIntent(row[r], intent[r])
         /\ inserted[r] \/ row[r] \in messages
         /\ <<row[r].conv, row[r].sender>> \in members
         /\ answer[r] # "SERVER_PERSISTED" /\ pc[r] # "done"
         /\ Publish(r) /\ Close(r, IF Commit(r) THEN row[r] ELSE NoRow)
         /\ answer \in [Request -> Answer] /\ row \in [Request -> Row \cup {NoRow}]
<1>1. RequestInv(r) /\ pc[r] \in {"commit", "unknown"}
  BY DEF SendInv, Commit, LateCommit
<1>2. /\ row[r] \in Row /\ SameKey(row[r], intent[r]) /\ SameIntent(row[r], intent[r])
      /\ inserted[r] \/ row[r] \in messages
  BY <1>1, Zenon DEF RequestInv, ResultOK
<1>3. <<intent[r].conv, intent[r].sender>> \in members
  BY <1>1, Zenon DEF RequestInv, ProgressOK, Locking
<1>4. answer[r] # "SERVER_PERSISTED"
  BY <1>1, Zenon DEF RequestInv, AnswerOK, Temporary
<1>5. Publish(r) /\ Close(r, IF Commit(r) THEN row[r] ELSE NoRow)
  BY DEF Commit, LateCommit
<1> QED
  BY <1>1, <1>2, <1>3, <1>4, <1>5, Zenon DEF SameKey, SameIntent, SendInv, TypeOK

\* For any requests and members: whoever sends is still a member when the message is committed
\* (Authorize locks the membership until the end of the transaction).
THEOREM MembersSend == Spec => MemberAtCommit
<1> DEFINE Member == \A m \in messages' \ messages : <<m.conv, m.sender>> \in members
<1>1. ASSUME SendInv, Next PROVE Member
  <2>1. ASSUME NEW r \in Request, Commit(r) \/ LateCommit(r) PROVE Member
    BY <1>1, <2>1, CommitFacts, Zenon DEF Publish, table
  <2> QED
    BY <1>1, <2>1, OnlyCommits, Zenon
<1>2. SendInv /\ [Next]_vars => [Member]_vars
  BY <1>1
<1> QED
  BY <1>2, SendHolds, PTL DEF Spec, MemberAtCommit

\* For any requests: a caller whose message becomes visible has its ACK, or was told to retry
\* (CommitUnknown is mapped to a temporary error).
THEOREM CommitsNotDenied == Spec => CommitNeverDenied
<1> DEFINE Told == \A r \in Request : messages' # messages /\ pc[r] # "done" /\ pc'[r] = "done" =>
                                        answer'[r] \in {Temporary, "SERVER_PERSISTED"}
<1>1. ASSUME SendInv, Next PROVE Told
  <2>1. ASSUME NEW r \in Request, Commit(r) \/ LateCommit(r) PROVE Told
    <3>1. Close(r, IF Commit(r) THEN row[r] ELSE NoRow) /\ answer \in [Request -> Answer]
      BY <1>1, <2>1, CommitFacts, Zenon
    <3>2. \A q \in Request \ {r} : pc'[q] = pc[q]
      BY <1>1, <3>1, SMTT(30) DEF Close, Step, SendInv, TypeOK
    <3>3. answer'[r] \in {Temporary, "SERVER_PERSISTED"}
      BY <1>1, <2>1, <3>1, Zenon DEF Commit, LateCommit, SendInv, RequestInv, AnswerOK
    <3> QED
      BY <3>2, <3>3
  <2> QED
    BY <1>1, <2>1, OnlyCommits, Zenon
<1>2. SendInv /\ [Next]_vars => [Told]_vars
  BY <1>1, Zenon
<1> QED
  BY <1>2, SendHolds, PTL DEF Spec, CommitNeverDenied
------------------------------------------------------------------------------
(* The transactions implement MessageLog *)

\* The log starts empty.
LEMMA LogInit == Init => Log!Init
  BY Zenon DEF Init, Log!Init, Acked

\* A transaction that has inserted its row appends it to the log.
LEMMA CommitAppends ==
  ASSUME SendInv, NEW r \in Request, Commit(r) \/ LateCommit(r), inserted[r]
  PROVE  Log!Append(row[r])
<1>1. Publish(r)
  BY CommitFacts, Zenon
<1>2. /\ row[r].seq = lastSeq[row[r].conv] + 1
      /\ \A m \in messages : ~SameKey(m, row[r]) /\ m.server # row[r].server
  BY OwnRow, Zenon
<1>3. messages' = messages \cup {row[r]} /\ lastSeq' = [lastSeq EXCEPT ![row[r].conv] = row[r].seq]
  BY <1>1, Published, Zenon
<1> QED
  BY <1>2, <1>3 DEF Log!Append, SameKey

\* A commit that its caller hears of is acknowledged, once, with its row.
LEMMA CommitAcks ==
  ASSUME SendInv, NEW r \in Request, Commit(r) PROVE Log!Ack(r)
<1>1. /\ row[r] \in Row /\ (inserted[r] \/ row[r] \in messages)
      /\ answer[r] # "SERVER_PERSISTED" /\ Publish(r)
      /\ answer \in [Request -> Answer] /\ row \in [Request -> Row \cup {NoRow}]
  BY CommitFacts, Zenon
<1>2. answer' = [answer EXCEPT ![r] = "SERVER_PERSISTED"] /\ row' = [row EXCEPT ![r] = row[r]]
  BY Zenon DEF Commit, Close
<1>3. row[r] \in messages'
  BY <1>1, Zenon DEF Publish, table
<1>4. row' = row
  BY <1>1, <1>2, Zenon
<1>5. {q \in Request : answer'[q] = "SERVER_PERSISTED"} = {q \in Request : answer[q] = "SERVER_PERSISTED"} \cup {r}
  BY <1>1, <1>2, Zenon
<1>6. Acked' = Acked \cup {<<r, row[r]>>}
  BY <1>4, <1>5, Zenon DEF Acked
<1>7. \A a \in Acked : a[1] # r
  BY <1>1 DEF Acked
<1> QED
  BY <1>3, <1>6, <1>7, Zenon DEF Log!Ack

\* A commit that its caller does not hear of acknowledges nothing.
LEMMA LateUnacked ==
  ASSUME SendInv, NEW r \in Request, LateCommit(r) PROVE Acked' = Acked
<1>1. answer[r] # "SERVER_PERSISTED" /\ row \in [Request -> Row \cup {NoRow}]
  BY CommitFacts, Zenon
<1>2. answer' = answer /\ row' = [row EXCEPT ![r] = NoRow]
  BY DEF LateCommit, Close
<1>3. \A q \in Request : answer[q] = "SERVER_PERSISTED" => row'[q] = row[q]
  BY <1>1, <1>2
<1> QED
  BY <1>2, <1>3, Zenon DEF Acked

\* Every step of the transactions is a step of the log, or leaves it alone.
LEMMA LogStep == SendInv /\ [Next]_vars => [Log!Next]_(Log!vars)
<1> SUFFICES ASSUME SendInv, [Next]_vars PROVE [Log!Next]_(Log!vars)
  BY Zenon
<1>1. CASE UNCHANGED vars
  BY <1>1 DEF vars, table, Log!vars, Acked
<1>2. ASSUME NEW r \in Request, Commit(r) PROVE Log!Next
  <2>1. Log!Ack(r) /\ row[r] \in Row /\ Publish(r)
    BY <1>2, CommitAcks, CommitFacts, ZenonT(30)
  <2>2. CASE inserted[r]
    BY <1>2, <2>1, <2>2, CommitAppends, Zenon DEF Log!Next
  <2>3. CASE ~inserted[r]
    BY <2>1, <2>3, Zenon DEF Publish, table, Log!Next
  <2> QED
    BY <2>2, <2>3
<1>3. ASSUME NEW r \in Request, LateCommit(r) PROVE [Log!Next]_(Log!vars)
  <2>1. Acked' = Acked /\ row[r] \in Row /\ Publish(r)
    BY <1>3, LateUnacked, CommitFacts, ZenonT(30)
  <2>2. CASE inserted[r]
    BY <1>3, <2>1, <2>2, CommitAppends, Zenon DEF Log!Next
  <2>3. CASE ~inserted[r]
    BY <2>1, <2>3, Zenon DEF Publish, table, Log!vars
  <2> QED
    BY <2>2, <2>3
<1>4. ASSUME messages' = messages, lastSeq' = lastSeq,
             \A q \in Request : (answer'[q] = "SERVER_PERSISTED") = (answer[q] = "SERVER_PERSISTED"),
             \A q \in Request : answer[q] = "SERVER_PERSISTED" => row'[q] = row[q]
      PROVE  UNCHANGED Log!vars
  <2>1. Acked' = Acked
    BY <1>4 DEF Acked
  <2> QED
    BY <1>4, <2>1, Zenon DEF Log!vars
<1> QED
  BY <1>1, <1>2, <1>3, <1>4, OnlyCommits, Zenon

\* For any requests and conversations, the transactions of persist_message, with their locks,
\* their retries and their lost answers, implement a log with idempotent appends.
THEOREM SendImplementsLog == Spec => LogImplemented
  BY LogInit, LogStep, SendHolds, PTL DEF Spec, LogImplemented, Log!Spec

------------------------------------------------------------------------------
(* Readers. *)

\* A conversation has no latest message before its first, and a client has got what is stored
\* up to its position.
ReadInd ==
  /\ SendInv
  /\ \A c \in Known : lastSeq[c] = 0 => latest[c] = NoId
  /\ position \in [Client -> Nat]
  /\ received \in [Client -> SUBSET Row]
  /\ ReaderPrefix

\* The messages of a conversation after one sequence and up to another.
Segment(c, a, b) == {m \in messages : m.conv = c /\ a < m.seq /\ m.seq <= b}

\* A conversation has exactly one message per sequence.
LEMMA OnePerSequence ==
  ASSUME SendInv, NEW c \in Known
  PROVE  /\ lastSeq[c] \in Nat
         /\ \A m \in messages : m.conv = c => m.seq \in 1 .. lastSeq[c]
         /\ \A s \in 1 .. lastSeq[c] : \E m \in messages : m.conv = c /\ m.seq = s
         /\ \A m, n \in messages : m.conv = c /\ n.conv = c /\ m.seq = n.seq => m = n
         /\ \A m \in messages : m.conv = c /\ m.seq = lastSeq[c] => latest[c] = m.server
         /\ Sequences(c) = 1 .. lastSeq[c]
<1>1. lastSeq[c] \in Nat
  BY SendAssumption DEF SendInv, TypeOK
<1>2. Sequences(c) = 1 .. lastSeq[c]
  BY Zenon DEF SendInv, SequenceGapless, Sequences
<1>3. \A m \in messages : m.conv = c => m.seq \in Sequences(c)
  BY Zenon DEF Sequences
<1>4. \A s \in Sequences(c) : \E m \in messages : m.conv = c /\ m.seq = s
  BY DEF Sequences
<1>5. /\ \A m, n \in messages : m.conv = c /\ n.conv = c /\ m.seq = n.seq => m = n
      /\ \A m \in messages : m.conv = c /\ m.seq = lastSeq[c] => latest[c] = m.server
  BY Zenon DEF SendInv, SequenceGapless
<1> QED
  BY <1>1, <1>2, <1>3, <1>4, <1>5, Zenon

\* So a segment has as many messages as sequences, and no gap.
LEMMA SegmentSize ==
  ASSUME SendInv, NEW c \in Known, NEW a \in Nat, NEW b \in Nat, a <= b, b <= lastSeq[c]
  PROVE  /\ IsFiniteSet(Segment(c, a, b))
         /\ Cardinality(Segment(c, a, b)) = b - a
         /\ {m.seq : m \in Segment(c, a, b)} = a + 1 .. b
<1> DEFINE S == a + 1 .. b
           T == Segment(c, a, b)
           f == [s \in S |-> CHOOSE m \in messages : m.conv = c /\ m.seq = s]
<1>1. lastSeq[c] \in Nat /\ \A s \in S : \E m \in messages : m.conv = c /\ m.seq = s
  BY OnePerSequence
<1>2. \A s \in S : f[s] \in messages /\ f[s].conv = c /\ f[s].seq = s
  BY <1>1, Zenon
<1>3. \A m \in T : m.seq \in S /\ f[m.seq] = m
  <2> SUFFICES ASSUME NEW m \in T PROVE m.seq \in S /\ f[m.seq] = m
    BY Zenon
  <2>1. m \in messages /\ m.conv = c /\ m.seq \in S
    BY OnePerSequence DEF Segment
  <2> QED
    BY <1>2, <2>1, OnePerSequence
<1>4. \A s \in S : f[s] \in T
  BY <1>2 DEF Segment
<1>5. f \in Bijection(S, T)
  <2>1. f \in [S -> T]
    BY <1>4, Zenon
  <2>2. \A s, t \in S : f[s] = f[t] => s = t
    BY <1>2, Zenon
  <2>3. \A m \in T : \E s \in S : f[s] = m
    BY <1>3, Zenon
  <2> HIDE DEF f, S, T
  <2> QED
    BY <2>1, <2>2, <2>3, Zenon DEF Bijection, Injection, Surjection, IsInjective
<1>6. IsFiniteSet(S) /\ Cardinality(S) = b - a
  <2>1. a + 1 \in Int /\ b \in Int
    OBVIOUS
  <2>2. IsFiniteSet(a + 1 .. b) /\ Cardinality(a + 1 .. b) = IF a + 1 > b THEN 0 ELSE b - (a + 1) + 1
    BY <2>1, FS_Interval, Zenon
  <2> QED
    BY <2>2
<1>7. IsFiniteSet(T) /\ Cardinality(T) = Cardinality(S)
  BY <1>5, <1>6, FS_Bijection DEF ExistsBijection
<1>8. {m.seq : m \in T} = S
  <2>1. \A s \in S : f[s] \in T /\ f[s].seq = s
    BY <1>2, <1>4, Zenon
  <2>2. \A m \in T : m.seq \in S
    BY <1>3, Zenon
  <2> HIDE DEF f, S, T
  <2> QED
    BY <2>1, <2>2
<1> QED
  BY <1>6, <1>7, <1>8, Zenon

\* What readRows returns: the next messages, one more than the page needs if there are so many.
LEMMA RowsAre ==
  ASSUME SendInv, NEW c \in Known, NEW a \in Nat, a <= lastSeq[c], NEW limit \in Nat
  PROVE  \E b \in a .. lastSeq[c] :
           /\ Rows(c, a, limit) = Segment(c, a, b)
           /\ b = lastSeq[c] \/ b = a + limit + 1
<1>1. lastSeq[c] \in Nat /\ \A m \in messages : m.conv = c => m.seq \in 1 .. lastSeq[c]
  BY OnePerSequence
<1>2. PICK b \in a .. lastSeq[c] :
         /\ b <= a + limit + 1
         /\ b = lastSeq[c] \/ b = a + limit + 1
  <2>1. CASE lastSeq[c] <= a + limit + 1
    BY <1>1, <2>1
  <2>2. CASE lastSeq[c] > a + limit + 1
    BY <1>1, <2>2
  <2> QED
    BY <1>1, <2>1, <2>2
<1>3. b \in Nat
  BY <1>1, <1>2
<1> DEFINE range == {m \in messages : m.conv = c /\ a < m.seq /\ m.seq <= lastSeq[c]}
<1>4. \A m \in range : Cardinality({n \in range : n.seq < m.seq}) = m.seq - 1 - a
  <2> SUFFICES ASSUME NEW m \in range
               PROVE  Cardinality({n \in range : n.seq < m.seq}) = m.seq - 1 - a
    BY Zenon
  <2>1. m.seq \in 1 .. lastSeq[c] /\ a < m.seq /\ m.seq - 1 \in Nat /\ a <= m.seq - 1
    BY <1>1
  <2>2. {n \in range : n.seq < m.seq} = Segment(c, a, m.seq - 1)
    BY <1>1, <2>1 DEF Segment
  <2>3. PICK e \in Nat : e = m.seq - 1
    BY <2>1, Zenon
  <2>4. a <= e /\ e <= lastSeq[c]
    BY <1>1, <2>1, <2>3
  <2>5. Cardinality(Segment(c, a, e)) = e - a
    BY <2>4, SegmentSize, Zenon
  <2> QED
    BY <2>2, <2>3, <2>5, Zenon
<1>5. Rows(c, a, limit) = {m \in range : Cardinality({n \in range : n.seq < m.seq}) <= limit}
  BY Zenon DEF Rows
<1>6. \A m \in range : Cardinality({n \in range : n.seq < m.seq}) <= limit <=> m.seq <= b
  <2> SUFFICES ASSUME NEW m \in range
               PROVE  Cardinality({n \in range : n.seq < m.seq}) <= limit <=> m.seq <= b
    BY Zenon
  <2>1. m.seq \in 1 .. lastSeq[c]
    BY <1>1, Zenon
  <2>2. Cardinality({n \in range : n.seq < m.seq}) = m.seq - 1 - a
    BY <1>4, Zenon
  <2> QED
    BY <1>1, <1>2, <1>3, <2>1, <2>2
<1>7. \A m \in messages : m \in range /\ m.seq <= b <=> m \in Segment(c, a, b)
  BY <1>1, <1>2, <1>3 DEF Segment
<1>8. Rows(c, a, limit) = Segment(c, a, b)
  BY <1>5, <1>6, <1>7, Zenon DEF Segment
<1> QED
  BY <1>2, <1>8

\* Segments with the same messages end at the same sequence.
LEMMA SegmentEnds ==
  ASSUME SendInv, NEW c \in Known, NEW a \in Nat, NEW b \in a .. lastSeq[c], NEW e \in a .. lastSeq[c],
         Segment(c, a, b) = Segment(c, a, e)
  PROVE  b = e
<1>1. lastSeq[c] \in Nat
  BY OnePerSequence, Zenon
<1>2. b \in Nat /\ e \in Nat /\ a <= b /\ b <= lastSeq[c] /\ a <= e /\ e <= lastSeq[c]
  BY <1>1
<1>3. Cardinality(Segment(c, a, b)) = b - a /\ Cardinality(Segment(c, a, e)) = e - a
  BY <1>2, SegmentSize, Zenon
<1> QED
  BY <1>2, <1>3

\* The checks of a read pass at every position of a conversation: validateHead, the cursor and
\* validateRows.
LEMMA ChecksPass ==
  ASSUME ReadInd, NEW c \in Known, NEW a \in 0 .. lastSeq[c], NEW has \in BOOLEAN, has \/ a = 0,
         NEW limit \in Nat
  PROVE  ValidHead(c) /\ ValidCursor(c, has, a) /\ ValidRows(c, has, a, Rows(c, a, limit))
<1>1. SendInv /\ (lastSeq[c] = 0 => latest[c] = NoId)
  BY Zenon DEF ReadInd
<1>2. lastSeq[c] \in Nat /\ Sequences(c) = 1 .. lastSeq[c]
  BY <1>1, OnePerSequence, Zenon
<1>3. ValidHead(c)
  <2>1. CASE lastSeq[c] = 0
    BY <1>1, <1>2, <2>1 DEF ValidHead
  <2>2. CASE lastSeq[c] # 0
    <3>1. \E m \in messages : m.conv = c /\ m.server = latest[c] /\ m.seq = lastSeq[c]
      BY <1>1, <1>2, <2>2, OnePerSequence
    <3>2. {1, lastSeq[c]} \subseteq Sequences(c) /\ Sequences(c) \subseteq 1 .. lastSeq[c]
      BY <1>2, <2>2
    <3> QED
      BY <2>2, <3>1, <3>2, Zenon DEF ValidHead
  <2> QED
    BY <2>1, <2>2, Zenon
<1>4. ValidCursor(c, has, a)
  BY <1>2 DEF ValidCursor
<1>5. a \in Nat /\ a <= lastSeq[c]
  BY <1>2
<1>6. PICK b \in a .. lastSeq[c] :
         Rows(c, a, limit) = Segment(c, a, b) /\ (b = lastSeq[c] \/ b = a + limit + 1)
  BY <1>1, <1>5, RowsAre, Zenon
<1>7. b \in Nat /\ a <= b /\ b <= lastSeq[c]
  BY <1>2, <1>5, <1>6
<1>8. /\ Cardinality(Segment(c, a, b)) = b - a
      /\ {m.seq : m \in Segment(c, a, b)} = a + 1 .. b
  BY <1>1, <1>5, <1>7, SegmentSize, Zenon
<1>9. ValidRows(c, has, a, Segment(c, a, b))
  <2>1. CASE Segment(c, a, b) = {}
    <3>1. b = a
      BY <1>5, <1>7, <1>8, <2>1, FS_EmptySet
    <3>2. lastSeq[c] = a
      BY <1>5, <1>6, <3>1
    <3> QED
      BY <2>1, <3>2, Zenon DEF ValidRows
  <2>2. CASE Segment(c, a, b) # {}
    <3>1. a + Cardinality(Segment(c, a, b)) = b
      BY <1>5, <1>7, <1>8
    <3> QED
      BY <1>8, <2>2, <3>1, Zenon DEF ValidRows
  <2> QED
    BY <2>1, <2>2
<1> QED
  BY <1>3, <1>4, <1>6, <1>9, Zenon

\* A page answers a request: with or without a position where that is 0, and with some limit.
LEMMA PageAsked ==
  ASSUME NEW k, NEW a, NEW page \in Pages(k, a)
  PROVE  \E has \in BOOLEAN, limit \in PageLimits, fit \in 1 .. MaxPageItems :
           page = Page(k, has, a, limit, fit) /\ (has \/ a = 0)
<1> DEFINE R == IF a = 0 THEN BOOLEAN ELSE {TRUE}
<1>1. Pages(k, a) = {Page(k, has, a, limit, fit) :
                       has \in R, limit \in PageLimits, fit \in 1 .. MaxPageItems}
  BY DEF Pages
<1> HIDE DEF R
<1>2. \E has \in R, limit \in PageLimits, fit \in 1 .. MaxPageItems : page = Page(k, has, a, limit, fit)
  BY <1>1
<1> QED
  BY <1>2, Zenon DEF R

\* A page of a member is a segment after the position; it ends at the continuation, and at the
\* head if there is no more.
LEMMA PageIsSegment ==
  ASSUME ReadInd, NEW k \in Client, NEW a \in 0 .. lastSeq[k[1]], NEW page \in Pages(k, a),
         k \in members
  PROVE  \/ page.code = "SYNC_LIMIT_EXCEEDED"
         \/ /\ page.code = "ok"
            /\ \E e \in a .. lastSeq[k[1]] :
                 /\ page.items = Segment(k[1], a, e)
                 /\ NextAfterSeq(k, a, page) = e
                 /\ IF page.more THEN page.items # {} ELSE e = lastSeq[k[1]]
<1>1. PICK c \in Known : c = k[1]
  BY ReadAssumption DEF Client
<1>2. SendInv /\ lastSeq[c] \in Nat /\ a \in Nat /\ a <= lastSeq[c]
  BY <1>1, OnePerSequence DEF ReadInd
<1>3. PICK has \in BOOLEAN, limit \in PageLimits, fit \in 1 .. MaxPageItems :
         page = Page(k, has, a, limit, fit) /\ (has \/ a = 0)
  BY PageAsked, Zenon
<1>4. /\ limit \in Nat /\ fit \in Nat /\ fit >= 1
      /\ Limit(limit) \in Nat /\ Limit(limit) >= 1
  BY <1>3, ReadAssumption DEF Limit
<1>5. ValidHead(c) /\ ValidCursor(c, has, a) /\ ValidRows(c, has, a, Rows(c, a, Limit(limit)))
  BY <1>1, <1>3, <1>4, ChecksPass, Zenon
<1>6. page = IF limit > MaxPageItems THEN Refused("SYNC_LIMIT_EXCEEDED")
             ELSE AssemblePage(Rows(c, a, Limit(limit)), a, Limit(limit), fit)
  BY <1>1, <1>3, <1>5, Zenon DEF Page
<1>7. CASE limit > MaxPageItems
  BY <1>6, <1>7, Zenon DEF Refused
<1>8. CASE ~(limit > MaxPageItems)
  <2>1. PICK b \in a .. lastSeq[c] :
           /\ Rows(c, a, Limit(limit)) = Segment(c, a, b)
           /\ b = lastSeq[c] \/ b = a + Limit(limit) + 1
    BY <1>2, <1>4, RowsAre, Zenon
  <2>2. b \in Nat /\ a <= b /\ b <= lastSeq[c]
    BY <1>2, <2>1
  <2>3. PICK e \in a .. b :
           /\ e <= a + Limit(limit) /\ e <= a + fit
           /\ e = b \/ e = a + Limit(limit) \/ e = a + fit
    <3> DEFINE x == a + Limit(limit)
               y == a + fit
    <3>1. x \in Nat /\ y \in Nat /\ a <= x /\ a <= y
      BY <1>2, <1>4
    <3>2. CASE b <= x /\ b <= y
      BY <1>2, <2>2, <3>1, <3>2
    <3>3. CASE x <= b /\ x <= y
      BY <1>2, <2>2, <3>1, <3>3
    <3>4. CASE y <= b /\ y <= x
      BY <1>2, <2>2, <3>1, <3>4
    <3> QED
      BY <2>2, <3>1, <3>2, <3>3, <3>4
  <2>4. e \in Nat /\ a <= e /\ e <= b /\ e \in a .. lastSeq[c]
    BY <1>2, <2>2, <2>3
  <2>5. \A m \in messages : m.conv = c => m.seq \in Nat
    BY <1>2, OnePerSequence
  <2>6. {m \in Segment(c, a, b) : m.seq <= a + Limit(limit) /\ m.seq <= a + fit} = Segment(c, a, e)
    <3>1. \A m \in messages :
            m.conv = c =>
              ((m.seq <= b /\ m.seq <= a + Limit(limit) /\ m.seq <= a + fit) <=> m.seq <= e)
      BY <1>2, <1>4, <2>2, <2>3, <2>4, <2>5
    <3> QED
      BY <3>1, Zenon DEF Segment
  <2>7. page = [code |-> "ok", items |-> Segment(c, a, e), more |-> Segment(c, a, e) # Segment(c, a, b)]
    BY <1>6, <1>8, <2>1, <2>6, Zenon DEF AssemblePage
  <2>8. page.code = "ok" /\ page.items = Segment(c, a, e) /\ (page.more <=> Segment(c, a, e) # Segment(c, a, b))
    BY <2>7, Zenon
  <2>9. {m.seq : m \in Segment(c, a, e)} = a + 1 .. e
    BY <1>2, <2>2, <2>4, SegmentSize, SMTT(30)
  <2>10. NextAfterSeq(k, a, page) = e
    <3>1. CASE page.items = {}
      <4>1. Segment(c, a, e) = {}
        BY <2>8, <3>1, Zenon
      <4>2. a + 1 .. e = {}
        BY <2>9, <4>1, Zenon
      <4>3. e = a
        BY <1>2, <2>4, <4>2
      <4> QED
        BY <3>1, <4>3, Zenon DEF NextAfterSeq
    <3>2. CASE page.items # {}
      <4>1. \A m \in page.items : m.seq \in a + 1 .. e
        BY <2>8, <2>9, Zenon
      <4>2. a + 1 .. e # {}
        BY <3>2, <4>1, Zenon
      <4>3. e \in a + 1 .. e
        BY <1>2, <2>4, <4>2
      <4>4. PICK last \in page.items : last.seq = e
        BY <2>8, <2>9, <4>3, Zenon
      <4>5. \A s \in {m.seq : m \in page.items} : (\A m \in page.items : m.seq <= s) <=> s = e
        BY <1>2, <2>4, <4>1, <4>4
      <4>6. e \in {m.seq : m \in page.items}
        BY <4>4, Zenon
      <4> QED
        BY <3>2, <4>5, <4>6, Zenon DEF NextAfterSeq
    <3> QED
      BY <3>1, <3>2, Zenon
  <2>11. page.more => page.items # {}
    <3> SUFFICES ASSUME page.more, page.items = {} PROVE FALSE
      BY Zenon
    <3>1. a + 1 .. e = {}
      BY <2>8, <2>9
    <3>2. e = a
      BY <1>2, <2>4, <3>1
    <3>3. e = b
      BY <1>2, <1>4, <2>3, <3>2
    <3> QED
      BY <2>8, <3>3, Zenon
  <2>12. ~page.more => e = lastSeq[c]
    <3> SUFFICES ASSUME ~page.more PROVE e = lastSeq[c]
      BY Zenon
    <3>1. Segment(c, a, e) = Segment(c, a, b)
      BY <2>8, Zenon
    <3>2. e = b
      BY <1>2, <2>1, <2>4, <3>1, SegmentEnds, Zenon
    <3> QED
      BY <1>2, <1>4, <2>1, <2>3, <3>2
  <2> QED
    BY <1>1, <2>4, <2>8, <2>10, <2>11, <2>12, Zenon
<1> QED
  BY <1>7, <1>8

\* A client is never ahead of its conversation.
LEMMA NotAhead ==
  ASSUME ReadInd, NEW k \in Client
  PROVE  /\ k[1] \in Known /\ lastSeq[k[1]] \in Nat
         /\ position[k] \in 0 .. lastSeq[k[1]]
<1>1. k[1] \in Known
  BY ReadAssumption, Zenon DEF Client
<1>2. lastSeq[k[1]] \in Nat /\ \A m \in messages : m.conv = k[1] => m.seq \in 1 .. lastSeq[k[1]]
  BY <1>1, OnePerSequence, Zenon DEF ReadInd
<1>3. position[k] \in Nat
  BY Zenon DEF ReadInd
<1>4. ASSUME position[k] # 0 PROVE position[k] <= lastSeq[k[1]]
  <2>1. position[k] \in {m.seq : m \in received[k]}
    BY <1>3, <1>4 DEF ReadInd, ReaderPrefix
  <2>2. \A m \in received[k] : m \in messages /\ m.conv = k[1]
    BY DEF ReadInd, ReaderPrefix
  <2> QED
    BY <1>2, <2>1, <2>2
<1> QED
  BY <1>1, <1>2, <1>3, <1>4

\* Readers start with nothing.
LEMMA InitRead == ReadInit => ReadInd
<1> SUFFICES ASSUME ReadInit PROVE ReadInd
  OBVIOUS
<1>1. SendInv
  BY InitSend, Zenon DEF ReadInit
<1>2. \A c \in Known : latest[c] = NoId
  BY Zenon DEF ReadInit, Init
<1>3. position \in [Client -> Nat] /\ received \in [Client -> SUBSET Row]
  BY Zenon DEF ReadInit
<1>4. messages = {}
  BY Zenon DEF ReadInit, Init
<1>5. ReaderPrefix
  <2> SUFFICES ASSUME NEW k \in Client
               PROVE  /\ {m.seq : m \in received[k]} = 1 .. position[k]
                      /\ received[k] = {m \in messages : m.conv = k[1] /\ m.seq <= position[k]}
    BY Zenon DEF ReaderPrefix
  <2>1. received[k] = {} /\ position[k] = 0
    BY DEF ReadInit
  <2> QED
    BY <1>4, <2>1
<1> QED
  BY <1>1, <1>2, <1>3, <1>5, Zenon DEF ReadInd

\* Whatever the senders do, a new message comes after every position: what a client has got
\* remains all there is up to its own.
LEMMA SendKeepsReaders ==
  ASSUME ReadInd, [Next]_vars, UNCHANGED client
  PROVE  ReadInd'
<1>1. SendInv /\ SendInv'
  BY StepSend, Zenon DEF ReadInd
<1>2. UNCHANGED <<position, received>>
  BY Zenon DEF client
<1> DEFINE Other(c) == /\ lastSeq'[c] = lastSeq[c] /\ latest'[c] = latest[c]
                       /\ \A m : m \in messages' /\ m.conv = c <=> m \in messages /\ m.conv = c
           Longer(c) == /\ lastSeq'[c] = lastSeq[c] + 1
                        /\ \E n : messages' = messages \cup {n} /\ n.seq = lastSeq[c] + 1
<1>3. \A c \in Known : Other(c) \/ Longer(c)
  <2>1. CASE messages' = messages /\ lastSeq' = lastSeq /\ latest' = latest
    BY <2>1, Zenon
  <2>2. ASSUME NEW r \in Request, Commit(r) \/ LateCommit(r) PROVE \A c \in Known : Other(c) \/ Longer(c)
    <3>1. Publish(r) /\ row[r] \in Row /\ RequestInv(r)
      BY <1>1, <2>2, CommitFacts, Zenon DEF SendInv
    <3>2. CASE ~inserted[r]
      BY <3>1, <3>2, Zenon DEF Publish, table
    <3>3. CASE inserted[r]
      <4>1. row[r].seq = lastSeq[row[r].conv] + 1 /\ row[r].conv \in Known
        BY <3>1, <3>3, Zenon DEF RequestInv, InsertedOK, Row
      <4>2. /\ messages' = messages \cup {row[r]}
            /\ lastSeq' = [lastSeq EXCEPT ![row[r].conv] = row[r].seq]
            /\ latest' = [latest EXCEPT ![row[r].conv] = row[r].server]
        BY <3>1, <3>3, Zenon DEF Publish
      <4>3. DOMAIN lastSeq = Known /\ DOMAIN latest = Known
        BY <1>1, Zenon DEF SendInv, TypeOK
      <4>4. \A c \in Known : c # row[r].conv => Other(c)
        BY <4>1, <4>2, <4>3, Zenon
      <4>5. Longer(row[r].conv)
        BY <4>1, <4>2, <4>3, Zenon
      <4> HIDE DEF Other, Longer
      <4> QED
        BY <4>4, <4>5, Zenon
    <3> QED
      BY <3>2, <3>3, Zenon
  <2>3. CASE UNCHANGED vars
    BY <2>1, <2>3, Zenon DEF vars, table
  <2> HIDE DEF Other, Longer
  <2> QED
    BY <1>1, <2>1, <2>2, <2>3, OnlyCommits, Zenon
<1>4. \A c \in Known : lastSeq'[c] = 0 => latest'[c] = NoId
  <2> SUFFICES ASSUME NEW c \in Known, lastSeq'[c] = 0 PROVE latest'[c] = NoId
    BY Zenon
  <2>1. lastSeq[c] \in Nat
    BY <1>1, OnePerSequence, Zenon
  <2>2. Other(c)
    BY <1>3, <2>1
  <2> QED
    BY <2>2, Zenon DEF ReadInd
<1>5. ReaderPrefix'
  <2> SUFFICES ASSUME NEW k \in Client
               PROVE  /\ {m.seq : m \in received[k]} = 1 .. position[k]
                      /\ received[k] = {m \in messages' : m.conv = k[1] /\ m.seq <= position[k]}
    BY <1>2, Zenon DEF ReaderPrefix
  <2>1. /\ {m.seq : m \in received[k]} = 1 .. position[k]
        /\ received[k] = {m \in messages : m.conv = k[1] /\ m.seq <= position[k]}
    BY Zenon DEF ReadInd, ReaderPrefix
  <2>2. k[1] \in Known /\ lastSeq[k[1]] \in Nat /\ position[k] \in Nat /\ position[k] <= lastSeq[k[1]]
    BY NotAhead
  <2>3. CASE Other(k[1])
    BY <2>1, <2>3, Zenon
  <2>4. CASE Longer(k[1])
    <3>1. PICK n : messages' = messages \cup {n} /\ n.seq = lastSeq[k[1]] + 1
      BY <2>4, Zenon
    <3>2. ~(n.seq <= position[k])
      BY <2>2, <3>1
    <3> QED
      BY <2>1, <3>1, <3>2, Zenon
  <2> QED
    BY <1>3, <2>2, <2>3, <2>4, Zenon
<1> QED
  BY <1>1, <1>2, <1>4, <1>5, Zenon DEF ReadInd

\* A page extends what a client has got by exactly the next messages.
LEMMA ReadKeepsReaders ==
  ASSUME ReadInd, NEW k \in Client, ReadAfterSeq(k)
  PROVE  ReadInd'
<1>1. PICK page \in Pages(k, position[k]) :
         /\ page.code = "ok"
         /\ position' = [position EXCEPT ![k] = NextAfterSeq(k, position[k], page)]
         /\ received' = [received EXCEPT ![k] = received[k] \cup page.items]
  BY Zenon DEF ReadAfterSeq, ReadInd
<1>2. UNCHANGED vars
  BY DEF ReadAfterSeq
<1>3. k \in members
  <2> SUFFICES ASSUME k \notin members PROVE FALSE
    BY Zenon
  <2>1. PICK has \in BOOLEAN, limit \in PageLimits, fit \in 1 .. MaxPageItems :
           page = Page(k, has, position[k], limit, fit)
    BY <1>1, PageAsked
  <2>2. page = Refused("SYNC_FORBIDDEN")
    BY <2>1, Zenon DEF Page
  <2> QED
    BY <1>1, <2>2 DEF Refused
<1>4. /\ k[1] \in Known /\ lastSeq[k[1]] \in Nat
      /\ position[k] \in 0 .. lastSeq[k[1]]
  BY NotAhead, Zenon
<1>5. PICK e \in position[k] .. lastSeq[k[1]] :
         page.items = Segment(k[1], position[k], e) /\ NextAfterSeq(k, position[k], page) = e
  BY <1>1, <1>3, <1>4, PageIsSegment, Zenon
<1>6. e \in Nat /\ position[k] \in Nat /\ position[k] <= e /\ e <= lastSeq[k[1]]
  BY <1>4, <1>5
<1>7. /\ position' = [position EXCEPT ![k] = e]
      /\ received' = [received EXCEPT ![k] = received[k] \cup Segment(k[1], position[k], e)]
  BY <1>1, <1>5, Zenon
<1>8. SendInv /\ messages \subseteq Row /\ SendInv'
  <2>1. SendInv /\ messages \subseteq Row
    BY Zenon DEF ReadInd, SendInv, TypeOK
  <2> QED
    BY <1>2, <2>1, StepSend, Zenon
<1>9. position' \in [Client -> Nat] /\ received' \in [Client -> SUBSET Row]
  BY <1>6, <1>7, <1>8, Zenon DEF ReadInd, Segment
<1>10. /\ position'[k] = e /\ received'[k] = received[k] \cup Segment(k[1], position[k], e)
       /\ \A j \in Client \ {k} : position'[j] = position[j] /\ received'[j] = received[j]
  BY <1>7, Zenon DEF ReadInd
<1>11. \A j \in Client : /\ {m.seq : m \in received[j]} = 1 .. position[j]
                         /\ received[j] = {m \in messages : m.conv = j[1] /\ m.seq <= position[j]}
  BY Zenon DEF ReadInd, ReaderPrefix
<1>12. received'[k] = {m \in messages : m.conv = k[1] /\ m.seq <= e}
  <2>1. \A m \in messages : m.conv = k[1] => m.seq \in Nat
    BY <1>4, <1>8, OnePerSequence
  <2>2. \A m \in messages : m.conv = k[1] =>
          (m.seq <= e <=> (m.seq <= position[k] \/ (position[k] < m.seq /\ m.seq <= e)))
    BY <1>6, <2>1
  <2> QED
    BY <1>10, <1>11, <2>2, Zenon DEF Segment
<1>13. {m.seq : m \in received'[k]} = 1 .. e
  <2>1. {m.seq : m \in Segment(k[1], position[k], e)} = position[k] + 1 .. e
    BY <1>4, <1>6, <1>8, SegmentSize, Zenon
  <2>2. {m.seq : m \in received'[k]} =
          {m.seq : m \in received[k]} \cup {m.seq : m \in Segment(k[1], position[k], e)}
    BY <1>10, Zenon
  <2>3. 1 .. e = (1 .. position[k]) \cup (position[k] + 1 .. e)
    BY <1>6
  <2> QED
    BY <1>11, <2>1, <2>2, <2>3, Zenon
<1>14. ReaderPrefix'
  <2>1. messages' = messages
    BY <1>2, Zenon DEF vars, table
  <2>2. \A j \in Client :
          /\ {m.seq : m \in received'[j]} = 1 .. position'[j]
          /\ received'[j] = {m \in messages : m.conv = j[1] /\ m.seq <= position'[j]}
    <3> SUFFICES ASSUME NEW j \in Client
                 PROVE  /\ {m.seq : m \in received'[j]} = 1 .. position'[j]
                        /\ received'[j] = {m \in messages : m.conv = j[1] /\ m.seq <= position'[j]}
      BY Zenon
    <3>1. CASE j = k
      BY <3>1, <1>10, <1>12, <1>13, Zenon
    <3>2. CASE j # k
      BY <3>2, <1>10, <1>11, Zenon
    <3> QED
      BY <3>1, <3>2, Zenon
  <2> QED
    BY <2>1, <2>2, Zenon DEF ReaderPrefix
<1> QED
  BY <1>2, <1>8, <1>9, <1>14, Zenon DEF ReadInd, vars, table

\* The invariant of senders and readers.
LEMMA ReadHolds == ReadSpec => []ReadInd
<1>1. ReadInd /\ [ReadNext]_readVars => ReadInd'
  <2> SUFFICES ASSUME ReadInd, [ReadNext]_readVars PROVE ReadInd'
    OBVIOUS
  <2>1. CASE [Next]_vars /\ UNCHANGED client
    BY <2>1, SendKeepsReaders, Zenon
  <2>2. ASSUME NEW k \in Client, ReadAfterSeq(k) PROVE ReadInd'
    BY <2>2, ReadKeepsReaders, Zenon
  <2> QED
    BY <2>1, <2>2, Zenon DEF ReadNext, readVars
<1> QED
  BY <1>1, InitRead, PTL DEF ReadSpec

\* For any requests, clients, page limits and sizes: a client that pages through a conversation
\* has got every message up to its position, exactly as stored, whatever commits, rolls back or
\* is lost in between; and a member is served at every position, with items on every page
\* that is not the last (Repository.read, validateHead, validateRows, assemble).
THEOREM ReadersServed == ReadSpec => []ReaderInv
<1>1. ReadInd => ReaderInv
  <2> SUFFICES ASSUME ReadInd PROVE PagesServed
    BY DEF ReaderInv, ReadInd
  <2> SUFFICES ASSUME NEW k \in Client, k \in members, NEW after \in 0 .. position[k],
                      NEW page \in Pages(k, after)
               PROVE  /\ page.code \in {"ok", "SYNC_LIMIT_EXCEEDED"}
                      /\ page.code = "ok" =>
                           IF page.more THEN page.items # {} ELSE NextAfterSeq(k, after, page) = lastSeq[k[1]]
    BY Zenon DEF PagesServed
  <2>1. after \in 0 .. lastSeq[k[1]]
    BY NotAhead
  <2> QED
    BY <2>1, PageIsSegment, Zenon
<1> QED
  BY <1>1, ReadHolds, PTL
==============================================================================
