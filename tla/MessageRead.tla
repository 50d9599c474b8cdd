----------------------------- MODULE MessageRead -----------------------------
(***************************************************************************)
(* Message delta reads (server/sync/message, server/storage/messagesync)   *)
(* over the tables that the transactions of MessageSend write, and clients *)
(* that page through a conversation.                                       *)
(*                                                                         *)
(* Repository.Read runs in one REPEATABLE READ, read-only transaction, so  *)
(* that all its statements see one snapshot of the committed rows: a read  *)
(* is one action.  It leaves nothing behind on the server.                 *)
(***************************************************************************)
EXTENDS MessageSend

CONSTANTS
  Followed,      \* conversations that clients page through
  PageLimits,    \* limits they ask for
  MaxPageItems

ASSUME ReadAssumption ==
  /\ Followed \subseteq Known
  /\ PageLimits \subseteq Nat
  /\ MaxPageItems \in Nat \ {0}

VARIABLES
  position,   \* NextAfterSeq of the client's last page; 0 is none
  received    \* the messages each client has got

client == <<position, received>>
readVars == <<vars, client>>

Client == Followed \X Sender

ReadInit ==
  /\ Init
  /\ position = [k \in Client |-> 0]
  /\ received = [k \in Client |-> {}]

------------------------------------------------------------------------------
Sequences(c) == {m.seq : m \in {x \in messages : x.conv = c}}

\* validateHead: the pointer and the edges of the rows agree with last_seq.
ValidHead(c) ==
  IF lastSeq[c] = 0 THEN latest[c] = NoId /\ Sequences(c) = {}
  ELSE /\ \E m \in messages : m.conv = c /\ m.server = latest[c] /\ m.seq = lastSeq[c]
       /\ {1, lastSeq[c]} \subseteq Sequences(c)
       /\ Sequences(c) \subseteq 1 .. lastSeq[c]

\* The continuation of a client: a sequence that exists, or none.
ValidCursor(c, has, after) ==
  /\ after <= lastSeq[c]
  /\ IF has THEN after = 0 \/ after \in Sequences(c) ELSE after = 0

\* normalizeLimit.
Limit(limit) == IF limit = 0 THEN MaxPageItems ELSE limit

\* readRows, with one row more than the page needs.
Rows(c, after, limit) ==
  LET range == {m \in messages : m.conv = c /\ after < m.seq /\ m.seq <= lastSeq[c]}
  IN  {m \in range : Cardinality({n \in range : n.seq < m.seq}) <= limit}

\* validateRows: they follow the cursor without a gap, and are missing only at the head.
ValidRows(c, has, after, rows) ==
  IF rows = {} THEN lastSeq[c] = IF has THEN after ELSE 0
  ELSE {m.seq : m \in rows} = after + 1 .. after + Cardinality(rows)

Refused(code) == [code |-> code, items |-> {}, more |-> FALSE]

\* The limit and then the size cut a page; its first item always fits.
AssemblePage(rows, after, limit, fit) ==
  LET items == {m \in rows : m.seq <= after + limit /\ m.seq <= after + fit}
  IN  [code |-> "ok", items |-> items, more |-> items # rows]

\* Repository.read and Service.assemble, when fit items are small enough.
Page(k, has, after, limit, fit) ==
  LET c == k[1]
      rows == Rows(c, after, Limit(limit))
  IN  IF k \notin members THEN Refused("SYNC_FORBIDDEN")
      ELSE IF ~ValidHead(c) THEN Refused("SYNC_STORAGE_UNAVAILABLE")
      ELSE IF ~ValidCursor(c, has, after) THEN Refused("SYNC_INVALID_CURSOR")
      ELSE IF limit > MaxPageItems THEN Refused("SYNC_LIMIT_EXCEEDED")
      ELSE IF ~ValidRows(c, has, after, rows) THEN Refused("SYNC_STORAGE_UNAVAILABLE")
      ELSE AssemblePage(rows, after, Limit(limit), fit)

\* Mutant: the continuation is the head of the snapshot.
NextAfterHead(k, after, page) == IF page.items = {} THEN after ELSE lastSeq[k[1]]

\* NextAfterSeq: the last item of the page; a page without items leaves the client where it is.
NextAfterSeq(k, after, page) ==
  IF page.items = {} THEN after
  ELSE CHOOSE s \in {m.seq : m \in page.items} : \A m \in page.items : m.seq <= s

\* The pages a client may get for what comes after a position; 0 may be left out.
Pages(k, after) ==
  {Page(k, has, after, limit, fit) :
     has \in IF after = 0 THEN BOOLEAN ELSE {TRUE}, limit \in PageLimits, fit \in 1 .. MaxPageItems}

\* A client asks for its next page.  A refused read leaves it where it is.
ReadAfterSeq(k) ==
  /\ \E page \in Pages(k, position[k]) :
       /\ page.code = "ok"
       /\ position' = [position EXCEPT ![k] = NextAfterSeq(k, @, page)]
       /\ received' = [received EXCEPT ![k] = @ \cup page.items]
  /\ UNCHANGED vars

ReadNext == (Next /\ UNCHANGED client) \/ \E k \in Client : ReadAfterSeq(k)

ReadSpec == ReadInit /\ [][ReadNext]_readVars

------------------------------------------------------------------------------
(* Properties *)

\* A client that continues where its last page ended has got each message up to there, once and
\* as it is stored: sends that commit between two pages are never skipped (assemble, readRows).
ReaderPrefix ==
  \A k \in Client :
    /\ {m.seq : m \in received[k]} = 1 .. position[k]
    /\ received[k] = {m \in messages : m.conv = k[1] /\ m.seq <= position[k]}

\* Whatever transactions are open, rolled back or lost, a member gets a page at every position
\* up to its own; only the last page says that there is no more, and the others have items
\* (validateHead, validateRows and anchorPresent never meet what a send has left half done).
PagesServed ==
  \A k \in Client :
    k \in members =>
      \A after \in 0 .. position[k] : \A page \in Pages(k, after) :
        /\ page.code \in {"ok", "SYNC_LIMIT_EXCEEDED"}
        /\ page.code = "ok" =>
             IF page.more THEN page.items # {} ELSE NextAfterSeq(k, after, page) = lastSeq[k[1]]

\* What readers of a conversation rely on.
ReaderInv == ReaderPrefix /\ PagesServed
==============================================================================
