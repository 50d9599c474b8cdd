--------------------------- MODULE ConversationSync ---------------------------
(***************************************************************************)
(* The conversation projection of one account and the pages read from it:  *)
(* server/storage/conversationsync (batches, snapshot reads, the floor)    *)
(* and server/sync/conversation (bootstrap and delta rounds, cursors).     *)
(*                                                                         *)
(* A batch holds the account row lock from PrepareBatch to COMMIT, and a   *)
(* page is read in one REPEATABLE READ snapshot, so each is one step.  The *)
(* server keeps nothing between pages: a lost answer is a step that does   *)
(* not happen, and a round goes on from the cursor while writers commit,   *)
(* members leave, the floor moves and time passes.                         *)
(*                                                                         *)
(* Conversation ids are the numbers 1 .. Conversations in key order; a     *)
(* revision is an index of changes, whose rows are never altered.  The     *)
(* client is the reference consumer of specs/sync: it replaces its view    *)
(* with a bootstrap and applies an item if its revision is greater.        *)
(***************************************************************************)
EXTENDS Integers, FiniteSets, FiniteSetsExt, Sequences

CONSTANTS
  Conversations,   \* number of conversations
  MaxSequence,     \* the largest revision
  MaxEpoch,        \* the largest epoch
  MaxMessages,     \* bound: messages per conversation
  ScanBudget,      \* MaxDirectoryCandidates: directory keys examined per page
  PageLimits,      \* page limits a client asks for
  Capacity,        \* items that fit in MaxResponseBytes
  RoundLife, CheckpointLife,
  MaxTime          \* bound: the clock

ASSUME SyncAssumption ==
  /\ {Conversations, MaxSequence, MaxEpoch, ScanBudget, Capacity} \subseteq Nat \ {0}
  /\ {RoundLife, CheckpointLife} \subseteq Nat \ {0}
  /\ {MaxMessages, MaxTime} \subseteq Nat
  /\ PageLimits \subseteq Nat \ {0}

VARIABLES
  ready,    \* the account row exists
  members,  \* the conversations the user is a member of
  last,     \* last_seq of each conversation
  changes,  \* im_conversation_sync_changes of the account
  epoch, floor,
  now,
  view,     \* the client's revision of each conversation; 0 is none
  cursor,   \* the client's cursor
  previous, \* the cursor of the page before, in the same round
  begun     \* when the round of the cursor began

source == <<members, last>>
client == <<view, cursor, previous, begun>>
vars == <<ready, source, changes, epoch, floor, now, client>>

Conv == 1 .. Conversations
Item == [conv : Conv, kind : {"upsert", "remove"}, seq : 0 .. MaxMessages]

NoCursor == [kind |-> "none", epoch |-> 1, fence |-> 0, at |-> 0, end |-> 0, limit |-> 1, expires |-> 0]

Init ==
  /\ ready = FALSE
  /\ members = {}
  /\ last = [c \in Conv |-> 0]
  /\ changes = <<>>
  /\ epoch = 1 /\ floor = 0
  /\ now = 0
  /\ view = [c \in Conv |-> 0]
  /\ cursor = NoCursor /\ previous = NoCursor
  /\ begun = 0

head == Len(changes)

\* latest(): the last revision of a conversation up to a fence, 0 if there is none.
Latest(c, fence) == Max({0} \cup {r \in 1 .. fence : changes[r].conv = c})

Upsert(r) == r # 0 /\ changes[r].kind = "upsert"

\* The directory im_conversation_sync_keys: a key is inserted with the first revision.
Keys == {changes[r].conv : r \in 1 .. head}

------------------------------------------------------------------------------
(* Writers *)

InitializeEmptyAccount ==
  /\ ~ready
  /\ members = {} /\ changes = <<>>
  /\ ready' = TRUE
  /\ UNCHANGED <<source, changes, epoch, floor, now, client>>

\* Batch.record: the fact is compared with the membership and the summary as the batch has
\* left them; an equal fact takes no revision, any refusal rolls the batch back.
Record(c, kind) ==
  LET item == [conv |-> c, kind |-> kind, seq |-> IF kind = "upsert" THEN last'[c] ELSE 0]
      prior == Latest(c, head)
  IN  /\ (kind = "upsert") <=> c \in members'
      /\ kind = "remove" => prior # 0
      /\ IF prior # 0 /\ changes[prior] = item
         THEN UNCHANGED changes
         ELSE head < MaxSequence /\ changes' = Append(changes, item)

\* A source mutation: somebody joins or leaves, or a message is stored, or nothing happens.
Mutate(c) ==
  /\ members' \in {members, members \cup {c}, members \ {c}}
  /\ \E s \in {last[c], last[c] + 1} : s <= MaxMessages /\ last' = [last EXCEPT ![c] = s]

\* A batch: PrepareBatch, a source mutation, RecordUpsert or RecordRemoval, COMMIT.
Batch(c) ==
  /\ ready
  /\ Mutate(c)
  /\ \E kind \in {"upsert", "remove"} : Record(c, kind)
  /\ UNCHANGED <<ready, epoch, floor, now, client>>

\* A source write outside the projection writer.
Bypass(c) ==
  /\ Mutate(c)
  /\ UNCHANGED <<ready, changes, epoch, floor, now, client>>

AdvanceFloor ==
  /\ ready
  /\ epoch < MaxEpoch
  /\ floor' \in floor + 1 .. head
  /\ epoch' = epoch + 1
  /\ UNCHANGED <<ready, source, changes, now, client>>

Tick ==
  /\ now < MaxTime
  /\ now' = now + 1
  /\ UNCHANGED <<ready, source, changes, epoch, floor, client>>

------------------------------------------------------------------------------
(* Pages *)

\* Mutant: the membership at the time of the read is not looked at.
VerdictOld(c, r) == "take"

\* Mutant: a projected removal is taken for a missing projection.
VerdictStuck(c, r) == IF c \in members THEN "take" ELSE "not_ready"

\* What becomes of a candidate with revision r: it is served, examined and skipped, or the
\* whole page is refused.  An upsert needs membership now; without it the latest revision
\* tells a projected removal from a missing projection (authorize, select...Candidate).
Verdict(c, r) ==
  IF c \in members THEN "take"
  ELSE IF Upsert(Latest(c, head)) THEN "not_ready"
  ELSE IF Latest(c, head) > r THEN "expired" ELSE "unavailable"

DirectoryVerdict(c, fence) ==
  LET r == Latest(c, fence) IN IF Upsert(r) THEN Verdict(c, r) ELSE "skip"

DeltaVerdict(r) == IF Upsert(r) THEN Verdict(changes[r].conv, r) ELSE "take"

\* The first n members of a set of numbers.
FirstOf(S, n) == {p \in S : Cardinality({q \in S : q < p}) < n}

\* Mutant: the cursor moves past the items that a page gave back.
AssembleForgets(verdict, after, limit, exhausted) ==
  LET S == DOMAIN verdict
      examined == {p \in S : Cardinality({q \in S : q < p /\ verdict[q] = "take"}) < limit}
      refused == {p \in examined : verdict[p] \notin {"take", "skip"}}
      taken == {p \in examined : verdict[p] = "take"}
      kept == FirstOf(taken, Capacity)
      more == examined # S \/ ~exhausted \/ kept # taken
      at == Max({after} \cup examined)
  IN  [code |-> IF refused # {} THEN verdict[Min(refused)]
                ELSE IF more /\ at = after THEN "limit" ELSE "ok",
       items |-> kept, at |-> at, more |-> more]

\* Mutant: keys that are examined and skipped do not move the cursor.
AssembleStuck(verdict, after, limit, exhausted) ==
  LET S == DOMAIN verdict
      examined == {p \in S : Cardinality({q \in S : q < p /\ verdict[q] = "take"}) < limit}
      refused == {p \in examined : verdict[p] \notin {"take", "skip"}}
      taken == {p \in examined : verdict[p] = "take"}
      kept == FirstOf(taken, Capacity)
      more == kept # taken \/ examined # S \/ ~exhausted
      at == Max({after} \cup kept)
  IN  [code |-> IF refused # {} THEN verdict[Min(refused)]
                ELSE IF more /\ at = after THEN "limit" ELSE "ok",
       items |-> kept, at |-> at, more |-> more]

\* assembleBootstrap, assembleDelta and renderAssembledPage: the candidates, positions in their
\* order with what becomes of each, are examined until limit items are taken; a page that is too large gives
\* back its last items, and ends just before the first one it gives back.
Assemble(verdict, after, limit, exhausted) ==
  LET S == DOMAIN verdict
      examined == {p \in S : Cardinality({q \in S : q < p /\ verdict[q] = "take"}) < limit}
      refused == {p \in examined : verdict[p] \notin {"take", "skip"}}
      taken == {p \in examined : verdict[p] = "take"}
      kept == FirstOf(taken, Capacity)
      passed == {p \in examined : \A q \in taken \ kept : p < q}
      more == passed # S \/ ~exhausted
      at == Max({after} \cup passed)
  IN  [code |-> IF refused # {} THEN verdict[Min(refused)]
                ELSE IF more /\ at = after THEN "limit" ELSE "ok",
       items |-> kept, at |-> at, more |-> more]

\* readDirectory: keys after the cursor up to the terminal key; the budget is spent before
\* the fence is looked at, so keys that are younger than the round count.
DirectoryPages(after, end, fence, limit) ==
  LET scanned == FirstOf({c \in Keys : after < c /\ c <= end}, ScanBudget)
  IN  {Assemble(verdict, after, limit, Cardinality(DOMAIN verdict) < ScanBudget \/ end \in DOMAIN verdict) :
         verdict \in {[c \in scanned |-> DirectoryVerdict(c, fence)]}}

\* readDelta: limit + 1 rows, the last one only to know whether there are more.
DeltaPages(after, fence, limit) ==
  {Assemble(verdict, after, limit, TRUE) :
     verdict \in {[r \in FirstOf(after + 1 .. fence, limit + 1) |-> DeltaVerdict(r)]}}

\* The reference consumer keeps the greater revision.
Merge(old, revisions) ==
  [c \in Conv |-> Max({old[c]} \cup {r \in revisions : changes[r].conv = c})]

Revisions(token, items) ==
  IF token.kind = "bootstrap" THEN {Latest(c, token.fence) : c \in items} ELSE items

\* renderPage: the next cursor of the round keeps fence and expiry; the last page is a
\* checkpoint with a lifetime of its own.
NextCursor(token, page) ==
  IF page.more THEN [token EXCEPT !.at = page.at]
  ELSE [NoCursor EXCEPT !.kind = "checkpoint", !.epoch = token.epoch, !.fence = token.fence,
                        !.limit = token.limit, !.expires = now + CheckpointLife]

\* The pages that answer a request: there is exactly one.
PagesOf(token) ==
  IF token.kind = "bootstrap" THEN DirectoryPages(token.at, token.end, token.fence, token.limit)
  ELSE DeltaPages(token.at, token.fence, token.limit)

\* The answer to a page request.  A client whose cursor has expired drops it.
Answer(token, start) == \E page \in PagesOf(token) :
  \/ /\ page.code = "ok"
     /\ view' = Merge(IF start = "bootstrap" THEN [c \in Conv |-> 0] ELSE view,
                      Revisions(token, page.items))
     /\ cursor' = NextCursor(token, page)
     /\ previous' = IF start = "no" THEN cursor ELSE NoCursor
     /\ begun' = IF start = "no" THEN begun ELSE now
  \/ /\ page.code = "expired"
     /\ cursor' = NoCursor /\ previous' = NoCursor
     /\ UNCHANGED <<view, begun>>
  \/ /\ page.code \notin {"ok", "expired"}
     /\ UNCHANGED client

Served == UNCHANGED <<ready, source, changes, epoch, floor, now>>

\* decodeCursor and the epoch and floor checks of Read.
Current(token, position) == now < token.expires /\ token.epoch = epoch /\ position >= floor

\* The cursor has expired, or its epoch or position is behind the floor.
Expired ==
  /\ Served
  /\ cursor.kind # "none"
  /\ ~Current(cursor, IF cursor.kind = "delta" THEN cursor.at ELSE cursor.fence)
  /\ cursor' = NoCursor /\ previous' = NoCursor
  /\ UNCHANGED <<view, begun>>

\* The cursor a round begins with: the head is its fence, the greatest key its end.
BootstrapStart(limit) ==
  [kind |-> "bootstrap", epoch |-> epoch, fence |-> head, at |-> 0,
   end |-> Max({0} \cup Keys), limit |-> limit, expires |-> now + RoundLife]

DeltaStart(checkpoint, limit) ==
  [kind |-> "delta", epoch |-> epoch, fence |-> head, at |-> checkpoint.fence,
   end |-> 0, limit |-> limit, expires |-> now + RoundLife]

BeginBootstrap ==
  /\ Served
  /\ ready
  /\ \E limit \in PageLimits : Answer(BootstrapStart(limit), "bootstrap")

ContinueBootstrap ==
  /\ Served
  /\ cursor.kind = "bootstrap"
  /\ Current(cursor, cursor.fence)
  /\ Answer(cursor, "no")

BeginDelta ==
  /\ Served
  /\ cursor.kind = "checkpoint"
  /\ Current(cursor, cursor.fence)
  /\ \E limit \in PageLimits : Answer(DeltaStart(cursor, limit), "delta")

ContinueDelta ==
  /\ Served
  /\ cursor.kind = "delta"
  /\ Current(cursor, cursor.at)
  /\ Answer(cursor, "no")

\* The page before is asked for again, and its items are applied again.
Replay ==
  /\ Served
  /\ previous.kind \in {"bootstrap", "delta"}
  /\ Current(previous, IF previous.kind = "delta" THEN previous.at ELSE previous.fence)
  /\ \E page \in PagesOf(previous) :
       page.code = "ok" /\ view' = Merge(view, Revisions(previous, page.items))
  /\ UNCHANGED <<cursor, previous, begun>>

Write == InitializeEmptyAccount \/ AdvanceFloor \/ \E c \in Conv : Batch(c) \/ Bypass(c)
Read == BeginBootstrap \/ ContinueBootstrap \/ BeginDelta \/ ContinueDelta \/ Expired \/ Replay
Next == Write \/ Read \/ Tick

Spec == Init /\ [][Next]_vars

\* The client follows its cursor, and bootstraps when it has none.
Follow ==
  \/ cursor.kind = "none" /\ BeginBootstrap
  \/ ContinueBootstrap \/ BeginDelta \/ ContinueDelta \/ Expired

LiveSpec == Spec /\ WF_vars(Follow)

\* The client gives up a cursor and starts over.
Restart == cursor.kind # "none" /\ BeginBootstrap

------------------------------------------------------------------------------
(* Properties *)

TypeOK ==
  /\ ready \in BOOLEAN
  /\ members \subseteq Conv
  /\ last \in [Conv -> 0 .. MaxMessages]
  /\ head <= MaxSequence /\ \A r \in 1 .. head : changes[r] \in Item
  /\ epoch \in 1 .. MaxEpoch /\ floor \in 0 .. head
  /\ now \in 0 .. MaxTime
  /\ view \in [Conv -> 0 .. head]
  /\ cursor.fence <= head /\ cursor.at <= IF cursor.kind = "delta" THEN cursor.fence ELSE cursor.end
  /\ begun \in 0 .. now

\* A client with a checkpoint at H knows exactly the conversations that were visible at H, each
\* in its state at H: no page boundary, skipped key, withheld item, younger key or write
\* between two pages loses, repeats or invents one (assemble..., renderAssembledPage).
CheckpointComplete ==
  cursor.kind = "checkpoint" =>
    \A c \in Conv :
      LET r == Latest(c, cursor.fence)
      IN  IF Upsert(r) THEN view[c] = r ELSE ~Upsert(view[c])

\* A page hands out the summary of a conversation only to a user who is a member when the page
\* is read, however old the cursor is (authorize; ADR 0007, "authorization floor").
NothingAfterRemoval ==
  [][\A c \in Conv : view'[c] # view[c] /\ Upsert(view'[c]) => c \in members]_vars

\* A checkpoint is issued at most a round's lifetime after its fence was the head: following a
\* round never extends it (roundExpires; decodeCursor).
RoundsBounded ==
  cursor.kind = "checkpoint" => cursor.expires - CheckpointLife < begun + RoundLife

\* A request for a page is answered with progress or with a code that tells the client what to
\* do: the size limit alone never stops a round (cursorAdvanced, renderAssembledPage).
PagesAdvance ==
  \A token \in {cursor, previous} \cup {BootstrapStart(limit) : limit \in PageLimits} :
    token.kind \in {"bootstrap", "delta"} =>
      \A page \in PagesOf(token) : page.code \notin {"limit", "unavailable"}

\* The state of a round: its cursor is within its bounds, its lifetime and its directory.
RoundInv == TypeOK /\ RoundsBounded /\ PagesAdvance

\* The user lost a membership that the projection still shows.
Behind == \E c \in Conv : c \notin members /\ Upsert(Latest(c, head))

\* When the writers have stopped, a client that follows its cursors, and does not start over for
\* ever, gets to the head, unless a removal was never projected.
EventuallyInSync ==
  <>[](ready /\ ~Behind) /\ <>[][~Restart]_vars
    => []<>(cursor.kind = "checkpoint" /\ cursor.fence = head)
==============================================================================
