------------------------------ MODULE MessageLog -----------------------------
(***************************************************************************)
(* What the durable send promises, without transactions, locks or retries: *)
(* a log per conversation to which one message at a time is appended, with *)
(* at most one message per sender and client id, and requests that are     *)
(* acknowledged with a message that is in the log.                         *)
(***************************************************************************)
EXTENDS Integers

CONSTANTS Request, Row, Conversation

VARIABLES
  log,      \* the messages
  height,   \* the length of each conversation's log
  acked     \* the requests that were acknowledged, each with its message

vars == <<log, height, acked>>

Init ==
  /\ log = {}
  /\ height = [c \in Conversation |-> 0]
  /\ acked = {}

Append(m) ==
  /\ m.seq = height[m.conv] + 1
  /\ \A n \in log : ~(n.sender = m.sender /\ n.client = m.client)
  /\ \A n \in log : n.server # m.server
  /\ log' = log \cup {m}
  /\ height' = [height EXCEPT ![m.conv] = m.seq]

\* An acknowledged request is acknowledged once, with a message of the log.
Ack(r) ==
  /\ \A a \in acked : a[1] # r
  /\ \E m \in log' : acked' = acked \cup {<<r, m>>}

Next ==
  \/ \E m \in Row : Append(m) /\ UNCHANGED acked
  \/ \E r \in Request : Ack(r) /\ UNCHANGED <<log, height>>
  \/ \E m \in Row, r \in Request : Append(m) /\ Ack(r)

Spec == Init /\ [][Next]_vars
==============================================================================
