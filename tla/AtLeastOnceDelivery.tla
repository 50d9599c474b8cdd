------------------------- MODULE AtLeastOnceDelivery -------------------------
(***************************************************************************)
(* What webhook delivery promises for each delivery, without workers,      *)
(* leases, tokens or time: an attempt is granted before a request is sent, *)
(* at most MaxAttempts are granted, and the outcome is settled once:       *)
(* delivered only if the receiver took the event, dead-lettered only when  *)
(* the grants are used up or the delivery failed for good, cancelled only  *)
(* when the endpoint was revoked.                                          *)
(***************************************************************************)
EXTENDS Naturals

CONSTANTS Delivery, MaxAttempts

VARIABLES
  outcome,    \* "open" until the delivery is settled
  granted,    \* attempts granted
  sent,       \* requests sent
  received,   \* deliveries the receiver accepted
  refused,    \* deliveries that failed for good
  revoked     \* deliveries whose endpoint is revoked

avars == <<outcome, granted, sent, received, refused, revoked>>

AInit ==
  /\ outcome = [d \in Delivery |-> "open"]
  /\ granted = [d \in Delivery |-> 0]
  /\ sent = [d \in Delivery |-> 0]
  /\ received = {}
  /\ refused = {}
  /\ revoked = {}

Grant(d) ==
  /\ outcome[d] = "open"
  /\ d \notin revoked
  /\ granted[d] < MaxAttempts
  /\ granted' = [granted EXCEPT ![d] = @ + 1]
  /\ UNCHANGED <<outcome, sent, received, refused, revoked>>

Send(d) ==
  /\ sent[d] < granted[d]
  /\ sent' = [sent EXCEPT ![d] = @ + 1]
  /\ UNCHANGED <<outcome, granted, received, refused, revoked>>

Accept(d) ==
  /\ sent[d] > 0
  /\ received' = received \cup {d}
  /\ UNCHANGED <<outcome, granted, sent, refused, revoked>>

Refuse(d) ==
  /\ granted[d] > 0
  /\ refused' = refused \cup {d}
  /\ UNCHANGED <<outcome, granted, sent, received, revoked>>

RevokeSome(D) ==
  /\ revoked' = revoked \cup D
  /\ UNCHANGED <<outcome, granted, sent, received, refused>>

Settleable(d, o) ==
  \/ o = "delivered" /\ d \in received
  \/ o = "dead_letter" /\ (granted[d] = MaxAttempts \/ d \in refused)
  \/ o = "cancelled" /\ d \in revoked

\* One transaction may settle several deliveries.
Settle ==
  /\ \A d \in Delivery :
       \/ outcome'[d] = outcome[d]
       \/ outcome[d] = "open" /\ Settleable(d, outcome'[d])
  /\ outcome' = [d \in Delivery |-> outcome'[d]]
  /\ UNCHANGED <<granted, sent, received, refused, revoked>>

ANext ==
  \/ \E d \in Delivery : Grant(d) \/ Send(d) \/ Accept(d) \/ Refuse(d)
  \/ \E D \in SUBSET Delivery : RevokeSome(D)
  \/ Settle

ASpec == AInit /\ [][ANext]_avars
==============================================================================
