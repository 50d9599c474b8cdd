-------------------------- MODULE MCWebhookDelivery --------------------------
EXTENDS WebhookDelivery, TLC

\* Every delivery of the instance goes to the same destination.
OneDest == [d \in Delivery |-> CHOOSE t \in Destination : TRUE]

Symmetry == Permutations(Token) \cup Permutations(Worker)
==============================================================================
