--------------------------- MODULE MCWebhookFanout ---------------------------
EXTENDS WebhookFanout, TLC

Symmetry == Permutations(Worker)
==============================================================================
