-------------------------- MODULE MCConversationSync --------------------------
EXTENDS ConversationSync
==============================================================================
