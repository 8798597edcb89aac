---------------------------- MODULE MCConversation ----------------------------
\* Two children, one question with one choice.
EXTENDS Conversation

MCConn == 1..2
=============================================================================
