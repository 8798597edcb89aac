------------------------------ MODULE MCSession ------------------------------
\* Three connections: a session, its restart, and one begun from the launcher.
EXTENDS Session

MCConn == 1..3
=============================================================================
