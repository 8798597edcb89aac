---------------------------- MODULE MCSupervisor ----------------------------
\* Two kinds of bytes tell any two places of the ring apart.
EXTENDS Supervisor

MCByte == {"a", "b"}
=============================================================================
