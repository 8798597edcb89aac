------------------------------ MODULE MCComposer ------------------------------
\* Two children, a text and an attachment.
EXTENDS Composer

MCConn == 1..2
=============================================================================
