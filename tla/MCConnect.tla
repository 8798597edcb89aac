----------------------------- MODULE MCConnect ------------------------------
(* A finite instance of Connect.                                           *)
EXTENDS Connect
=============================================================================
