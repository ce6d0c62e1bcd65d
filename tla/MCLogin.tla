------------------------------ MODULE MCLogin ------------------------------
(* Login with the server held to a few lines.                               *)
EXTENDS Login
=============================================================================
