----------------------------- MODULE MCReconnect -----------------------------
EXTENDS Reconnect
=============================================================================
