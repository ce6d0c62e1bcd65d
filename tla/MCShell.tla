------------------------------- MODULE MCShell -------------------------------
EXTENDS RoomList
=============================================================================
