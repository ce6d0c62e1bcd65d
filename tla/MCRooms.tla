------------------------------- MODULE MCRooms -------------------------------
EXTENDS Rooms
=============================================================================
