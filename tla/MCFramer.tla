------------------------------- MODULE MCFramer -------------------------------
EXTENDS Framer
=============================================================================
