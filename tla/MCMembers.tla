------------------------------- MODULE MCMembers -------------------------------
EXTENDS Members

CONSTANTS ann, bob, r1, r2

\* Both rooms joined, ann in both.
MCStarts == {[r \in Rooms |-> {Me, ann}]}
=============================================================================
