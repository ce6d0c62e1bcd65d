------------------------------- MODULE MCAvatars -------------------------------
EXTENDS Avatars, TLC

CONSTANTS anna, armando

MCDefaultOrder == <<anna, armando>>

MCSymmetry == Permutations(Nicks) \cup Permutations(Rooms) \cup Permutations(Arts)
=============================================================================
