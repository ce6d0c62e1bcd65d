CONSTANTS
    Nicks = {ann, bob}
    Rooms = {r1, r2}
    Arts = {a1, a2}
    None = none
    anna = anna
    armando = armando
    DefaultOrder <- MCDefaultOrder
    MaxEvents = 4
    MaxRebuilds = 1
SYMMETRY MCSymmetry
SPECIFICATION Spec
INVARIANTS TypeOK FetchedOnce DressedAsAnnounced StripIsReplay
CHECK_DEADLOCK FALSE
