CONSTANTS
    Nicks = {me, ann, bob}
    Me = me
    Rooms = {r1, r2}
    NoRoom = none
    ann = ann
    bob = bob
    r1 = r1
    r2 = r2
    Starts <- MCStarts
    MaxOps = 3
    MaxSwitches = 1
SPECIFICATION Spec
INVARIANTS TypeOK NoGhosts NobodyHidden ListIsOfActiveRoom QuietListIsTable
PROPERTY ListSettles
CHECK_DEADLOCK FALSE
