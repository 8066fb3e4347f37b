SPECIFICATION MCSpec
CONSTANTS
    Users = {u1, u2, u3}
    Founder = u1
    Handlers = {h1, h2}
    MaxFaults = 1
INVARIANTS TypeOK HasOwner
PROPERTIES OwnersGrant OwnersDemoteOwners
SYMMETRY Symmetry
CHECK_DEADLOCK FALSE
