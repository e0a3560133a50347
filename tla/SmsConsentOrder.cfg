SPECIFICATION Spec
CONSTANTS
    k1 = k1
    k2 = k2
    k3 = k3
    a = a
    b = b
    Messages = {k1, k2, k3}
    Mobiles = {a, b}
    MaxTime = 3
INVARIANTS
    TypeOK
    ConsentIsNewest
    StopStands
