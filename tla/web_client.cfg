SPECIFICATION Spec
CONSTANTS
    alice = alice  bob = bob  c1 = c1  c2 = c2  c3 = c3  k1 = k1  k2 = k2
    Nothing = Nothing
    User = {alice, bob}  Alice = alice  Conversation = {c1, c2, c3}  Key = {k1, k2}
    Owner <- AliceHasTwo  MaxClicks = 3  MaxFailures = 1
SYMMETRY Alike
INVARIANTS   ShownIsStored
CHECK_DEADLOCK FALSE
