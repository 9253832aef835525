SPECIFICATION Spec
CONSTANTS
    alice = alice  bob = bob  i1 = i1  i2 = i2  k1 = k1  r1 = r1  r2 = r2  r3 = r3  r4 = r4
    Empty = Empty  Processing = Processing
    Request = {r1, r2}  Instance = {i1, i2}  User = {alice, bob}  Key = {k1}
    Call <- RetryCall  MaxFaults = 0  MaxExpiries = 0
INVARIANTS OneExecution
CHECK_DEADLOCK FALSE
