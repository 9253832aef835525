SPECIFICATION FairSpec
CONSTANTS
    alice = alice  bob = bob  c1 = c1  c2 = c2  i1 = i1  i2 = i2  k1 = k1
    s1 = s1  s2 = s2  s3 = s3  s4 = s4  rn = rn  rm = rm
    NoKey = NoKey  NoRow = NoRow  Nobody = Nobody
    User = {alice, bob}  Key = {k1}  Owner <- AliceOwns
    Request = {s1, s2, s3, s4}  Instance = {i1}  Conversation = {c1, c2}
    Call <- PoolCall  PoolMax = 3  MaxFaults = 1
INVARIANTS OwnerOnly OneSenderPerConversation NoPoolGridlock
PROPERTY EveryRequestAnswered
CHECK_DEADLOCK FALSE
