SPECIFICATION Spec
CONSTANTS
    i1 = i1  i2 = i2  alice = alice  bob = bob  carol = carol  p = p  q = q
    g1 = g1  g2 = g2  l1 = l1
    Unknown = Unknown  Alice = alice  Bob = bob  DemoPassword = p
    Request = {g1, g2, l1}  Instance = {i1, i2}
    Email = {alice, bob, carol}  Password = {p, q}
    Call <- CarolCall  MaxBoots = 3  MaxFaults = 1
INVARIANTS TypeOK AnswersAreTrue 
PROPERTIES QuietBootListens EveryCallAnswered
CHECK_DEADLOCK FALSE
