SPECIFICATION TimelineSpec
CONSTANTS
    alice = alice  c1 = c1  c2 = c2  i1 = i1  i2 = i2
    s1 = s1  s2 = s2  rm = rm  mk = mk
    NoKey = NoKey  NoRow = NoRow  Nobody = Nobody  List = List  NoCursor = NoCursor
    User = {alice}  Key = {}  Owner <- AliceOwns
    Request = {mk, s1, s2, rm}  Instance = {i1, i2}  Conversation = {c1, c2}
    Call <- LifeCall  PoolMax = 2  MaxFaults = 0
    Lead = 1  MaxClock = 1  Seeded = {c1}  Reader = alice  Limit = 1
    IdOrders <- OneOrder
INVARIANTS WalkSkipsNothing NothingTwice  
CHECK_DEADLOCK FALSE
