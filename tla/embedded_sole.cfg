SPECIFICATION Spec
CONSTANTS
    alice = alice  bob = bob  c1 = c1  c2 = c2  k1 = k1
    mk = mk  s1 = s1  s2 = s2  s3 = s3  rn = rn  rm = rm
    NoKey = NoKey  NoRow = NoRow  Nobody = Nobody
    User = {alice, bob}  Key = {k1}  Owner <- AliceOwns
    Request = {mk, s1, s2, s3, rn, rm}  Conversation = {c1}  Call <- SoleCall
INVARIANTS TypeOK SoleConversationExact FailedLeavesNothing
CHECK_DEADLOCK FALSE
