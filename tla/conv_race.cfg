SPECIFICATION Spec
CONSTANTS
    alice = alice  bob = bob  c1 = c1  c2 = c2  i1 = i1  i2 = i2  k1 = k1
    s1 = s1  s2 = s2  s3 = s3  s4 = s4  rn = rn  rm = rm
    NoKey = NoKey  NoRow = NoRow  Nobody = Nobody
    User = {alice, bob}  Key = {k1}  Owner <- AliceOwns
    Request = {s1, s2, s3, rn, rm}  Instance = {i1, i2}  Conversation = {c1}
    Call <- RaceCall  PoolMax = 2  MaxFaults = 1
INVARIANTS TypeOK SequenceExact KeyCommittedOnce AnswerTruthful AnsweredHoldsNothing StoredIsAudited
PROPERTIES NoLostUpdate ImplementsLog
CHECK_DEADLOCK FALSE
