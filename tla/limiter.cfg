SPECIFICATION Spec
CONSTANTS
    Request = {r1, r2, r3, r4, r5}
    Window = 2  MaxRequests = 2  Concurrency = 2  MaxDelay = 1  MaxTime = 5
SYMMETRY Interchangeable
INVARIANTS TypeOK QuotaWithConcurrency CountedWhileInWindow
PROPERTY RejectionIsDeserved
CHECK_DEADLOCK FALSE
