-------------------------- MODULE RateLimiterProofs --------------------------
(***************************************************************************)
(* The quota of RateLimiter holds for every window, quota, concurrency and *)
(* delay: Inductive is an inductive invariant, and the quota follows from  *)
(* it because whoever passed within the window is an entry of the set.     *)
(***************************************************************************)
EXTENDS RateLimiter, FiniteSetTheorems, TLAPS

\* The sets that are counted are finite and can be compared by inclusion.
LEMMA RequestSets ==
    ASSUME NEW S \in SUBSET Request, NEW T \in SUBSET Request
    PROVE  /\ Cardinality(S) \in Nat
           /\ Cardinality(S \cup T) <= Cardinality(S) + Cardinality(T)
           /\ S \subseteq T => Cardinality(S) <= Cardinality(T)
<1>1. IsFiniteSet(S) /\ IsFiniteSet(T)
  BY LimiterAssumption, FS_Subset
<1>2. /\ Cardinality(S) \in Nat /\ Cardinality(T) \in Nat
      /\ Cardinality(S \cap T) \in Nat
  BY <1>1, FS_CardinalityType, FS_Intersection
<1>3. Cardinality(S \cup T) = Cardinality(S) + Cardinality(T) - Cardinality(S \cap T)
  BY <1>1, FS_Union
<1>4. S \subseteq T => Cardinality(S) <= Cardinality(T)
  BY <1>1, FS_Subset
<1> QED
  BY <1>2, <1>3, <1>4

\* The initial state satisfies the invariant.
LEMMA InductiveInit == Init => Inductive
<1> SUFFICES ASSUME Init PROVE Inductive
  OBVIOUS
<1>1. TypeOK
  BY DEF Init, TypeOK
<1>2. InLimiter = {} /\ entries \cup Adding = {}
  BY DEF Init, InLimiter, Adding
<1>3. Cardinality({}) = 0
  BY FS_EmptySet
<1>4. Cardinality(InLimiter) <= Concurrency /\ EntriesBounded
  BY <1>2, <1>3, LimiterAssumption DEF EntriesBounded
<1>5. CountedWhileInWindow /\ KeyOutlivesPassed
  BY DEF Init, CountedWhileInWindow, KeyOutlivesPassed
<1> QED
  BY <1>1, <1>4, <1>5 DEF Inductive

\* No step leaves the types.
LEMMA TypeStep == TypeOK /\ [Next]_vars => TypeOK'
<1> SUFFICES ASSUME TypeOK, [Next]_vars PROVE TypeOK'
  OBVIOUS
<1>1. CASE Tick
  <2>1. \A r \in Request : stamp[r] \in 0 .. clock'
    BY <1>1 DEF Tick, TypeOK
  <2> QED
    BY <1>1, <2>1 DEF Tick, TypeOK
<1>2. ASSUME NEW r \in Request, Arrive(r) PROVE TypeOK'
  BY <1>2 DEF Arrive, Goto, TypeOK
<1>3. ASSUME NEW r \in Request, Trim(r) PROVE TypeOK'
  BY <1>3 DEF Trim, Goto, TypeOK
<1>4. ASSUME NEW r \in Request, Count(r) \/ Reject(r) PROVE TypeOK'
  BY <1>4 DEF Count, Reject, Goto, TypeOK
<1>5. ASSUME NEW r \in Request, Add(r) PROVE TypeOK'
  BY <1>5 DEF Add, Goto, TypeOK
<1>6. ASSUME NEW r \in Request, Expire(r) \/ ExpireGone(r) PROVE TypeOK'
  BY <1>6, LimiterAssumption DEF Expire, ExpireGone, Goto, TypeOK
<1>7. ASSUME NEW r \in Request, FailOpen(r) PROVE TypeOK'
  BY <1>7 DEF FailOpen, InLimiter, TypeOK
<1>8. CASE UNCHANGED vars
  BY <1>8 DEF vars, TypeOK
<1> QED
  BY <1>1, <1>2, <1>3, <1>4, <1>5, <1>6, <1>7, <1>8 DEF Next

\* No step brings more requests into the limiter than it allows.
LEMMA ConcurrencyStep ==
    TypeOK /\ Cardinality(InLimiter) <= Concurrency /\ [Next]_vars
        => Cardinality(InLimiter') <= Concurrency
<1> SUFFICES ASSUME TypeOK, Cardinality(InLimiter) <= Concurrency, [Next]_vars
             PROVE  Cardinality(InLimiter') <= Concurrency
  OBVIOUS
<1>1. ASSUME NEW r \in Request, Arrive(r)
      PROVE  Cardinality(InLimiter') <= Concurrency
  <2>1. InLimiter' \subseteq InLimiter \cup {r}
    BY <1>1 DEF Arrive, Goto, InLimiter, TypeOK
  <2>2. /\ InLimiter \in SUBSET Request /\ InLimiter' \in SUBSET Request
        /\ InLimiter \cup {r} \in SUBSET Request
    BY DEF InLimiter
  <2>3. Cardinality({r}) = 1
    BY FS_Singleton
  <2>4. Cardinality(InLimiter') <= Cardinality(InLimiter) + 1
    <3>1. Cardinality(InLimiter') <= Cardinality(InLimiter \cup {r})
      BY <2>1, <2>2, RequestSets
    <3>2. Cardinality(InLimiter \cup {r}) <= Cardinality(InLimiter) + Cardinality({r})
      BY <2>2, RequestSets
    <3>3. /\ Cardinality(InLimiter) \in Nat /\ Cardinality(InLimiter') \in Nat
          /\ Cardinality(InLimiter \cup {r}) \in Nat
      BY <2>2, RequestSets
    <3> QED
      BY <3>1, <3>2, <3>3, <2>3
  <2>5. Cardinality(InLimiter) \in Nat /\ Cardinality(InLimiter') \in Nat
    BY <2>2, RequestSets
  <2> QED
    BY <1>1, <2>4, <2>5, LimiterAssumption DEF Arrive
<1>2. ASSUME InLimiter' \subseteq InLimiter
      PROVE  Cardinality(InLimiter') <= Concurrency
  <2>1. InLimiter \in SUBSET Request /\ InLimiter' \in SUBSET Request
    BY DEF InLimiter
  <2>2. /\ Cardinality(InLimiter') <= Cardinality(InLimiter)
        /\ Cardinality(InLimiter) \in Nat /\ Cardinality(InLimiter') \in Nat
    BY <1>2, <2>1, RequestSets
  <2> QED
    BY <2>2, LimiterAssumption
<1>3. CASE Tick \/ UNCHANGED vars
  BY <1>2, <1>3 DEF Tick, vars, InLimiter
<1>4. ASSUME NEW r \in Request,
             Trim(r) \/ Count(r) \/ Reject(r) \/ Add(r)
      PROVE  Cardinality(InLimiter') <= Concurrency
  <2>1. InLimiter' \subseteq InLimiter
    BY <1>4 DEF Trim, Count, Reject, Add, Goto, InLimiter, TypeOK
  <2> QED
    BY <1>2, <2>1
<1>5. ASSUME NEW r \in Request, Expire(r) \/ ExpireGone(r) \/ FailOpen(r)
      PROVE  Cardinality(InLimiter') <= Concurrency
  <2>1. InLimiter' \subseteq InLimiter
    BY <1>5 DEF Expire, ExpireGone, FailOpen, Goto, InLimiter, TypeOK
  <2> QED
    BY <1>2, <2>1
<1> QED
  BY <1>1, <1>3, <1>4, <1>5 DEF Next

\* No step lets the set and the requests about to add to it outgrow the quota:
\* a request joins them only when it has counted fewer entries than the quota.
LEMMA EntriesStep ==
    /\ TypeOK /\ EntriesBounded /\ [Next]_vars
    /\ Cardinality(InLimiter') <= Concurrency
    => EntriesBounded'
<1> SUFFICES ASSUME TypeOK, EntriesBounded, [Next]_vars,
                    Cardinality(InLimiter') <= Concurrency
             PROVE  EntriesBounded'
  OBVIOUS
<1> DEFINE Held == entries \cup Adding
<1>0. TypeOK'
  BY TypeStep
<1>1. /\ Held \in SUBSET Request /\ Held' \in SUBSET Request
      /\ Adding' \in SUBSET Request /\ InLimiter' \in SUBSET Request
      /\ Adding' \subseteq InLimiter'
  BY <1>0 DEF TypeOK, Adding, InLimiter
<1>2. ASSUME Held' \subseteq Held PROVE EntriesBounded'
  <2>1. /\ Cardinality(Held') <= Cardinality(Held)
        /\ Cardinality(Held) \in Nat /\ Cardinality(Held') \in Nat
    BY <1>1, <1>2, RequestSets
  <2>2. Cardinality(Held) <= MaxRequests - 1 + Concurrency
    BY DEF EntriesBounded
  <2>3. Cardinality(Held') <= MaxRequests - 1 + Concurrency
    BY <2>1, <2>2, LimiterAssumption
  <2> QED
    BY <2>3 DEF EntriesBounded
<1>3. ASSUME NEW r \in Request, Count(r) PROVE EntriesBounded'
  <2>1. /\ entries' = entries /\ entries \in SUBSET Request
        /\ Cardinality(entries) < MaxRequests
    BY <1>3 DEF Count, TypeOK
  <2>2. Cardinality(Adding') <= Cardinality(InLimiter')
    BY <1>1, RequestSets
  <2>3. Cardinality(Held') <= Cardinality(entries) + Cardinality(Adding')
    BY <1>1, <2>1, RequestSets
  <2>4. /\ Cardinality(entries) \in Nat /\ Cardinality(Adding') \in Nat
        /\ Cardinality(InLimiter') \in Nat /\ Cardinality(Held') \in Nat
    BY <1>1, <2>1, RequestSets
  <2>5. Cardinality(Held') <= MaxRequests - 1 + Concurrency
    BY <2>1, <2>2, <2>3, <2>4, LimiterAssumption
  <2> QED
    BY <2>5 DEF EntriesBounded
<1>4. CASE Tick \/ UNCHANGED vars
  <2>1. Held' \subseteq Held
    BY <1>4 DEF Tick, vars, Adding
  <2> QED
    BY <1>2, <2>1
<1>5. ASSUME NEW r \in Request, Arrive(r) \/ Trim(r) \/ Reject(r) \/ Add(r)
      PROVE  EntriesBounded'
  <2>1. Held' \subseteq Held
    BY <1>5 DEF Arrive, Trim, Reject, Add, Goto, Adding, TypeOK
  <2> QED
    BY <1>2, <2>1
<1>6. ASSUME NEW r \in Request, Expire(r) \/ ExpireGone(r) \/ FailOpen(r)
      PROVE  EntriesBounded'
  <2>1. Held' \subseteq Held
    BY <1>6 DEF Expire, ExpireGone, FailOpen, Goto, Adding, TypeOK
  <2> QED
    BY <1>2, <2>1
<1> QED
  BY <1>3, <1>4, <1>5, <1>6 DEF Next

\* No step drops a request that passed before it leaves the window: a trim
\* uses a time that is not ahead of the clock, and the key lives on.
LEMMA CountedStep ==
    TypeOK /\ CountedWhileInWindow /\ KeyOutlivesPassed /\ [Next]_vars
        => CountedWhileInWindow' /\ KeyOutlivesPassed'
<1> SUFFICES ASSUME TypeOK, CountedWhileInWindow, KeyOutlivesPassed, [Next]_vars,
                    NEW r \in Request, pc'[r] = "passed", InWindow(r)'
             PROVE  r \in entries' /\ expiry' >= stamp'[r] + Window
  BY DEF CountedWhileInWindow, KeyOutlivesPassed
<1> USE LimiterAssumption
<1>1. CASE Tick
  <2>1. /\ pc[r] = "passed" /\ stamp'[r] = stamp[r] /\ clock' = clock + 1
        /\ stamp[r] \in Nat /\ clock \in Nat /\ expiry \in Nat
    BY <1>1 DEF Tick, TypeOK
  <2>2. InWindow(r)
    BY <2>1 DEF InWindow
  <2>3. r \in entries /\ expiry >= stamp[r] + Window
    BY <2>1, <2>2 DEF CountedWhileInWindow, KeyOutlivesPassed
  <2>4. ~(expiry # 0 /\ expiry <= clock')
    BY <2>1, <2>3 DEF InWindow
  <2> QED
    BY <1>1, <2>1, <2>3, <2>4 DEF Tick
<1>2. ASSUME NEW q \in Request, Trim(q)
      PROVE  r \in entries' /\ expiry' >= stamp'[r] + Window
  <2>1. /\ pc[r] = "passed" /\ stamp' = stamp /\ clock' = clock
    BY <1>2 DEF Trim, Goto, TypeOK
  <2>2. r \in entries /\ expiry >= stamp[r] + Window /\ stamp[r] + Window > clock
    BY <2>1 DEF CountedWhileInWindow, KeyOutlivesPassed, InWindow
  <2>3. stamp[q] <= clock /\ stamp[q] \in Nat /\ stamp[r] \in Nat /\ clock \in Nat
    BY DEF TypeOK
  <2>4. r \in entries'
    BY <1>2, <2>2, <2>3 DEF Trim
  <2> QED
    BY <1>2, <2>1, <2>2, <2>4 DEF Trim
<1>3. ASSUME NEW q \in Request, Arrive(q) \/ Count(q) \/ Reject(q) \/ Add(q) \/ FailOpen(q)
      PROVE  r \in entries' /\ expiry' >= stamp'[r] + Window
  <2>1. /\ pc[r] = "passed" /\ stamp'[r] = stamp[r] /\ clock' = clock
        /\ entries \subseteq entries' /\ expiry' = expiry
    BY <1>3 DEF Arrive, Count, Reject, Add, FailOpen, Goto, InLimiter, TypeOK
  <2>2. r \in entries /\ expiry >= stamp[r] + Window
    BY <2>1 DEF CountedWhileInWindow, KeyOutlivesPassed, InWindow
  <2> QED
    BY <2>1, <2>2
<1>4. ASSUME NEW q \in Request, Expire(q) \/ ExpireGone(q)
      PROVE  r \in entries' /\ expiry' >= stamp'[r] + Window
  <2>1. /\ entries' = entries /\ stamp' = stamp /\ clock' = clock
        /\ stamp[r] <= clock /\ stamp[r] \in Nat /\ clock \in Nat
    BY <1>4 DEF Expire, ExpireGone, TypeOK
  <2>2. r \in entries
    BY <1>4, <2>1 DEF Expire, ExpireGone, Goto, TypeOK, CountedWhileInWindow, InWindow
  <2>3. expiry' = clock + Window
    BY <1>4, <2>2 DEF Expire, ExpireGone
  <2> QED
    BY <2>1, <2>2, <2>3
<1>5. CASE UNCHANGED vars
  <2>1. pc[r] = "passed" /\ InWindow(r)
    BY <1>5 DEF vars, InWindow
  <2> QED
    BY <1>5, <2>1 DEF vars, CountedWhileInWindow, KeyOutlivesPassed
<1> QED
  BY <1>1, <1>2, <1>3, <1>4, <1>5 DEF Next

\* Inductive is an invariant of the limiter.
THEOREM LimiterInvariant == Spec => []Inductive
<1>1. Inductive /\ [Next]_vars => Inductive'
  <2> SUFFICES ASSUME Inductive, [Next]_vars PROVE Inductive'
    OBVIOUS
  <2>1. TypeOK'
    BY TypeStep DEF Inductive
  <2>2. Cardinality(InLimiter') <= Concurrency
    BY ConcurrencyStep DEF Inductive
  <2>3. EntriesBounded'
    BY <2>2, EntriesStep DEF Inductive
  <2>4. CountedWhileInWindow' /\ KeyOutlivesPassed'
    BY CountedStep DEF Inductive
  <2> QED
    BY <2>1, <2>2, <2>3, <2>4 DEF Inductive
<1> QED
  BY <1>1, InductiveInit, PTL DEF Spec

\* A request that passed is counted as long as it is in the window.
THEOREM PassedStayCounted == Spec => []CountedWhileInWindow
<1>1. Inductive => CountedWhileInWindow
  BY DEF Inductive
<1> QED
  BY <1>1, LimiterInvariant, PTL

\* Fewer than MaxRequests + Concurrency counted requests pass in a window.
THEOREM QuotaHolds == Spec => []QuotaWithConcurrency
<1>1. Inductive => QuotaWithConcurrency
  <2> SUFFICES ASSUME Inductive PROVE QuotaWithConcurrency
    OBVIOUS
  <2> DEFINE Passed == {r \in Request : pc[r] = "passed" /\ InWindow(r)}
             Held == entries \cup Adding
  <2>1. Passed \subseteq Held
    BY DEF Inductive, CountedWhileInWindow
  <2>2. Passed \in SUBSET Request /\ Held \in SUBSET Request
    BY DEF Inductive, TypeOK, Adding
  <2>3. /\ Cardinality(Passed) <= Cardinality(Held)
        /\ Cardinality(Passed) \in Nat /\ Cardinality(Held) \in Nat
    BY <2>1, <2>2, RequestSets
  <2>4. Cardinality(Held) <= MaxRequests - 1 + Concurrency
    BY DEF Inductive, EntriesBounded
  <2>5. Cardinality(Passed) <= MaxRequests - 1 + Concurrency
    BY <2>3, <2>4, LimiterAssumption
  <2> QED
    BY <2>5 DEF QuotaWithConcurrency
<1> QED
  BY <1>1, LimiterInvariant, PTL

\* Every variable has its type.
THEOREM TypeInvariant == Spec => []TypeOK
<1>1. Inductive => TypeOK
  BY DEF Inductive
<1> QED
  BY <1>1, LimiterInvariant, PTL

\* Nobody stays in the limiter for long, and what a request counts after its
\* trim lies in the window that ends at its arrival.
Prompt == \A r \in InLimiter : clock <= stamp[r] + MaxDelay
Trimmed ==
    \A r \in Request : pc[r] = "count" =>
        \A q \in entries : stamp[q] + Window > stamp[r]

LEMMA PromptStep == TypeOK /\ Prompt /\ [Next]_vars => Prompt'
<1> SUFFICES ASSUME TypeOK, Prompt, [Next]_vars,
                    NEW r \in Request, pc'[r] \in {"trim", "count", "add", "expire"}
             PROVE  clock' <= stamp'[r] + MaxDelay
  BY DEF Prompt, InLimiter
<1> USE LimiterAssumption DEF TypeOK
<1>1. CASE Tick
  BY <1>1 DEF Tick, Prompt, InLimiter
<1>2. ASSUME NEW p \in Request, Arrive(p)
      PROVE  clock' <= stamp'[r] + MaxDelay
  <2>1. CASE p = r
    BY <1>2, <2>1 DEF Arrive
  <2>2. CASE p # r
    BY <1>2, <2>2 DEF Arrive, Goto, Prompt, InLimiter
  <2> QED
    BY <2>1, <2>2
<1>3. ASSUME NEW p \in Request,
             \/ Trim(p) \/ Count(p) \/ Reject(p) \/ Add(p)
             \/ Expire(p) \/ ExpireGone(p) \/ FailOpen(p)
      PROVE  clock' <= stamp'[r] + MaxDelay
  <2>1. UNCHANGED <<clock, stamp>>
    BY <1>3 DEF Trim, Count, Reject, Add, Expire, ExpireGone, FailOpen
  <2>2. r \in InLimiter
    BY <1>3 DEF Trim, Count, Reject, Add, Expire, ExpireGone, FailOpen, Goto, InLimiter
  <2> QED
    BY <2>1, <2>2 DEF Prompt
<1>4. CASE UNCHANGED vars
  BY <1>4 DEF vars, Prompt, InLimiter
<1> QED
  BY <1>1, <1>2, <1>3, <1>4 DEF Next

LEMMA TrimmedStep == TypeOK /\ Prompt /\ Trimmed /\ [Next]_vars => Trimmed'
<1> SUFFICES ASSUME TypeOK, Prompt, Trimmed, [Next]_vars,
                    NEW r \in Request, pc'[r] = "count", NEW q \in entries'
             PROVE  stamp'[q] + Window > stamp'[r]
  BY DEF Trimmed
<1> USE LimiterAssumption DEF TypeOK
<1>1. CASE Tick
  BY <1>1 DEF Tick, Trimmed
<1>2. ASSUME NEW p \in Request, Arrive(p)
      PROVE  stamp'[q] + Window > stamp'[r]
  <2>1. pc[r] = "count" /\ r # p /\ q \in entries /\ q # p
    BY <1>2 DEF Arrive, Goto
  <2> QED
    BY <1>2, <2>1 DEF Arrive, Trimmed
<1>3. ASSUME NEW p \in Request, Trim(p)
      PROVE  stamp'[q] + Window > stamp'[r]
  <2>1. UNCHANGED stamp /\ q \in entries /\ stamp[q] + Window > stamp[p]
    BY <1>3 DEF Trim
  <2>2. CASE p = r
    BY <2>1, <2>2
  <2>3. CASE p # r
    BY <1>3, <2>1, <2>3 DEF Trim, Goto, Trimmed
  <2> QED
    BY <2>2, <2>3
<1>4. ASSUME NEW p \in Request, Add(p)
      PROVE  stamp'[q] + Window > stamp'[r]
  <2>1. UNCHANGED stamp /\ q \in entries \cup {p} /\ pc[r] = "count" /\ pc[p] = "add"
    BY <1>4 DEF Add, Goto
  <2>2. clock <= stamp[p] + MaxDelay
    BY <2>1 DEF Prompt, InLimiter
  <2>3. stamp[p] \in Nat /\ stamp[r] \in Nat /\ clock \in Nat /\ stamp[r] <= clock
    OBVIOUS
  <2>4. CASE q = p
    BY <2>1, <2>2, <2>3, <2>4
  <2>5. CASE q # p
    BY <2>1, <2>5 DEF Trimmed
  <2> QED
    BY <2>4, <2>5
<1>5. ASSUME NEW p \in Request,
             Count(p) \/ Reject(p) \/ Expire(p) \/ ExpireGone(p) \/ FailOpen(p)
      PROVE  stamp'[q] + Window > stamp'[r]
  <2>1. UNCHANGED <<stamp, entries>>
    BY <1>5 DEF Count, Reject, Expire, ExpireGone, FailOpen
  <2>2. pc[r] = "count"
    BY <1>5 DEF Count, Reject, Expire, ExpireGone, FailOpen, Goto
  <2> QED
    BY <2>1, <2>2 DEF Trimmed
<1>6. CASE UNCHANGED vars
  BY <1>6 DEF vars, Trimmed
<1> QED
  BY <1>1, <1>2, <1>3, <1>4, <1>5, <1>6 DEF Next

\* A request that is answered with 429 really found MaxRequests requests in
\* the window that ends at its arrival.
THEOREM RejectionsAreDeserved == Spec => RejectionIsDeserved
<1>1. Init => TypeOK /\ Prompt /\ Trimmed
  <2> SUFFICES ASSUME Init PROVE TypeOK /\ Prompt /\ Trimmed
    OBVIOUS
  <2>1. TypeOK
    BY InductiveInit DEF Inductive
  <2> QED
    BY <2>1 DEF Init, Prompt, Trimmed, InLimiter
<1>2. TypeOK /\ Prompt /\ Trimmed /\ [Next]_vars => (TypeOK /\ Prompt /\ Trimmed)'
  BY TypeStep, PromptStep, TrimmedStep
<1>3. ASSUME TypeOK, Trimmed, [Next]_vars
      PROVE  [\A r \in Request : pc[r] = "count" /\ pc'[r] = "rejected" =>
                Cardinality({q \in entries : stamp[q] + Window > stamp[r]}) >= MaxRequests]_vars
  <2> SUFFICES ASSUME NEW r \in Request, pc[r] = "count", pc'[r] = "rejected"
               PROVE  Cardinality({q \in entries : stamp[q] + Window > stamp[r]}) >= MaxRequests
    OBVIOUS
  <2>1. {q \in entries : stamp[q] + Window > stamp[r]} = entries
    BY <1>3 DEF Trimmed
  <2>2. pc'[r] # pc[r]
    OBVIOUS
  <2>3. Reject(r)
    BY <1>3, <2>2 DEF Next, vars, TypeOK, Goto, Tick, Arrive, Trim, Count, Add, Expire,
       ExpireGone, FailOpen, Reject
  <2> QED
    BY <2>1, <2>3 DEF Reject
<1> QED
  BY <1>1, <1>2, <1>3, PTL DEF Spec, RejectionIsDeserved
=============================================================================
