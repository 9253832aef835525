----------------------------- MODULE RateLimiter -----------------------------
(***************************************************************************)
(* The sliding-window limiter of src/middleware/rateLimiter.js, for the    *)
(* requests of one identifier: one sorted set in Redis, which the handlers *)
(* of all instances trim, count and add to in separate commands.  Health   *)
(* probes and bypassed requests never reach it.                            *)
(***************************************************************************)
EXTENDS Naturals, FiniteSets

CONSTANTS
    Request,      \* requests of the identifier
    Window,       \* windowMs
    MaxRequests,  \* quota per window
    Concurrency,  \* bound on requests in the limiter at once
    MaxDelay,     \* bound on the time a request spends in the limiter
    MaxTime       \* bound on the clock

ASSUME LimiterAssumption ==
    /\ IsFiniteSet(Request)
    /\ Window \in Nat \ {0} /\ MaxRequests \in Nat \ {0} /\ Concurrency \in Nat \ {0}
    /\ MaxDelay \in Nat /\ MaxDelay < Window /\ MaxTime \in Nat

VARIABLES
    clock,    \* Date.now(), and the clock of Redis
    pc,       \* the command each request awaits, or how it ended
    stamp,    \* now, as each request captured it: its score
    entries,  \* members of the sorted set, each named by its request
    expiry    \* when Redis drops the key; 0: no expiry is set

vars == <<clock, pc, stamp, entries, expiry>>

InLimiter == {r \in Request : pc[r] \in {"trim", "count", "add", "expire"}}
Adding == {r \in Request : pc[r] = "add"}
InWindow(r) == stamp[r] + Window > clock

Init ==
    /\ clock = 1
    /\ pc = [r \in Request |-> "idle"]
    /\ stamp = [r \in Request |-> 0]
    /\ entries = {}
    /\ expiry = 0

Goto(r, from, to) == pc[r] = from /\ pc' = [pc EXCEPT ![r] = to]

Arrive(r) ==
    /\ Cardinality(InLimiter) < Concurrency
    /\ Goto(r, "idle", "trim")
    /\ stamp' = [stamp EXCEPT ![r] = clock]
    /\ UNCHANGED <<clock, entries, expiry>>

\* A slip: the entry on the boundary is kept.
TrimExclusive(r) ==
    /\ Goto(r, "trim", "count")
    /\ entries' = {q \in entries : stamp[q] + Window >= stamp[r]}
    /\ expiry' = IF entries' = {} THEN 0 ELSE expiry
    /\ UNCHANGED <<clock, stamp>>

\* ZREMRANGEBYSCORE key 0 now - windowMs; Redis deletes an empty key, and
\* its expiry with it.
Trim(r) ==
    /\ Goto(r, "trim", "count")
    /\ entries' = {q \in entries : stamp[q] + Window > stamp[r]}
    /\ expiry' = IF entries' = {} THEN 0 ELSE expiry
    /\ UNCHANGED <<clock, stamp>>

\* A slip: the quota is compared with > instead of >=.
CountLax(r) ==
    /\ Cardinality(entries) <= MaxRequests
    /\ Goto(r, "count", "add")
    /\ UNCHANGED <<clock, stamp, entries, expiry>>

\* ZCARD below the quota: go on;
Count(r) ==
    /\ Cardinality(entries) < MaxRequests
    /\ Goto(r, "count", "add")
    /\ UNCHANGED <<clock, stamp, entries, expiry>>

\* A slip: a rejected request is counted too.
RejectCounted(r) ==
    /\ Cardinality(entries) >= MaxRequests
    /\ Goto(r, "count", "rejected")
    /\ entries' = entries \cup {r}
    /\ UNCHANGED <<clock, stamp, expiry>>

\* or at it: 429.
Reject(r) ==
    /\ Cardinality(entries) >= MaxRequests
    /\ Goto(r, "count", "rejected")
    /\ UNCHANGED <<clock, stamp, entries, expiry>>

\* ZADD, with the score captured on arrival.
Add(r) ==
    /\ Goto(r, "add", "expire")
    /\ entries' = entries \cup {r}
    /\ UNCHANGED <<clock, stamp, expiry>>

\* A slip: the key's life is counted from the request's arrival.
ExpireFromStamp(r) ==
    /\ r \in entries
    /\ Goto(r, "expire", "passed")
    /\ expiry' = stamp[r] + Window
    /\ UNCHANGED <<clock, stamp, entries>>

\* PEXPIRE key windowMs; next().
Expire(r) ==
    /\ r \in entries
    /\ Goto(r, "expire", "passed")
    /\ expiry' = clock + Window
    /\ UNCHANGED <<clock, stamp, entries>>

\* The same, but the key expired since ZADD: the request goes on uncounted.
ExpireGone(r) ==
    /\ r \notin entries
    /\ Goto(r, "expire", "uncounted")
    /\ expiry' = IF entries = {} THEN expiry ELSE clock + Window
    /\ UNCHANGED <<clock, stamp, entries>>

\* catch: a command failed, the request goes on; ZADD may have been done.
FailOpen(r) ==
    /\ r \in InLimiter
    /\ pc' = [pc EXCEPT ![r] = "uncounted"]
    /\ UNCHANGED <<clock, stamp, entries, expiry>>

\* A millisecond passes; Redis drops an expired key.
Tick ==
    /\ clock < MaxTime
    /\ \A r \in InLimiter : clock < stamp[r] + MaxDelay
    /\ clock' = clock + 1
    /\ IF expiry # 0 /\ expiry <= clock'
       THEN entries' = {} /\ expiry' = 0
       ELSE UNCHANGED <<entries, expiry>>
    /\ UNCHANGED <<pc, stamp>>

Next ==
    \/ Tick
    \/ \E r \in Request :
         \/ Arrive(r) \/ Trim(r) \/ Count(r) \/ Reject(r)
         \/ Add(r) \/ Expire(r) \/ ExpireGone(r) \/ FailOpen(r)

Spec == Init /\ [][Next]_vars

-----------------------------------------------------------------------------
(* Properties                                                              *)

\* Every variable has its type; nobody is stamped ahead of the clock, and
\* only requests that were let in are counted.
TypeOK ==
    /\ clock \in Nat \ {0}
    /\ pc \in [Request -> {"idle", "trim", "count", "add", "expire", "passed",
                           "rejected", "uncounted"}]
    /\ stamp \in [Request -> 0 .. clock]
    /\ entries \subseteq {r \in Request : pc[r] \in {"expire", "passed", "uncounted"}}
    /\ expiry \in Nat

\* Counting and adding are two commands, so the quota can be exceeded, but by
\* no more than the other requests in the limiter: fewer than MaxRequests +
\* Concurrency requests that were counted came within any window.
QuotaWithConcurrency ==
    Cardinality({r \in Request : pc[r] = "passed" /\ InWindow(r)})
        <= MaxRequests - 1 + Concurrency

\* A request that passed is counted until it leaves the window: neither a trim
\* with an older request's time nor the key's expiry drops it early
\* (zremrangebyscore, pexpire).
CountedWhileInWindow ==
    \A r \in Request : pc[r] = "passed" /\ InWindow(r) => r \in entries

\* A 429 is deserved: MaxRequests requests really came within the window
\* that ends at this one's arrival; none that was due to be trimmed is
\* counted (zremrangebyscore before zcard, with others adding in between).
RejectionIsDeserved ==
    [][\A r \in Request : pc[r] = "count" /\ pc'[r] = "rejected" =>
         Cardinality({q \in entries : stamp[q] + Window > stamp[r]}) >= MaxRequests]_vars

-----------------------------------------------------------------------------
(* What the quota rests on: an inductive invariant, used by the proofs.    *)

\* The set cannot outgrow the quota by more than the requests about to add;
EntriesBounded ==
    Cardinality(entries \cup Adding) <= MaxRequests - 1 + Concurrency

\* the key outlives every request that passed.
KeyOutlivesPassed ==
    \A r \in Request : pc[r] = "passed" /\ InWindow(r) => expiry >= stamp[r] + Window

Inductive ==
    /\ TypeOK /\ Cardinality(InLimiter) <= Concurrency
    /\ EntriesBounded /\ CountedWhileInWindow /\ KeyOutlivesPassed
=============================================================================
