----------------------------- MODULE Idempotency -----------------------------
(***************************************************************************)
(* POST /:id/messages with an Idempotency-Key: the middleware of           *)
(* src/middleware/idempotency.js around validation and sendMessage.  Redis *)
(* and the idempotency_keys table are shared by the instances; the stored  *)
(* response is written by a task that runs on after the answer is sent.    *)
(* sendMessage is one step here: what it promises, ConversationLog says.   *)
(***************************************************************************)
EXTENDS Naturals, FiniteSets

CONSTANTS
    Request,       \* requests that carry a key, retries included
    Instance, User, Key,
    Call,          \* Call[r]: who sends which key to which instance
    MaxFaults,     \* bound on lost connections, failed sends and crashes
    MaxExpiries,   \* bound on Redis entries that expire
    Empty,         \* no entry, no row, no answer
    Processing     \* the in-flight mark

ASSUME CallAssumption ==
    Call \in [Request -> [at : Instance, user : User, key : Key]]
ASSUME BoundAssumption == MaxFaults \in Nat /\ MaxExpiries \in Nat

At(r) == Call[r].at
KeyOf(r) == Call[r].key
\* redisKey = `idemp:${userId}:${idempotencyKey}`
Slot(r) == <<Call[r].user, Call[r].key>>
SameOperation(r, q) == Slot(r) = Slot(q)

\* A response, and the request whose execution produced it.
Response == [status : {201, 409, 422, 500}, of : Request]
Answer == [response : Response, replay : BOOLEAN]
StoredRow == [user : User, response : Response]

ASSUME NullAssumption ==
    /\ Empty # Processing /\ Empty \notin Response /\ Processing \notin Response
    /\ Empty \notin Answer /\ Empty \notin StoredRow

VARIABLES
    pc,        \* what each request awaits
    wrapped,   \* requests whose res.json was replaced
    result,    \* status of an execution, 0 before
    answer,    \* what the client got: response and X-Idempotent-Replay
    task,      \* progress of the task that stores the response
    redis,     \* Redis entry of each user and key
    table,     \* row of idempotency_keys, by key
    stored,    \* requests whose exchange is committed in messages
    redisUp,   \* instances whose Redis client works
    settled,   \* requests that came after every earlier one with the key was over
    overtaken, \* per request: requests answered 201 before it arrived
    faults, expiries

vars == <<pc, wrapped, result, answer, task, redis, table, stored, redisUp,
          settled, overtaken, faults, expiries>>
history == <<settled, overtaken>>
bounds == <<faults, expiries>>

InFlight == {"get", "lookup", "populate", "mark", "send", "respond"}

Init ==
    /\ pc = [r \in Request |-> "idle"]
    /\ wrapped = {}
    /\ result = [r \in Request |-> 0]
    /\ answer = [r \in Request |-> Empty]
    /\ task = [r \in Request |-> "none"]
    /\ redis = [s \in User \X Key |-> Empty]
    /\ table = [k \in Key |-> Empty]
    /\ stored = {}
    /\ redisUp = Instance
    /\ settled = {}
    /\ overtaken = [r \in Request |-> {}]
    /\ faults = 0 /\ expiries = 0

-----------------------------------------------------------------------------
(* The middleware, before next()                                           *)

Goto(r, from, to) == pc[r] = from /\ pc' = [pc EXCEPT ![r] = to]

AnswerWith(r, response, replay) ==
    answer' = [answer EXCEPT ![r] = [response |-> response, replay |-> replay]]

Over(r) == pc[r] = "done" /\ task[r] \in {"none", "done"}

Receive(r) ==
    LET others == {q \in Request \ {r} : KeyOf(q) = KeyOf(r) /\ pc[q] # "idle"}
        mine == {q \in others : SameOperation(r, q)}
    IN  /\ Goto(r, "idle", "get")
        /\ settled' = IF mine # {} /\ \A q \in others : Over(q)
                      THEN settled \cup {r} ELSE settled
        /\ overtaken' = [overtaken EXCEPT ![r] =
             {q \in mine : answer[q] # Empty /\ answer[q].response = [status |-> 201, of |-> q]}]
        /\ UNCHANGED <<wrapped, result, answer, task, redis, table, stored, redisUp, bounds>>

\* 1. redis.get: nothing there;
GetMiss(r) ==
    /\ At(r) \in redisUp /\ redis[Slot(r)] = Empty
    /\ Goto(r, "get", "lookup")
    /\ UNCHANGED <<wrapped, result, answer, task, redis, table, stored, redisUp, history, bounds>>

\* the mark of a request in flight: 409;
GetConflict(r) ==
    /\ At(r) \in redisUp /\ redis[Slot(r)] = Processing
    /\ Goto(r, "get", "done")
    /\ AnswerWith(r, [status |-> 409, of |-> r], FALSE)
    /\ UNCHANGED <<wrapped, result, task, redis, table, stored, redisUp, history, bounds>>

\* A slip: whatever is there is taken for a response.
GetReplayAny(r) ==
    /\ At(r) \in redisUp /\ redis[Slot(r)] # Empty
    /\ Goto(r, "get", "done")
    /\ AnswerWith(r, redis[Slot(r)], TRUE)
    /\ UNCHANGED <<wrapped, result, task, redis, table, stored, redisUp, history, bounds>>

\* or a response, to be replayed.
GetReplay(r) ==
    /\ At(r) \in redisUp /\ redis[Slot(r)] \in Response
    /\ Goto(r, "get", "done")
    /\ AnswerWith(r, redis[Slot(r)], TRUE)
    /\ UNCHANGED <<wrapped, result, task, redis, table, stored, redisUp, history, bounds>>

\* 2. SELECT ... WHERE key = $1 AND user_id = $2
HasRow(r) == table[KeyOf(r)] # Empty /\ table[KeyOf(r)].user = Call[r].user

LookupMiss(r) ==
    /\ ~HasRow(r)
    /\ Goto(r, "lookup", "mark")
    /\ UNCHANGED <<wrapped, result, answer, task, redis, table, stored, redisUp, history, bounds>>

\* The row found travels in the stage's result until Redis is populated.
LookupHit(r) ==
    /\ HasRow(r)
    /\ Goto(r, "lookup", "populate")
    /\ AnswerWith(r, table[KeyOf(r)].response, TRUE)
    /\ UNCHANGED <<wrapped, result, task, redis, table, stored, redisUp, history, bounds>>

Populate(r) ==
    /\ At(r) \in redisUp
    /\ Goto(r, "populate", "done")
    /\ redis' = [redis EXCEPT ![Slot(r)] = answer[r].response]
    /\ UNCHANGED <<wrapped, result, answer, task, table, stored, redisUp, history, bounds>>

\* 3. SET ... EX 60, whatever is there by now.
Mark(r) ==
    /\ At(r) \in redisUp
    /\ Goto(r, "mark", "send")
    /\ redis' = [redis EXCEPT ![Slot(r)] = Processing]
    /\ wrapped' = wrapped \cup {r}
    /\ UNCHANGED <<result, answer, task, table, stored, redisUp, history, bounds>>

\* A Redis call fails: catch, next(), and the response will not be stored.
FailOpen(r) ==
    /\ At(r) \notin redisUp
    /\ pc[r] \in {"get", "populate", "mark"}
    /\ pc' = [pc EXCEPT ![r] = "send"]
    /\ answer' = [answer EXCEPT ![r] = Empty]
    /\ UNCHANGED <<wrapped, result, task, redis, table, stored, redisUp, history, bounds>>

\* The lookup fails: the same.
LookupFails(r) ==
    /\ faults < MaxFaults
    /\ Goto(r, "lookup", "send")
    /\ faults' = faults + 1
    /\ UNCHANGED <<wrapped, result, answer, task, redis, table, stored, redisUp, history, expiries>>

-----------------------------------------------------------------------------
(* validate and sendMessage                                                *)

\* UNIQUE on messages.idempotency_key, for all users together.
KeyStored(r) == \E q \in stored : KeyOf(q) = KeyOf(r)

Finish(r, status) ==
    /\ Goto(r, "send", "respond")
    /\ result' = [result EXCEPT ![r] = status]
    /\ UNCHANGED <<wrapped, answer, task, redis, table, redisUp, history, expiries>>

\* The body, read for the first time here, may be anything.
Invalid(r) ==
    /\ Finish(r, 422)
    /\ UNCHANGED <<stored, faults>>

\* A slip: the key is not stored with the message.
SendUnchecked(r) ==
    /\ Finish(r, 201)
    /\ stored' = stored \cup {r}
    /\ UNCHANGED faults

Send(r) ==
    /\ ~KeyStored(r)
    /\ Finish(r, 201)
    /\ stored' = stored \cup {r}
    /\ UNCHANGED faults

SendDuplicate(r) ==
    /\ KeyStored(r)
    /\ Finish(r, 500)
    /\ UNCHANGED <<stored, faults>>

\* The transaction fails, or only the answer to its COMMIT is lost.
SendFails(r) ==
    /\ ~KeyStored(r) /\ faults < MaxFaults
    /\ Finish(r, 500)
    /\ stored' \in {stored, stored \cup {r}}
    /\ faults' = faults + 1

-----------------------------------------------------------------------------
(* The response, and the task that stores it                               *)

\* The client is answered without waiting for the task.
Respond(r) ==
    /\ Goto(r, "respond", "done")
    /\ AnswerWith(r, [status |-> result[r], of |-> r], FALSE)
    /\ task' = [task EXCEPT ![r] = IF r \in wrapped THEN "redis" ELSE "none"]
    /\ UNCHANGED <<wrapped, result, redis, table, stored, redisUp, history, bounds>>

\* A slip: SET ... NX, so the mark stays.
StoreRedisOnce(r) ==
    /\ task[r] = "redis"
    /\ task' = [task EXCEPT ![r] = "table"]
    /\ redis' = [redis EXCEPT ![Slot(r)] = IF @ = Empty THEN answer[r].response ELSE @]
    /\ UNCHANGED <<pc, wrapped, result, answer, table, stored, redisUp, history, bounds>>

StoreRedis(r) ==
    /\ task[r] = "redis" /\ At(r) \in redisUp
    /\ task' = [task EXCEPT ![r] = "table"]
    /\ redis' = [redis EXCEPT ![Slot(r)] = answer[r].response]
    /\ UNCHANGED <<pc, wrapped, result, answer, table, stored, redisUp, history, bounds>>

\* persistErr: the task ends, and the table is not written either.
StoreRedisFails(r) ==
    /\ task[r] = "redis" /\ At(r) \notin redisUp
    /\ task' = [task EXCEPT ![r] = "done"]
    /\ UNCHANGED <<pc, wrapped, result, answer, redis, table, stored, redisUp, history, bounds>>

\* ON CONFLICT (key) DO UPDATE: a row keeps its first user.
StoreTable(r) ==
    /\ task[r] = "table"
    /\ task' = [task EXCEPT ![r] = "done"]
    /\ table' = [table EXCEPT ![KeyOf(r)] =
         [user |-> IF @ = Empty THEN Call[r].user ELSE @.user,
          response |-> answer[r].response]]
    /\ UNCHANGED <<pc, wrapped, result, answer, redis, stored, redisUp, history, bounds>>

\* The upsert fails (when only its answer is lost, StoreTable has happened).
StoreTableFails(r) ==
    /\ task[r] = "table" /\ faults < MaxFaults
    /\ task' = [task EXCEPT ![r] = "done"]
    /\ faults' = faults + 1
    /\ UNCHANGED <<pc, wrapped, result, answer, redis, table, stored, redisUp, history, expiries>>

-----------------------------------------------------------------------------
(* Time and failures                                                       *)

\* 60 seconds for a mark, a day for a response.
Expire(s) ==
    /\ expiries < MaxExpiries /\ redis[s] # Empty
    /\ redis' = [redis EXCEPT ![s] = Empty]
    /\ expiries' = expiries + 1
    /\ UNCHANGED <<pc, wrapped, result, answer, task, table, stored, redisUp, history, faults>>

\* retryStrategy: () => null -- a lost Redis connection stays lost.
LoseRedis(i) ==
    /\ faults < MaxFaults /\ i \in redisUp
    /\ redisUp' = redisUp \ {i}
    /\ faults' = faults + 1
    /\ UNCHANGED <<pc, wrapped, result, answer, task, redis, table, stored, history, expiries>>

\* An instance dies with its requests and tasks; the next one reconnects.
\* A send that is under way may still be committed by the database.
Crash(i) ==
    LET mine == {r \in Request : At(r) = i}
        active == {r \in mine : pc[r] \in InFlight}
        sending == {r \in active : pc[r] = "send" /\ ~KeyStored(r)}
    IN  /\ faults < MaxFaults
        /\ \E r \in mine : r \in active \/ task[r] \in {"redis", "table"}
        /\ pc' = [r \in Request |-> IF r \in active THEN "dead" ELSE pc[r]]
        /\ task' = [r \in Request |->
             IF r \in mine /\ task[r] \in {"redis", "table"} THEN "dead" ELSE task[r]]
        /\ \E late \in SUBSET sending :
             /\ \A r, q \in late : KeyOf(r) = KeyOf(q) => r = q
             /\ stored' = stored \cup late
        /\ answer' = [r \in Request |-> IF r \in active THEN Empty ELSE answer[r]]
        /\ redisUp' = redisUp \cup {i}
        /\ faults' = faults + 1
        /\ UNCHANGED <<wrapped, result, redis, table, history, expiries>>

-----------------------------------------------------------------------------

Next ==
    \/ \E r \in Request :
         \/ Receive(r) \/ GetMiss(r) \/ GetConflict(r) \/ GetReplay(r)
         \/ LookupMiss(r) \/ LookupHit(r) \/ LookupFails(r)
         \/ Populate(r) \/ Mark(r) \/ FailOpen(r)
         \/ Invalid(r) \/ Send(r) \/ SendDuplicate(r) \/ SendFails(r)
         \/ Respond(r) \/ StoreRedis(r) \/ StoreRedisFails(r)
         \/ StoreTable(r) \/ StoreTableFails(r)
    \/ \E s \in User \X Key : Expire(s)
    \/ \E i \in Instance : LoseRedis(i) \/ Crash(i)

Spec == Init /\ [][Next]_vars

-----------------------------------------------------------------------------
(* Properties                                                              *)

Answered(r) == pc[r] = "done"

\* Every variable has its type.
TypeOK ==
    /\ pc \in [Request -> {"idle", "done", "dead"} \cup InFlight]
    /\ wrapped \subseteq Request /\ stored \subseteq Request /\ settled \subseteq Request
    /\ result \in [Request -> {0, 201, 422, 500}]
    /\ answer \in [Request -> Answer \cup {Empty}]
    /\ task \in [Request -> {"none", "redis", "table", "done", "dead"}]
    /\ redis \in [User \X Key -> Response \cup {Empty, Processing}]
    /\ table \in [Key -> StoredRow \cup {Empty}]
    /\ redisUp \subseteq Instance
    /\ overtaken \in [Request -> SUBSET Request]
    /\ faults \in 0 .. MaxFaults /\ expiries \in 0 .. MaxExpiries

\* A 201, first-hand or replayed, tells of a committed exchange, and of the
\* only one that was committed under the key (the cached response against
\* UNIQUE on messages.idempotency_key, through races, expiry and crashes).
SuccessNamesTheExchange ==
    \A r \in Request :
        Answered(r) /\ answer[r].response.status = 201 =>
            {q \in stored : KeyOf(q) = KeyOf(r)} = {answer[r].response.of}

\* A retry that comes when every earlier request with the key is over, its
\* response stored, is replayed and not executed again, as long as Redis
\* keeps its entries and nothing fails.
QuietRetryIsReplayed ==
    \A r \in settled :
        Answered(r) /\ faults = 0 /\ expiries = 0 => answer[r].replay

\* As long as nothing fails, a caller is told of a conflict only while another
\* request of its operation runs, or is about to store its response: the mark
\* does not outlive its request.
ConflictHasCause ==
    [][\A r \in Request :
         GetConflict(r) /\ faults = 0 =>
            \E q \in wrapped \ {r} :
               /\ SameOperation(q, r)
               /\ pc[q] \in {"send", "respond"} \/ task[q] = "redis"]_vars

\* README.md, "Concurrent In-Flight": if a request with the same key is
\* currently running, subsequent requests receive 409 Conflict.  So no two
\* run at a time (redis.get, the table and redis.set are three awaits apart).
OneExecution ==
    \A r, q \in Request :
        /\ SameOperation(r, q)
        /\ pc[r] \in {"send", "respond"} /\ pc[q] \in {"send", "respond"}
        => r = q

\* README.md, "Cache Hit": if previously processed, the cached status code and
\* response payload are replayed.  So among requests that are all valid, one
\* that comes after a 201 for its operation and is replayed gets that 201.
SuccessIsReplayed ==
    (\A r \in Request : result[r] # 422) =>
        \A r \in Request : Answered(r) /\ answer[r].replay =>
            \A q \in overtaken[r] : answer[r].response = [status |-> 201, of |-> q]
=============================================================================
