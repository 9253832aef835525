-------------------------- MODULE IdempotencyProofs ---------------------------
(***************************************************************************)
(* Theorems about Idempotency for every number of requests, instances,     *)
(* users and keys, and every bound on faults and expiries.                 *)
(***************************************************************************)
EXTENDS Idempotency, TLAPS

-----------------------------------------------------------------------------
(* The invariant                                                           *)

\* A request that is over has an answer, and its storing task runs after it.
Stages ==
    \A r \in Request :
        /\ pc[r] \in {"populate", "done"} => answer[r] # Empty
        /\ pc[r] = "respond" => result[r] # 0
        /\ task[r] \in {"redis", "table"} => pc[r] = "done"

\* UNIQUE: one exchange is stored under a key.
StoredOnce == \A r, q \in stored : KeyOf(r) = KeyOf(q) => r = q

\* A 201, wherever it is kept, names an exchange stored under its key.
Names(response, k) ==
    response.status = 201 => response.of \in stored /\ KeyOf(response.of) = k
SuccessesNamed ==
    /\ \A r \in Request : result[r] = 201 => r \in stored
    /\ \A r \in Request : answer[r] # Empty => Names(answer[r].response, KeyOf(r))
    /\ \A s \in User \X Key : redis[s] \in Response => Names(redis[s], s[2])
    /\ \A k \in Key : table[k] # Empty => Names(table[k].response, k)

\* As long as nothing fails, a mark belongs to a request that will replace it.
Stores(q) == q \in wrapped /\ (pc[q] \in {"send", "respond"} \/ task[q] = "redis")
MarksOwned ==
    faults = 0 =>
        /\ redisUp = Instance
        /\ \A s \in User \X Key : redis[s] = Processing =>
              \E q \in Request : Slot(q) = s /\ Stores(q)

\* As long as nothing is lost, a slot is empty until a request gets past its
\* mark, and an operation that was over once is never sent again.
Quiet == faults = 0 /\ expiries = 0
Early == {"idle", "get", "lookup", "populate", "mark"}
Remembered(r) ==
    /\ redis[Slot(r)] \in Response
    /\ \A q \in Request : SameOperation(q, r) => pc[q] \in {"idle", "get", "done"}
    /\ pc[r] # "idle"
    /\ pc[r] = "done" => answer[r].replay
NothingForgotten ==
    Quiet => /\ \A r \in Request : redis[Slot(r)] = Empty => pc[r] \in Early
             /\ \A r \in settled : Remembered(r)

Inductive ==
    TypeOK /\ Stages /\ StoredOnce /\ SuccessesNamed /\ MarksOwned /\ NothingForgotten

-----------------------------------------------------------------------------
(* Types                                                                   *)

\* Where a request is sent, and the places its response is kept in.
LEMMA Places ==
    ASSUME NEW r \in Request
    PROVE  /\ At(r) \in Instance /\ KeyOf(r) \in Key /\ Call[r].user \in User
           /\ Slot(r) \in User \X Key /\ Slot(r)[2] = KeyOf(r)
BY CallAssumption DEF At, KeyOf, Slot

\* One operation, one key.
LEMMA OneKey ==
    ASSUME NEW r \in Request, NEW q \in Request, SameOperation(r, q)
    PROVE  KeyOf(r) = KeyOf(q)
BY Places DEF SameOperation

\* An answer carries a response.
LEMMA AnswerType ==
    ASSUME TypeOK, NEW r \in Request, answer[r] # Empty
    PROVE  answer[r] \in Answer /\ answer[r].response \in Response
BY DEF TypeOK, Answer

\* So does a row of the table.
LEMMA RowType ==
    ASSUME TypeOK, NEW k \in Key, table[k] # Empty
    PROVE  table[k].user \in User /\ table[k].response \in Response
BY DEF TypeOK, StoredRow

LEMMA TypeInit == Init => TypeOK
BY BoundAssumption DEF Init, TypeOK, InFlight

\* Every step keeps the types.
LEMMA TypeStep == TypeOK /\ Stages /\ [Next]_vars => TypeOK'
<1> SUFFICES ASSUME TypeOK, Stages, [Next]_vars PROVE TypeOK'
    OBVIOUS
<1> USE DEF TypeOK, InFlight
<1>1. ASSUME NEW r \in Request,
             \/ GetMiss(r) \/ LookupMiss(r) \/ LookupFails(r)
             \/ StoreRedisFails(r) \/ StoreTableFails(r)
      PROVE  TypeOK'
    BY <1>1, BoundAssumption DEF GetMiss, LookupMiss, LookupFails, StoreRedisFails,
       StoreTableFails, Goto, history, bounds
<1>2. ASSUME NEW r \in Request, Receive(r) PROVE TypeOK'
    BY <1>2 DEF Receive, Goto, bounds
<1>3. ASSUME NEW r \in Request, GetConflict(r) \/ GetReplay(r) \/ LookupHit(r) \/ Respond(r)
      PROVE  TypeOK'
  <2>1. \A response \in Response, replay \in BOOLEAN :
            [response |-> response, replay |-> replay] \in Answer
      BY DEF Answer
  <2>2. CASE GetConflict(r)
    <3>1. [status |-> 409, of |-> r] \in Response
        BY DEF Response
    <3>2. [response |-> [status |-> 409, of |-> r], replay |-> FALSE] \in Answer
        BY <3>1 DEF Answer
    <3>3. answer' \in [Request -> Answer \cup {Empty}]
        BY <2>2, <3>2 DEF GetConflict, AnswerWith
    <3> QED BY <2>2, <3>3 DEF GetConflict, Goto, history, bounds
  <2>3. CASE GetReplay(r)
      BY <2>1, <2>3 DEF GetReplay, Goto, AnswerWith, history, bounds
  <2>4. CASE LookupHit(r)
      BY <2>1, <2>4, Places, RowType DEF LookupHit, HasRow, Goto, AnswerWith, history, bounds
  <2>5. CASE Respond(r)
    <3>1. result[r] \in {201, 409, 422, 500}
        BY <2>5 DEF Respond, Goto, Stages
    <3>2. [status |-> result[r], of |-> r] \in Response
        BY <3>1 DEF Response
    <3> QED BY <2>1, <2>5, <3>2 DEF Respond, Goto, AnswerWith, history, bounds
  <2> QED BY <1>3, <2>2, <2>3, <2>4, <2>5
<1>4. ASSUME NEW r \in Request, Populate(r) \/ StoreRedis(r) PROVE TypeOK'
  <2>1. answer[r].response \in Response
      BY <1>4, AnswerType DEF Populate, StoreRedis, Goto, Stages
  <2>2. redis' \in [User \X Key -> Response \cup {Empty, Processing}]
      BY <1>4, <2>1 DEF Populate, StoreRedis
  <2>3. CASE Populate(r)
      BY <2>2, <2>3 DEF Populate, Goto, history, bounds
  <2>4. CASE StoreRedis(r)
      BY <2>2, <2>4 DEF StoreRedis, history, bounds
  <2> QED BY <1>4, <2>3, <2>4
<1>5. ASSUME NEW r \in Request, Mark(r) \/ FailOpen(r) PROVE TypeOK'
  <2>1. CASE Mark(r)
    <3>1. redis' \in [User \X Key -> Response \cup {Empty, Processing}]
        BY <2>1 DEF Mark
    <3> QED BY <2>1, <3>1 DEF Mark, Goto, history, bounds
  <2>2. CASE FailOpen(r)
      BY <2>2 DEF FailOpen, history, bounds
  <2> QED BY <1>5, <2>1, <2>2
<1>6. ASSUME NEW r \in Request,
             Invalid(r) \/ Send(r) \/ SendDuplicate(r) \/ SendFails(r)
      PROVE  TypeOK'
    BY <1>6, BoundAssumption DEF Invalid, Send, SendDuplicate, SendFails, Finish, Goto, history
<1>7. ASSUME NEW r \in Request, StoreTable(r) PROVE TypeOK'
  <2>1. answer[r].response \in Response
      BY <1>7, AnswerType DEF StoreTable, Stages
  <2> DEFINE row == [user |-> IF table[KeyOf(r)] = Empty THEN Call[r].user
                                                       ELSE table[KeyOf(r)].user,
                     response |-> answer[r].response]
  <2>2. row \in StoredRow
      BY <2>1, Places, RowType DEF StoredRow
  <2>3. table' = [table EXCEPT ![KeyOf(r)] = row]
      BY <1>7 DEF StoreTable
  <2>4. table' \in [Key -> StoredRow \cup {Empty}]
      BY <2>2, <2>3
  <2> QED BY <1>7, <2>4 DEF StoreTable, history, bounds
<1>8. ASSUME NEW s \in User \X Key, Expire(s) PROVE TypeOK'
    BY <1>8, BoundAssumption DEF Expire, history
<1>9. ASSUME NEW i \in Instance, LoseRedis(i) \/ Crash(i) PROVE TypeOK'
  <2>1. CASE LoseRedis(i)
      BY <2>1, BoundAssumption DEF LoseRedis, history
  <2>2. CASE Crash(i)
      BY <2>2, BoundAssumption DEF Crash, history
  <2> QED BY <1>9, <2>1, <2>2
<1>10. CASE UNCHANGED vars
    BY <1>10 DEF vars
<1> QED BY <1>1, <1>2, <1>3, <1>4, <1>5, <1>6, <1>7, <1>8, <1>9, <1>10 DEF Next

-----------------------------------------------------------------------------
(* One exchange for a key, and the responses that tell of it               *)

\* A request that is over has its answer, and keeps it.
LEMMA StagesStep == TypeOK /\ Stages /\ [Next]_vars => Stages'
<1> SUFFICES ASSUME TypeOK, Stages, [Next]_vars,
                    NEW r \in Request
             PROVE  /\ pc'[r] \in {"populate", "done"} => answer'[r] # Empty
                    /\ pc'[r] = "respond" => result'[r] # 0
                    /\ task'[r] \in {"redis", "table"} => pc'[r] = "done"
    BY DEF Stages
<1> DEFINE Fits == /\ pc'[r] \in {"populate", "done"} => answer'[r] # Empty
                   /\ pc'[r] = "respond" => result'[r] # 0
                   /\ task'[r] \in {"redis", "table"} => pc'[r] = "done"
<1> USE DEF TypeOK, Stages
<1>1. ASSUME NEW q \in Request,
             \/ Receive(q) \/ GetMiss(q) \/ LookupMiss(q) \/ LookupFails(q)
             \/ Populate(q) \/ Mark(q) \/ FailOpen(q)
             \/ Invalid(q) \/ Send(q) \/ SendDuplicate(q) \/ SendFails(q)
      PROVE  Fits
    BY <1>1 DEF Receive, GetMiss, LookupMiss, LookupFails, Populate, Mark, FailOpen,
       Invalid, Send, SendDuplicate, SendFails, Finish, Goto, history, bounds
<1>2. ASSUME NEW q \in Request, GetConflict(q) \/ GetReplay(q) \/ LookupHit(q) \/ Respond(q)
      PROVE  Fits
  <2>1. ASSUME NEW response \in Response, NEW replay \in BOOLEAN,
               NEW from \in {"get", "lookup", "respond"}, NEW to \in {"done", "populate"},
               Goto(q, from, to), AnswerWith(q, response, replay), UNCHANGED result,
               task'[r] = task[r] \/ pc'[r] = "done"
        PROVE  Fits
    <3>1. [response |-> response, replay |-> replay] # Empty
        BY NullAssumption DEF Answer
    <3>2. CASE r = q
      <4>1. pc'[r] = to /\ answer'[r] = [response |-> response, replay |-> replay]
          BY <2>1, <3>2 DEF Goto, AnswerWith
      <4>2. task'[r] \in {"redis", "table"} => pc'[r] = "done"
          BY <2>1, <3>2 DEF Goto
      <4> QED BY <3>1, <4>1, <4>2
    <3>3. CASE r # q
      <4>1. pc'[r] = pc[r] /\ answer'[r] = answer[r]
          BY <2>1, <3>3 DEF Goto, AnswerWith
      <4> QED BY <2>1, <4>1
    <3> QED BY <3>2, <3>3
  <2> HIDE DEF Fits
  <2>2. CASE GetConflict(q)
    <3>1. [status |-> 409, of |-> q] \in Response
        BY DEF Response
    <3> QED BY <2>1, <2>2, <3>1 DEF GetConflict
  <2>3. CASE GetReplay(q)
      BY <2>1, <2>3 DEF GetReplay
  <2>4. CASE LookupHit(q)
    <3>1. table[KeyOf(q)].response \in Response
        BY <2>4, Places, RowType DEF LookupHit, HasRow
    <3> QED BY <2>1, <2>4, <3>1 DEF LookupHit
  <2>5. CASE Respond(q)
    <3>1. result[q] \in {201, 409, 422, 500}
        BY <2>5 DEF Respond, Goto
    <3>2. [status |-> result[q], of |-> q] \in Response
        BY <3>1 DEF Response
    <3>3. task'[r] = task[r] \/ pc'[r] = "done"
        BY <2>5 DEF Respond, Goto
    <3> QED BY <2>1, <2>5, <3>2, <3>3 DEF Respond
  <2> QED BY <1>2, <2>2, <2>3, <2>4, <2>5
<1>3. ASSUME NEW q \in Request,
             \/ StoreRedis(q) \/ StoreRedisFails(q) \/ StoreTable(q) \/ StoreTableFails(q)
      PROVE  Fits
    BY <1>3 DEF StoreRedis, StoreRedisFails, StoreTable, StoreTableFails, history, bounds
<1>4. ASSUME NEW s \in User \X Key, Expire(s) PROVE Fits
    BY <1>4 DEF Expire, history
<1>5. ASSUME NEW i \in Instance, LoseRedis(i) \/ Crash(i) PROVE Fits
    BY <1>5 DEF LoseRedis, Crash, InFlight, history
<1>6. CASE UNCHANGED vars
    BY <1>6 DEF vars
<1> QED BY <1>1, <1>2, <1>3, <1>4, <1>5, <1>6 DEF Next

\* The unique index admits no second exchange, from a send whose answer is
\* lost or from a dead instance either.
LEMMA StoredOnceStep == TypeOK /\ StoredOnce /\ [Next]_vars => StoredOnce'
<1> SUFFICES ASSUME TypeOK, StoredOnce, [Next]_vars,
                    NEW r \in stored', NEW q \in stored', KeyOf(r) = KeyOf(q)
             PROVE  r = q
    BY DEF StoredOnce
<1> USE DEF StoredOnce
<1>1. ASSUME NEW p \in Request,
             \/ Receive(p) \/ GetMiss(p) \/ GetConflict(p) \/ GetReplay(p)
             \/ LookupMiss(p) \/ LookupHit(p) \/ LookupFails(p)
             \/ Populate(p) \/ Mark(p) \/ FailOpen(p)
             \/ Invalid(p) \/ SendDuplicate(p)
             \/ Respond(p) \/ StoreRedis(p) \/ StoreRedisFails(p)
             \/ StoreTable(p) \/ StoreTableFails(p)
      PROVE  stored' = stored
    BY <1>1 DEF Receive, GetMiss, GetConflict, GetReplay, LookupMiss, LookupHit, LookupFails,
       Populate, Mark, FailOpen, Invalid, SendDuplicate, Respond, StoreRedis,
       StoreRedisFails, StoreTable, StoreTableFails
<1>2. ASSUME NEW p \in Request, Send(p) \/ SendFails(p)
      PROVE  r = q
    BY <1>2 DEF Send, SendFails, KeyStored
<1>3. ASSUME NEW s \in User \X Key, Expire(s) PROVE stored' = stored
    BY <1>3 DEF Expire
<1>4. ASSUME NEW i \in Instance, LoseRedis(i) PROVE stored' = stored
    BY <1>4 DEF LoseRedis
<1>5. ASSUME NEW i \in Instance, Crash(i) PROVE r = q
  <2>1. PICK late \in SUBSET {p \in Request : ~KeyStored(p)} :
            /\ \A a, b \in late : KeyOf(a) = KeyOf(b) => a = b
            /\ stored' = stored \cup late
      BY <1>5 DEF Crash
  <2> QED BY <2>1 DEF KeyStored
<1>6. CASE UNCHANGED vars
    BY <1>6 DEF vars
<1> QED BY <1>1, <1>2, <1>3, <1>4, <1>5, <1>6 DEF Next

\* What was committed stays committed.
LEMMA StoredGrows == [Next]_vars => stored \subseteq stored'
<1> SUFFICES ASSUME [Next]_vars PROVE stored \subseteq stored'
    OBVIOUS
<1>1. ASSUME NEW p \in Request,
             \/ Receive(p) \/ GetMiss(p) \/ GetConflict(p) \/ GetReplay(p)
             \/ LookupMiss(p) \/ LookupHit(p) \/ LookupFails(p)
             \/ Populate(p) \/ Mark(p) \/ FailOpen(p)
             \/ Invalid(p) \/ Send(p) \/ SendDuplicate(p) \/ SendFails(p)
             \/ Respond(p) \/ StoreRedis(p) \/ StoreRedisFails(p)
             \/ StoreTable(p) \/ StoreTableFails(p)
      PROVE  stored \subseteq stored'
    BY <1>1 DEF Receive, GetMiss, GetConflict, GetReplay, LookupMiss, LookupHit, LookupFails,
       Populate, Mark, FailOpen, Invalid, Send, SendDuplicate, SendFails, Respond, StoreRedis,
       StoreRedisFails, StoreTable, StoreTableFails
<1>2. ASSUME NEW s \in User \X Key, Expire(s) PROVE stored \subseteq stored'
    BY <1>2 DEF Expire
<1>3. ASSUME NEW i \in Instance, LoseRedis(i) \/ Crash(i) PROVE stored \subseteq stored'
    BY <1>3 DEF LoseRedis, Crash
<1>4. CASE UNCHANGED vars
    BY <1>4 DEF vars
<1> QED BY <1>1, <1>2, <1>3, <1>4 DEF Next

\* So a response that named a stored exchange still does.
LEMMA StillNames ==
    ASSUME [Next]_vars, NEW response, NEW k, Names(response, k)
    PROVE  Names(response, k)'
BY StoredGrows DEF Names, KeyOf

\* A 201 keeps naming a stored exchange, wherever it is copied.
LEMMA SuccessesNamedStep == TypeOK /\ Stages /\ SuccessesNamed /\ [Next]_vars => SuccessesNamed'
<1> SUFFICES ASSUME TypeOK, Stages, SuccessesNamed, [Next]_vars PROVE SuccessesNamed'
    OBVIOUS
<1> USE DEF TypeOK
<1> DEFINE
      Results == \A r \in Request : result'[r] = 201 => r \in stored'
      Answers == \A r \in Request : answer'[r] # Empty => Names(answer'[r].response, KeyOf(r))
      Cached  == \A s \in User \X Key : redis'[s] \in Response => Names(redis'[s], s[2])
      Rows    == \A k \in Key : table'[k] # Empty => Names(table'[k].response, k)
<1>1. UNCHANGED result => Results
    BY StoredGrows DEF SuccessesNamed
<1>2. UNCHANGED answer => Answers
    BY DEF SuccessesNamed
<1>3. UNCHANGED redis => Cached
    BY DEF SuccessesNamed
<1>4. UNCHANGED table => Rows
    BY DEF SuccessesNamed
<1>5. Answers /\ Cached /\ Rows /\ Results => SuccessesNamed'
  <2> SUFFICES ASSUME Answers, Cached, Rows, Results PROVE SuccessesNamed'
      OBVIOUS
  <2>1. \A response, k : Names(response, k) => Names(response, k)'
      BY StillNames
  <2> QED BY <2>1 DEF SuccessesNamed, KeyOf
<1> HIDE DEF Results, Answers, Cached, Rows
<1>6. ASSUME NEW r \in Request,
             \/ Receive(r) \/ GetMiss(r) \/ LookupMiss(r) \/ LookupFails(r)
             \/ StoreRedisFails(r) \/ StoreTableFails(r)
      PROVE  SuccessesNamed'
    BY <1>1, <1>2, <1>3, <1>4, <1>5, <1>6 DEF Receive, GetMiss, LookupMiss, LookupFails,
       StoreRedisFails, StoreTableFails
<1>7. ASSUME NEW r \in Request, GetConflict(r) \/ GetReplay(r) \/ LookupHit(r) \/ Respond(r)
      PROVE  SuccessesNamed'
  <2>1. UNCHANGED <<result, redis, table>>
      BY <1>7 DEF GetConflict, GetReplay, LookupHit, Respond
  <2>2. PICK response, replay : /\ AnswerWith(r, response, replay)
                                /\ Names(response, KeyOf(r))
    <3>1. CASE GetConflict(r)
      <4>1. Names([status |-> 409, of |-> r], KeyOf(r))
          BY DEF Names
      <4> QED BY <3>1, <4>1 DEF GetConflict
    <3>2. CASE GetReplay(r)
      <4>1. AnswerWith(r, redis[Slot(r)], TRUE) /\ redis[Slot(r)] \in Response
          BY <3>2 DEF GetReplay
      <4>2. Names(redis[Slot(r)], KeyOf(r))
          BY <4>1, Places DEF SuccessesNamed
      <4> QED BY <4>1, <4>2
    <3>3. CASE LookupHit(r)
        BY <3>3, Places DEF LookupHit, HasRow, SuccessesNamed
    <3>4. CASE Respond(r)
      <4>1. Names([status |-> result[r], of |-> r], KeyOf(r))
          BY DEF Names, SuccessesNamed
      <4> QED BY <3>4, <4>1 DEF Respond
    <3> QED BY <1>7, <3>1, <3>2, <3>3, <3>4
  <2>3. Answers
    <3> SUFFICES ASSUME NEW q \in Request, answer'[q] # Empty
                 PROVE  Names(answer'[q].response, KeyOf(q))
        BY DEF Answers
    <3>1. CASE q = r
        BY <2>2, <3>1 DEF AnswerWith
    <3>2. CASE q # r
      <4>1. answer'[q] = answer[q]
          BY <2>2, <3>2 DEF AnswerWith
      <4> QED BY <4>1 DEF SuccessesNamed
    <3> QED BY <3>1, <3>2
  <2> QED BY <1>1, <1>3, <1>4, <1>5, <2>1, <2>3
<1>8. ASSUME NEW r \in Request, Populate(r) \/ StoreRedis(r) PROVE SuccessesNamed'
  <2>1. UNCHANGED <<result, answer, table>>
      BY <1>8 DEF Populate, StoreRedis
  <2>2. redis' = [redis EXCEPT ![Slot(r)] = answer[r].response]
      BY <1>8 DEF Populate, StoreRedis
  <2>3. Names(answer[r].response, KeyOf(r))
      BY <1>8 DEF Populate, StoreRedis, Goto, Stages, SuccessesNamed
  <2>4. Cached
    <3> SUFFICES ASSUME NEW s \in User \X Key, redis'[s] \in Response
                 PROVE  Names(redis'[s], s[2])
        BY DEF Cached
    <3>1. CASE s = Slot(r)
      <4>1. redis'[s] = answer[r].response
          BY <2>2, <3>1
      <4> QED BY <2>3, <3>1, <4>1, Places
    <3>2. CASE s # Slot(r)
      <4>1. redis'[s] = redis[s]
          BY <2>2, <3>2
      <4> QED BY <4>1 DEF SuccessesNamed
    <3> QED BY <3>1, <3>2
  <2> QED BY <1>1, <1>2, <1>4, <1>5, <2>1, <2>4
<1>9. ASSUME NEW r \in Request, Mark(r) PROVE SuccessesNamed'
  <2>1. Cached
    <3> SUFFICES ASSUME NEW s \in User \X Key, redis'[s] \in Response
                 PROVE  Names(redis'[s], s[2])
        BY DEF Cached
    <3>1. redis'[s] = redis[s]
        BY <1>9, NullAssumption DEF Mark
    <3> QED BY <3>1 DEF SuccessesNamed
  <2> QED BY <1>1, <1>2, <1>4, <1>5, <1>9, <2>1 DEF Mark
<1>10. ASSUME NEW r \in Request, FailOpen(r) PROVE SuccessesNamed'
  <2>1. Answers
      BY <1>10 DEF Answers, FailOpen, SuccessesNamed
  <2> QED BY <1>1, <1>3, <1>4, <1>5, <1>10, <2>1 DEF FailOpen
<1>11. ASSUME NEW r \in Request,
              Invalid(r) \/ Send(r) \/ SendDuplicate(r) \/ SendFails(r)
       PROVE  SuccessesNamed'
  <2>1. UNCHANGED <<answer, redis, table>>
      BY <1>11 DEF Invalid, Send, SendDuplicate, SendFails, Finish
  <2>2. Results
      BY <1>11 DEF Results, Invalid, Send, SendDuplicate, SendFails, Finish, SuccessesNamed
  <2> QED BY <1>2, <1>3, <1>4, <1>5, <2>1, <2>2
<1>12. ASSUME NEW r \in Request, StoreTable(r) PROVE SuccessesNamed'
  <2>1. Names(answer[r].response, KeyOf(r))
      BY <1>12 DEF StoreTable, Stages, SuccessesNamed
  <2>2. Rows
    <3> SUFFICES ASSUME NEW k \in Key, table'[k] # Empty
                 PROVE  Names(table'[k].response, k)
        BY DEF Rows
    <3>1. CASE k = KeyOf(r)
      <4>1. table'[k].response = answer[r].response
          BY <1>12, <3>1 DEF StoreTable
      <4> QED BY <2>1, <3>1, <4>1
    <3>2. CASE k # KeyOf(r)
      <4>1. table'[k] = table[k]
          BY <1>12, <3>2 DEF StoreTable
      <4> QED BY <4>1 DEF SuccessesNamed
    <3> QED BY <3>1, <3>2
  <2> QED BY <1>1, <1>2, <1>3, <1>5, <1>12, <2>2 DEF StoreTable
<1>13. ASSUME NEW s \in User \X Key, Expire(s) PROVE SuccessesNamed'
  <2>1. Cached
    <3> SUFFICES ASSUME NEW t \in User \X Key, redis'[t] \in Response
                 PROVE  Names(redis'[t], t[2])
        BY DEF Cached
    <3>1. redis'[t] = redis[t]
        BY <1>13, NullAssumption DEF Expire
    <3> QED BY <3>1 DEF SuccessesNamed
  <2> QED BY <1>1, <1>2, <1>4, <1>5, <1>13, <2>1 DEF Expire
<1>14. ASSUME NEW i \in Instance, LoseRedis(i) PROVE SuccessesNamed'
    BY <1>1, <1>2, <1>3, <1>4, <1>5, <1>14 DEF LoseRedis
<1>15. ASSUME NEW i \in Instance, Crash(i) PROVE SuccessesNamed'
  <2>1. Answers
      BY <1>15 DEF Answers, Crash, SuccessesNamed
  <2> QED BY <1>1, <1>3, <1>4, <1>5, <1>15, <2>1 DEF Crash
<1>16. CASE UNCHANGED vars
    BY <1>1, <1>2, <1>3, <1>4, <1>5, <1>16 DEF vars
<1> QED
    BY <1>6, <1>7, <1>8, <1>9, <1>10, <1>11, <1>12, <1>13, <1>14, <1>15, <1>16 DEF Next

-----------------------------------------------------------------------------
(* Marks, and retries that come when all is quiet                          *)

\* Nothing un-happens: an instance without a fault before the step had none.
LEMMA FaultsGrow ==
    TypeOK /\ [Next]_vars => (faults' = 0 => faults = 0) /\ (Quiet' => Quiet)
<1> SUFFICES ASSUME TypeOK, [Next]_vars
             PROVE  (faults' = 0 => faults = 0) /\ (Quiet' => Quiet)
    OBVIOUS
<1> USE DEF TypeOK, Quiet
<1>1. ASSUME NEW r \in Request,
             \/ Receive(r) \/ GetMiss(r) \/ GetConflict(r) \/ GetReplay(r)
             \/ LookupMiss(r) \/ LookupHit(r) \/ Populate(r) \/ Mark(r) \/ FailOpen(r)
             \/ Invalid(r) \/ Send(r) \/ SendDuplicate(r)
             \/ Respond(r) \/ StoreRedis(r) \/ StoreRedisFails(r) \/ StoreTable(r)
      PROVE  faults' = faults /\ expiries' = expiries
    BY <1>1 DEF Receive, GetMiss, GetConflict, GetReplay, LookupMiss, LookupHit, Populate,
       Mark, FailOpen, Invalid, Send, SendDuplicate, Finish, Respond, StoreRedis,
       StoreRedisFails, StoreTable, bounds
<1>2. ASSUME NEW r \in Request, LookupFails(r) \/ SendFails(r) \/ StoreTableFails(r)
      PROVE  faults' = faults + 1 /\ expiries' = expiries
    BY <1>2 DEF LookupFails, SendFails, Finish, StoreTableFails
<1>3. ASSUME NEW s \in User \X Key, Expire(s)
      PROVE  faults' = faults /\ expiries' = expiries + 1
    BY <1>3 DEF Expire
<1>4. ASSUME NEW i \in Instance, LoseRedis(i) \/ Crash(i)
      PROVE  faults' = faults + 1 /\ expiries' = expiries
    BY <1>4 DEF LoseRedis, Crash
<1>5. CASE UNCHANGED vars
    BY <1>5 DEF vars
<1> QED BY <1>1, <1>2, <1>3, <1>4, <1>5 DEF Next

\* Without a fault there was no failed call, lost connection or crash.
LEMMA NoFault ==
    ASSUME TypeOK, faults' = 0
    PROVE  /\ \A r \in Request : ~LookupFails(r) /\ ~SendFails(r) /\ ~StoreTableFails(r)
           /\ \A i \in Instance : ~LoseRedis(i) /\ ~Crash(i)
BY DEF TypeOK, LookupFails, SendFails, Finish, StoreTableFails, LoseRedis, Crash

\* A mark is replaced by the request that put it there, before that is over.
LEMMA MarksOwnedStep ==
    TypeOK /\ Stages /\ MarksOwned /\ [Next]_vars => MarksOwned'
<1> SUFFICES ASSUME TypeOK, Stages, MarksOwned, [Next]_vars, faults' = 0
             PROVE  /\ redisUp' = Instance
                    /\ \A s \in User \X Key : redis'[s] = Processing =>
                          \E q \in Request : Slot(q) = s /\ Stores(q)'
    BY DEF MarksOwned, Slot
<1> USE DEF TypeOK
<1>0. /\ redisUp = Instance
      /\ \A s \in User \X Key : redis[s] = Processing =>
            \E q \in Request : Slot(q) = s /\ Stores(q)
    BY FaultsGrow DEF MarksOwned
<1>1. redisUp' = Instance
  <2>1. ASSUME NEW r \in Request,
               \/ Receive(r) \/ GetMiss(r) \/ GetConflict(r) \/ GetReplay(r)
               \/ LookupMiss(r) \/ LookupHit(r) \/ Populate(r) \/ Mark(r) \/ FailOpen(r)
               \/ Invalid(r) \/ Send(r) \/ SendDuplicate(r)
               \/ Respond(r) \/ StoreRedis(r) \/ StoreRedisFails(r) \/ StoreTable(r)
        PROVE  redisUp' = redisUp
      BY <2>1 DEF Receive, GetMiss, GetConflict, GetReplay, LookupMiss, LookupHit, Populate,
         Mark, FailOpen, Invalid, Send, SendDuplicate, Finish, Respond, StoreRedis,
         StoreRedisFails, StoreTable
  <2>2. ASSUME NEW s \in User \X Key, Expire(s) PROVE redisUp' = redisUp
      BY <2>2 DEF Expire
  <2>3. CASE UNCHANGED vars
      BY <1>0, <2>3 DEF vars
  <2> QED BY <1>0, <2>1, <2>2, <2>3, NoFault DEF Next
<1>2. ASSUME NEW s \in User \X Key, redis'[s] = Processing
      PROVE  \E q \in Request : Slot(q) = s /\ Stores(q)'
  <2> DEFINE Found == \E q \in Request : Slot(q) = s /\ Stores(q)'
  \* Whoever was going to replace it still is, once StoreRedis is not the step.
  <2>1. ASSUME redis[s] = Processing,
               \A q \in Request : Stores(q) => Stores(q)' \/ Slot(q) # s
        PROVE  Found
      BY <1>0, <2>1
  <2> HIDE DEF Found
  <2>2. ASSUME NEW r \in Request,
               \/ Receive(r) \/ GetMiss(r) \/ GetConflict(r) \/ GetReplay(r)
               \/ LookupMiss(r) \/ LookupHit(r)
               \/ Invalid(r) \/ Send(r) \/ SendDuplicate(r)
               \/ Respond(r) \/ StoreTable(r)
        PROVE  Found
    <3>1. UNCHANGED redis
        BY <2>2 DEF Receive, GetMiss, GetConflict, GetReplay, LookupMiss, LookupHit,
           Invalid, Send, SendDuplicate, Finish, Respond, StoreTable
    <3>2. ASSUME NEW q \in Request, Stores(q) PROVE Stores(q)'
      <4>1. CASE Respond(r)
          BY <3>2, <4>1 DEF Stores, Respond, Goto
      <4>2. CASE Invalid(r) \/ Send(r) \/ SendDuplicate(r)
          BY <3>2, <4>2 DEF Stores, Invalid, Send, SendDuplicate, Finish, Goto
      <4>3. CASE StoreTable(r)
          BY <3>2, <4>3 DEF Stores, StoreTable
      <4>4. CASE \/ Receive(r) \/ GetMiss(r) \/ GetConflict(r) \/ GetReplay(r)
                 \/ LookupMiss(r) \/ LookupHit(r)
        <5>1. UNCHANGED <<wrapped, task>>
            BY <4>4 DEF Receive, GetMiss, GetConflict, GetReplay, LookupMiss, LookupHit
        <5>2. PICK from \in {"idle", "get", "lookup"},
                     to \in {"get", "lookup", "mark", "populate", "done"} :
                 Goto(r, from, to)
            BY <4>4 DEF Receive, GetMiss, GetConflict, GetReplay, LookupMiss, LookupHit
        <5> QED BY <3>2, <5>1, <5>2 DEF Stores, Stages, Goto
      <4> QED BY <2>2, <4>1, <4>2, <4>3, <4>4
    <3> QED BY <1>2, <2>1, <3>1, <3>2
  <2>3. ASSUME NEW r \in Request, Populate(r) \/ StoreRedis(r) PROVE Found
    <3>1. answer[r].response \in Response
        BY <2>3, AnswerType DEF Populate, StoreRedis, Goto, Stages
    <3>2. redis' = [redis EXCEPT ![Slot(r)] = answer[r].response]
        BY <2>3 DEF Populate, StoreRedis
    <3>3. s # Slot(r) /\ redis[s] = Processing
      <4>1. CASE s = Slot(r)
        <5>1. redis'[s] = answer[r].response
            BY <3>2, <4>1
        <5> QED BY <1>2, <3>1, <5>1, NullAssumption
      <4>2. CASE s # Slot(r)
        <5>1. redis'[s] = redis[s]
            BY <3>2, <4>2
        <5> QED BY <1>2, <4>2, <5>1
      <4> QED BY <4>1, <4>2
    <3>4. ASSUME NEW q \in Request, Stores(q), Slot(q) = s PROVE Stores(q)'
        BY <2>3, <3>3, <3>4 DEF Stores, Populate, StoreRedis, Goto
    <3> QED BY <2>1, <3>3, <3>4
  <2>4. ASSUME NEW r \in Request, Mark(r) PROVE Found
    <3>1. CASE s = Slot(r)
      <4>1. Stores(r)'
          BY <2>4 DEF Stores, Mark, Goto
      <4> QED BY <3>1, <4>1 DEF Found
    <3>2. CASE s # Slot(r)
      <4>1. redis'[s] = redis[s]
          BY <2>4, <3>2 DEF Mark
      <4>2. ASSUME NEW q \in Request, Stores(q) PROVE Stores(q)'
          BY <2>4, <4>2 DEF Stores, Mark, Goto
      <4> QED BY <1>2, <2>1, <4>1, <4>2
    <3> QED BY <3>1, <3>2
  \* Redis answers everyone.
  <2>5. ASSUME NEW r \in Request PROVE ~FailOpen(r) /\ ~StoreRedisFails(r)
      BY <1>0, Places DEF FailOpen, StoreRedisFails
  <2>6. ASSUME NEW t \in User \X Key, Expire(t) PROVE Found
    <3>1. redis[s] = Processing
        BY <1>2, <2>6, NullAssumption DEF Expire
    <3>2. ASSUME NEW q \in Request, Stores(q) PROVE Stores(q)'
        BY <2>6, <3>2 DEF Stores, Expire
    <3> QED BY <2>1, <3>1, <3>2
  <2>7. ASSUME UNCHANGED vars PROVE Found
    <3>1. ASSUME NEW q \in Request, Stores(q) PROVE Stores(q)'
        BY <2>7, <3>1 DEF Stores, vars
    <3>2. redis[s] = Processing
        BY <1>2, <2>7 DEF vars
    <3> QED BY <2>1, <3>1, <3>2
  <2>8. Found
      BY <2>2, <2>3, <2>4, <2>5, <2>6, <2>7, NoFault DEF Next
  <2> QED BY <2>8 DEF Found
<1> QED BY <1>1, <1>2

\* While all is quiet nothing expires, every Redis call is answered, and no
\* entry vanishes.
LEMMA QuietStep ==
    ASSUME TypeOK, Stages, MarksOwned, [Next]_vars, Quiet'
    PROVE  /\ Quiet /\ redisUp = Instance
           /\ \/ UNCHANGED vars
              \/ \E q \in Request :
                    \/ Receive(q) \/ GetMiss(q) \/ GetConflict(q) \/ GetReplay(q)
                    \/ LookupMiss(q) \/ LookupHit(q) \/ Populate(q) \/ Mark(q)
                    \/ Invalid(q) \/ Send(q) \/ SendDuplicate(q)
                    \/ Respond(q) \/ StoreRedis(q) \/ StoreTable(q)
<1>1. Quiet /\ redisUp = Instance
    BY FaultsGrow DEF MarksOwned, Quiet
<1>2. ASSUME NEW s \in User \X Key PROVE ~Expire(s)
    BY DEF Expire, Quiet, TypeOK
<1>3. ASSUME NEW q \in Request PROVE ~FailOpen(q) /\ ~StoreRedisFails(q)
    BY <1>1, Places DEF FailOpen, StoreRedisFails
<1>4. faults' = 0
    BY DEF Quiet
<1> QED BY <1>1, <1>2, <1>3, <1>4, NoFault DEF Next

\* An empty slot was empty, and its requests have not got past it.
LEMMA EmptyStep ==
    ASSUME TypeOK, Stages, MarksOwned, NothingForgotten, [Next]_vars, Quiet',
           NEW r \in Request, redis'[Slot(r)] = Empty
    PROVE  pc'[r] \in Early
<1> USE DEF TypeOK, Early
<1> DEFINE Untouched == redis[Slot(r)] = Empty /\ pc[r] \in Early
<1>1. redis[Slot(r)] = Empty => Untouched
    BY QuietStep DEF NothingForgotten
<1> HIDE DEF Untouched
<1>2. CASE UNCHANGED vars
    BY <1>1, <1>2 DEF vars, Untouched
<1>3. ASSUME NEW q \in Request, Receive(q) \/ GetMiss(q) \/ LookupMiss(q) \/ LookupHit(q)
      PROVE  pc'[r] \in Early
  <2>1. UNCHANGED redis
      BY <1>3 DEF Receive, GetMiss, LookupMiss, LookupHit
  <2>2. \E to \in Early : pc' = [pc EXCEPT ![q] = to]
      BY <1>3 DEF Receive, GetMiss, LookupMiss, LookupHit, Goto
  <2> QED BY <1>1, <2>1, <2>2 DEF Untouched
<1>4. ASSUME NEW q \in Request, GetConflict(q) \/ GetReplay(q)
      PROVE  pc'[r] \in Early
  <2>1. UNCHANGED redis /\ redis[Slot(q)] # Empty
      BY <1>4, NullAssumption DEF GetConflict, GetReplay
  <2>2. q # r
      BY <2>1
  <2>3. UNCHANGED pc[r]
      BY <1>4, <2>2 DEF GetConflict, GetReplay, Goto
  <2> QED BY <1>1, <2>1, <2>3 DEF Untouched
<1>5. ASSUME NEW q \in Request, Populate(q) \/ Mark(q) PROVE pc'[r] \in Early
  <2>1. PICK entry \in Response \cup {Processing} : redis' = [redis EXCEPT ![Slot(q)] = entry]
      BY <1>5, AnswerType DEF Populate, Mark, Goto, Stages
  <2>2. Slot(q) # Slot(r)
    <3>1. Slot(q) = Slot(r) => redis'[Slot(r)] = entry
        BY <2>1, Places
    <3> QED BY <3>1, NullAssumption
  <2>3. redis[Slot(r)] = Empty
      BY <2>1, <2>2, Places
  <2>4. q # r /\ UNCHANGED pc[r]
      BY <1>5, <2>2 DEF Populate, Mark, Goto
  <2> QED BY <1>1, <2>3, <2>4 DEF Untouched
<1>6. ASSUME NEW q \in Request, Invalid(q) \/ Send(q) \/ SendDuplicate(q) \/ Respond(q)
      PROVE  pc'[r] \in Early
  <2>1. /\ UNCHANGED redis /\ pc[q] \in {"send", "respond"}
        /\ \E to \in {"respond", "done"} : pc' = [pc EXCEPT ![q] = to]
      BY <1>6 DEF Invalid, Send, SendDuplicate, Finish, Respond, Goto
  <2>2. q # r
      BY <1>1, <2>1 DEF Untouched
  <2>3. UNCHANGED pc[r]
      BY <2>1, <2>2
  <2> QED BY <1>1, <2>1, <2>3 DEF Untouched
<1>7. ASSUME NEW q \in Request, StoreTable(q) PROVE pc'[r] \in Early
    BY <1>1, <1>7 DEF StoreTable, Untouched
<1>8. ASSUME NEW q \in Request, StoreRedis(q) PROVE pc'[r] \in Early
  <2>1. answer[q].response \in Response /\ answer[q].response # Empty
      BY <1>8, AnswerType, NullAssumption DEF StoreRedis, Stages
  <2>2. redis' = [redis EXCEPT ![Slot(q)] = answer[q].response]
      BY <1>8 DEF StoreRedis
  <2>3. Slot(q) # Slot(r)
    <3>1. Slot(q) = Slot(r) => redis'[Slot(r)] = answer[q].response
        BY <2>2, Places
    <3> QED BY <2>1, <3>1
  <2>4. redis[Slot(r)] = Empty
      BY <2>2, <2>3, Places
  <2> QED BY <1>1, <1>8, <2>4 DEF StoreRedis, Untouched
<1> QED BY <1>2, <1>3, <1>4, <1>5, <1>6, <1>7, <1>8, QuietStep

\* What is remembered when a request comes stays so.
LEMMA RememberedStep ==
    ASSUME TypeOK, Stages, MarksOwned, [Next]_vars, Quiet',
           NEW r \in Request, Remembered(r)
    PROVE  Remembered(r)'
<1> USE DEF TypeOK
<1> DEFINE
      Cached == redis'[Slot(r)] \in Response
      Calm == \A p \in Request : SameOperation(p, r) => pc'[p] \in {"idle", "get", "done"}
      Replayed == pc'[r] # "idle" /\ (pc'[r] = "done" => answer'[r].replay)
<1>1. Cached /\ Calm /\ Replayed => Remembered(r)'
    BY DEF Remembered, SameOperation, Slot
<1>2. /\ redis[Slot(r)] \in Response
      /\ redis[Slot(r)] # Empty /\ redis[Slot(r)] # Processing
    BY NullAssumption DEF Remembered
<1>3. \A p \in Request : SameOperation(p, r) => pc[p] \in {"idle", "get", "done"}
    BY DEF Remembered
<1>4. pc[r] \in {"get", "done"} /\ (pc[r] = "done" => answer[r].replay)
    BY DEF Remembered, SameOperation
<1> HIDE DEF Cached, Calm, Replayed
<1>5. UNCHANGED redis => Cached
    BY <1>2 DEF Cached
<1>6. UNCHANGED pc => Calm
    BY <1>3 DEF Calm
<1>7. UNCHANGED <<pc, answer>> => Replayed
    BY <1>4 DEF Replayed
<1>8. CASE UNCHANGED vars
    BY <1>1, <1>5, <1>6, <1>7, <1>8 DEF vars
<1>9. ASSUME NEW q \in Request, Receive(q) PROVE Remembered(r)'
    BY <1>1, <1>3, <1>4, <1>5, <1>9 DEF Receive, Goto, Calm, Replayed
<1>10. ASSUME NEW q \in Request, GetMiss(q) \/ LookupMiss(q) PROVE Remembered(r)'
  <2>1. ~SameOperation(q, r) /\ q # r
      BY <1>2, <1>3, <1>4, <1>10 DEF GetMiss, LookupMiss, Goto, SameOperation
  <2>2. UNCHANGED <<redis, answer>>
      BY <1>10 DEF GetMiss, LookupMiss
  <2>3. \A p \in Request \ {q} : pc'[p] = pc[p]
      BY <1>10 DEF GetMiss, LookupMiss, Goto
  <2>4. Calm
      BY <1>3, <2>1, <2>3 DEF Calm
  <2>5. Replayed
      BY <1>4, <2>1, <2>2, <2>3 DEF Replayed
  <2> QED BY <1>1, <1>5, <2>2, <2>4, <2>5
<1>11. ASSUME NEW q \in Request, GetConflict(q) PROVE Remembered(r)'
  <2>1. q # r
      BY <1>2, <1>11 DEF GetConflict
  <2> QED BY <1>1, <1>3, <1>4, <1>5, <1>11, <2>1 DEF GetConflict, Goto, AnswerWith, Calm, Replayed
<1>12. ASSUME NEW q \in Request, GetReplay(q) PROVE Remembered(r)'
  <2>1. Replayed
      BY <1>4, <1>12 DEF GetReplay, Goto, AnswerWith, Replayed
  <2> QED BY <1>1, <1>3, <1>5, <1>12, <2>1 DEF GetReplay, Goto, Calm
<1>13. ASSUME NEW q \in Request, LookupHit(q) \/ Respond(q) PROVE Remembered(r)'
  <2>1. ~SameOperation(q, r) /\ q # r
      BY <1>3, <1>4, <1>13 DEF LookupHit, Respond, Goto, SameOperation
  <2> QED BY <1>1, <1>3, <1>4, <1>5, <1>13, <2>1
          DEF LookupHit, Respond, Goto, AnswerWith, Calm, Replayed
<1>14. ASSUME NEW q \in Request, Populate(q) \/ Mark(q) PROVE Remembered(r)'
  <2>1. ~SameOperation(q, r) /\ q # r
      BY <1>3, <1>4, <1>14 DEF Populate, Mark, Goto, SameOperation
  <2>2. Cached
      BY <1>2, <1>14, <2>1, Places DEF Populate, Mark, SameOperation, Cached
  <2>3. CASE Populate(q)
      BY <1>1, <1>3, <1>4, <2>1, <2>2, <2>3 DEF Populate, Goto, Calm, Replayed
  <2>4. CASE Mark(q)
      BY <1>1, <1>3, <1>4, <2>1, <2>2, <2>4 DEF Mark, Goto, Calm, Replayed
  <2> QED BY <1>14, <2>3, <2>4
<1>15. ASSUME NEW q \in Request, Invalid(q) \/ Send(q) \/ SendDuplicate(q)
       PROVE  Remembered(r)'
  <2>1. ~SameOperation(q, r) /\ q # r
      BY <1>3, <1>4, <1>15 DEF Invalid, Send, SendDuplicate, Finish, Goto, SameOperation
  <2> QED BY <1>1, <1>3, <1>4, <1>5, <1>15, <2>1
          DEF Invalid, Send, SendDuplicate, Finish, Goto, Calm, Replayed
<1>16. ASSUME NEW q \in Request, StoreRedis(q) PROVE Remembered(r)'
  <2>1. answer[q].response \in Response
      BY <1>16, AnswerType DEF StoreRedis, Stages
  <2>2. redis' = [redis EXCEPT ![Slot(q)] = answer[q].response]
      BY <1>16 DEF StoreRedis
  <2>3. Cached
      BY <1>2, <2>1, <2>2, Places DEF Cached
  <2> QED BY <1>1, <1>6, <1>7, <1>16, <2>3 DEF StoreRedis
<1>17. ASSUME NEW q \in Request, StoreTable(q) PROVE Remembered(r)'
    BY <1>1, <1>5, <1>6, <1>7, <1>17 DEF StoreTable
<1> QED BY <1>8, <1>9, <1>10, <1>11, <1>12, <1>13, <1>14, <1>15, <1>16, <1>17, QuietStep

\* A request that comes when all is over finds its operation remembered: its
\* slot is past the mark, and whoever might own a mark is over.
LEMMA SettledOnArrival ==
    ASSUME TypeOK, Stages, MarksOwned, NothingForgotten, [Next]_vars, Quiet',
           NEW r \in Request, r \notin settled, r \in settled'
    PROVE  Remembered(r)'
<1> USE DEF TypeOK
<1>1. Receive(r)
  <2>1. ASSUME NEW q \in Request,
               \/ GetMiss(q) \/ GetConflict(q) \/ GetReplay(q)
               \/ LookupMiss(q) \/ LookupHit(q) \/ Populate(q) \/ Mark(q)
               \/ Invalid(q) \/ Send(q) \/ SendDuplicate(q)
               \/ Respond(q) \/ StoreRedis(q) \/ StoreTable(q)
        PROVE  settled' = settled
    <3>1. CASE \/ GetMiss(q) \/ GetConflict(q) \/ GetReplay(q)
               \/ LookupMiss(q) \/ LookupHit(q) \/ Populate(q) \/ Mark(q)
        BY <3>1 DEF GetMiss, GetConflict, GetReplay, LookupMiss, LookupHit, Populate, Mark, history
    <3>2. CASE \/ Invalid(q) \/ Send(q) \/ SendDuplicate(q)
               \/ Respond(q) \/ StoreRedis(q) \/ StoreTable(q)
        BY <3>2 DEF Invalid, Send, SendDuplicate, Finish, Respond, StoreRedis, StoreTable, history
    <3> QED BY <2>1, <3>1, <3>2
  <2>2. CASE UNCHANGED vars
      BY <2>2 DEF vars
  <2>3. ASSUME NEW q \in Request, Receive(q) PROVE q = r
      BY <2>3 DEF Receive
  <2> QED BY <2>1, <2>2, <2>3, QuietStep
<1> DEFINE others == {q \in Request \ {r} : KeyOf(q) = KeyOf(r) /\ pc[q] # "idle"}
<1>2. \A q \in others : Over(q)
    BY <1>1 DEF Receive
<1>3. PICK first \in others : SameOperation(r, first)
    BY <1>1 DEF Receive
<1>4. pc[r] = "idle" /\ pc' = [pc EXCEPT ![r] = "get"] /\ UNCHANGED redis
    BY <1>1 DEF Receive, Goto
<1>5. redis[Slot(r)] # Empty
  <2>1. pc[first] = "done" /\ Slot(first) = Slot(r)
      BY <1>2, <1>3 DEF Over, SameOperation
  <2> QED BY <2>1, QuietStep DEF NothingForgotten, Early
<1>6. redis[Slot(r)] # Processing
  <2> SUFFICES ASSUME redis[Slot(r)] = Processing PROVE FALSE
      OBVIOUS
  <2>1. PICK q \in Request : Slot(q) = Slot(r) /\ Stores(q)
      BY QuietStep, Places DEF MarksOwned, Quiet
  <2>2. pc[q] # "idle" /\ ~Over(q)
      BY <2>1 DEF Stores, Stages, Over
  <2>3. q \in others
      BY <1>4, <2>1, <2>2, OneKey DEF SameOperation
  <2> QED BY <1>2, <2>2, <2>3
<1>7. redis'[Slot(r)] \in Response
    BY <1>4, <1>5, <1>6, Places
<1>8. ASSUME NEW q \in Request, SameOperation(q, r)
      PROVE  pc'[q] \in {"idle", "get", "done"}
  <2>1. q # r /\ pc[q] # "idle" => q \in others
      BY <1>8, OneKey
  <2> QED BY <1>2, <1>4, <2>1 DEF Over
<1>9. pc'[r] = "get"
    BY <1>4
<1> QED BY <1>7, <1>8, <1>9 DEF Remembered, SameOperation, Slot

LEMMA NothingForgottenStep ==
    TypeOK /\ Stages /\ MarksOwned /\ NothingForgotten /\ [Next]_vars => NothingForgotten'
<1> SUFFICES ASSUME TypeOK, Stages, MarksOwned, NothingForgotten, [Next]_vars, Quiet'
             PROVE  /\ \A r \in Request : redis'[Slot(r)] = Empty => pc'[r] \in Early
                    /\ \A r \in settled' : Remembered(r)'
    BY DEF NothingForgotten, Slot, Early
<1>1. ASSUME NEW r \in Request, redis'[Slot(r)] = Empty PROVE pc'[r] \in Early
    BY <1>1, EmptyStep
<1>2. ASSUME NEW r \in settled' PROVE Remembered(r)'
  <2>1. r \in Request
      BY TypeStep DEF TypeOK
  <2>2. CASE r \in settled
      BY <2>1, <2>2, RememberedStep, QuietStep DEF NothingForgotten
  <2>3. CASE r \notin settled
      BY <2>1, <2>3, SettledOnArrival
  <2> QED BY <2>2, <2>3
<1> QED BY <1>1, <1>2

-----------------------------------------------------------------------------
(* The theorems                                                            *)

LEMMA InductiveInit == Init => Inductive
<1> SUFFICES ASSUME Init PROVE Inductive
    OBVIOUS
<1>1. TypeOK
    BY TypeInit
<1>2. Stages /\ StoredOnce
    BY DEF Init, Stages, StoredOnce
<1>3. SuccessesNamed
    BY NullAssumption DEF Init, SuccessesNamed
<1>4. MarksOwned
    BY NullAssumption DEF Init, MarksOwned
<1>5. NothingForgotten
    BY DEF Init, NothingForgotten, Early
<1> QED BY <1>1, <1>2, <1>3, <1>4, <1>5 DEF Inductive

LEMMA InductiveStep == Inductive /\ [Next]_vars => Inductive'
BY TypeStep, StagesStep, StoredOnceStep, SuccessesNamedStep, MarksOwnedStep,
   NothingForgottenStep DEF Inductive

\* The stages of a request and its storing task, the two copies of a response
\* and what they name are as Inductive says, in every state.
THEOREM InductiveInvariant == Spec => []Inductive
BY InductiveInit, InductiveStep, PTL DEF Spec

\* Every variable of the idempotency middleware keeps its type.
THEOREM TypeInvariant == Spec => []TypeOK
<1>1. Inductive => TypeOK
    BY DEF Inductive
<1> QED BY <1>1, InductiveInvariant, PTL

\* A 201, first-hand or replayed from Redis or from the table, tells of the
\* only exchange that was committed under its key, through every race, expiry,
\* failed call and crash.
THEOREM SuccessesAreTrue == Spec => []SuccessNamesTheExchange
<1>1. Inductive => SuccessNamesTheExchange
  <2> SUFFICES ASSUME Inductive, NEW r \in Request,
                      Answered(r), answer[r].response.status = 201
               PROVE  {q \in stored : KeyOf(q) = KeyOf(r)} = {answer[r].response.of}
      BY DEF SuccessNamesTheExchange
  <2>1. Names(answer[r].response, KeyOf(r))
      BY DEF Inductive, SuccessesNamed, Stages, Answered
  <2> QED BY <2>1 DEF Names, Inductive, StoredOnce
<1> QED BY <1>1, InductiveInvariant, PTL

\* A retry that comes when every earlier request with its key is over is
\* replayed, as long as Redis keeps its entries and nothing fails.
THEOREM QuietRetriesAreReplayed == Spec => []QuietRetryIsReplayed
<1>1. Inductive => QuietRetryIsReplayed
    BY DEF Inductive, QuietRetryIsReplayed, NothingForgotten, Quiet, Remembered, Answered
<1> QED BY <1>1, InductiveInvariant, PTL

\* Without failures, a conflict is answered only while another request of the
\* operation runs or is about to store its response.
THEOREM ConflictsHaveACause == Spec => ConflictHasCause
<1> DEFINE Caused ==
      \A r \in Request :
         GetConflict(r) /\ faults = 0 =>
            \E q \in wrapped \ {r} :
               /\ SameOperation(q, r)
               /\ pc[q] \in {"send", "respond"} \/ task[q] = "redis"
<1>1. Inductive => Caused
  <2> SUFFICES ASSUME Inductive, NEW r \in Request, GetConflict(r), faults = 0
               PROVE  \E q \in wrapped \ {r} :
                         /\ SameOperation(q, r)
                         /\ pc[q] \in {"send", "respond"} \/ task[q] = "redis"
      OBVIOUS
  <2>1. PICK q \in Request : Slot(q) = Slot(r) /\ Stores(q)
      BY Places DEF GetConflict, Inductive, MarksOwned
  <2>2. pc[r] = "get"
      BY DEF GetConflict, Goto
  <2>3. q # r
      BY <2>1, <2>2 DEF Stores, Inductive, Stages
  <2> QED BY <2>1, <2>3 DEF Stores, SameOperation
<1>2. Inductive /\ [Next]_vars => [Caused]_vars
    BY <1>1
<1> QED BY <1>2, InductiveInvariant, PTL DEF Spec, ConflictHasCause
=============================================================================
