------------------------- MODULE ConversationService -------------------------
(***************************************************************************)
(* The conversation service of ConvoScale on its PostgreSQL path: the      *)
(* service calls createConversation, sendMessage, updateConversation and   *)
(* deleteConversation of src/services/conversationService.js, run by one   *)
(* or more Node processes (instances) against one database through         *)
(* src/db/pool.js.                                                         *)
(*                                                                         *)
(* Each instance serialises the sends of a conversation with an in-process *)
(* promise queue (activeLocks); instances meet only in the database, where *)
(* a send holds the row lock of SELECT ... FOR UPDATE until its            *)
(* transaction ends.  The stage pc[r] names what request r awaits, so two  *)
(* requests interleave exactly where the code has an await.                *)
(***************************************************************************)
EXTENDS Naturals, FiniteSets

CONSTANTS
    Request,        \* service calls, each made at most once
    Instance,       \* Node processes that share the database
    Conversation,   \* conversation ids
    User,           \* user ids
    Key,            \* idempotency keys
    NoKey,          \* a send without an Idempotency-Key header
    Call,           \* Call[r]: what request r asks for, and of which instance
    Owner,          \* owner of the conversations that exist at the start
    PoolMax,        \* clients in one instance's pool
    MaxFaults,      \* bound on lost connections and crashes
    NoRow,          \* no conversation row
    Nobody          \* an unheld lock

Kinds == {"create", "send", "rename", "delete"}
Row == [owner : User, count : Nat, version : Nat]

ASSUME CallAssumption ==
    Call \in [Request -> [kind : Kinds, at : Instance, convo : Conversation,
                          user : User, key : Key \cup {NoKey}]]
ASSUME OwnerAssumption == Owner \in [Conversation -> User]
ASSUME FreshIdAssumption ==      \* ids are uuids: no two creations share one
    \A r, q \in Request :
        /\ Call[r].kind = "create" /\ Call[q].kind = "create"
        /\ Call[r].convo = Call[q].convo
        => r = q
ASSUME NullAssumption == NoRow \notin Row /\ Nobody \notin Request /\ NoKey \notin Key
ASSUME BoundAssumption ==
    IsFiniteSet(Request) /\ PoolMax \in Nat \ {0} /\ MaxFaults \in Nat

Kind(r) == Call[r].kind
At(r)   == Call[r].at
Conv(r) == Call[r].convo

Message == [convo : Conversation, seq : Nat, sender : {"user", "bot"}, req : Request]

VARIABLES
    pc,          \* what each request awaits, or how it ended
    seen,        \* message_count as sendMessage read it under the row lock
    staged,      \* message rows a transaction inserted and has not committed
    newRow,      \* conversation row a transaction updated and has not committed
    conv,        \* committed rows of table conversations
    messages,    \* committed rows of table messages
    rowLock,     \* transaction that holds each conversation row FOR UPDATE
    activeLocks, \* per instance: request that holds each conversation's queue
    clients,     \* pool clients checked out: <<request, what for>>
    audited,     \* requests whose action was handed to the audit buffer
    faults       \* connections lost and crashes so far

vars == <<pc, seen, staged, newRow, conv, messages, rowLock, activeLocks,
          clients, audited, faults>>
tx == <<seen, staged, newRow>>
store == <<conv, messages, rowLock>>
process == <<activeLocks, clients>>

\* Stages of a transaction with the conversation row locked.
Locked == {"user", "bot", "rules", "query", "reply", "update", "commit"}
\* Stages in which a statement of the request, or its answer, is on the wire.
OnWire == {"stmt", "missed", "done", "lock", "user", "reply", "update", "commit",
           "committed", "rollback"}
\* The server side of these stages is over: only the answer is missing.
Settled == {"missed", "done", "committed"}
\* ok and err are answers; unsure: the caller saw a 500 or a broken
\* connection; orphan: the same, and the server still has the session open.
Answered == {"ok", "err", "unsure", "orphan"}
Stage == {"idle", "mutex", "connect"} \cup Locked \cup OnWire \cup Answered

Init ==
    /\ pc = [r \in Request |-> "idle"]
    /\ seen = [r \in Request |-> 0]
    /\ staged = [r \in Request |-> {}]
    /\ newRow = [r \in Request |-> NoRow]
    /\ conv = [c \in Conversation |->
                 IF \E r \in Request : Kind(r) = "create" /\ Conv(r) = c
                 THEN NoRow
                 ELSE [owner |-> Owner[c], count |-> 0, version |-> 1]]
    /\ messages = {}
    /\ rowLock = [c \in Conversation |-> Nobody]
    /\ activeLocks = [i \in Instance |-> [c \in Conversation |-> Nobody]]
    /\ clients = {}
    /\ audited = {}
    /\ faults = 0

-----------------------------------------------------------------------------
(* Helpers                                                                 *)

Goto(r, from, to) == pc[r] = from /\ pc' = [pc EXCEPT ![r] = to]

InUse(i) == {x \in clients : At(x[1]) = i}
PoolFull(i) == Cardinality(InUse(i)) >= PoolMax

\* A caller knows the id of a conversation that existed or whose creation
\* was answered.
Known(r) ==
    \/ Kind(r) = "create"
    \/ conv[Conv(r)] # NoRow
    \/ \A q \in Request : Kind(q) = "create" /\ Conv(q) = Conv(r) => pc[q] = "ok"

\* The finally blocks: client.release() and releaseLock().
ReleaseAll(r) ==
    /\ clients' = {x \in clients : x[1] # r}
    /\ activeLocks' = [activeLocks EXCEPT ![At(r)][Conv(r)] = IF @ = r THEN Nobody ELSE @]

\* The server ends a transaction without its effects.
Abort(r) ==
    /\ staged' = [staged EXCEPT ![r] = {}]
    /\ newRow' = [newRow EXCEPT ![r] = NoRow]
    /\ rowLock' = [rowLock EXCEPT ![Conv(r)] = IF @ = r THEN Nobody ELSE @]
    /\ UNCHANGED <<seen, conv, messages>>

\* The server makes the effects of a transaction visible, all at once.
Apply(r) ==
    /\ messages' = messages \cup staged[r]
    /\ conv' = [conv EXCEPT ![Conv(r)] = newRow[r]]
    /\ staged' = [staged EXCEPT ![r] = {}]
    /\ newRow' = [newRow EXCEPT ![r] = NoRow]
    /\ rowLock' = [rowLock EXCEPT ![Conv(r)] = Nobody]
    /\ UNCHANGED seen

-----------------------------------------------------------------------------
(* A request arrives and gets a pool client                                *)

Arrive(r) ==
    /\ Known(r)
    /\ Goto(r, "idle", IF Kind(r) = "send" THEN "mutex" ELSE "connect")
    /\ UNCHANGED <<tx, store, process, audited, faults>>

\* A slip: the queue is not consulted.
AcquireMutexFree(r) ==
    /\ Goto(r, "mutex", "connect")
    /\ activeLocks' = [activeLocks EXCEPT ![At(r)][Conv(r)] = r]
    /\ UNCHANGED <<tx, store, clients, audited, faults>>

\* acquireConversationLock: no await between the last has() and the set().
AcquireMutex(r) ==
    /\ Goto(r, "mutex", "connect")
    /\ activeLocks[At(r)][Conv(r)] = Nobody
    /\ activeLocks' = [activeLocks EXCEPT ![At(r)][Conv(r)] = r]
    /\ UNCHANGED <<tx, store, clients, audited, faults>>

\* pool.connect() of withTransaction and its BEGIN, or of pool.query.
Connect(r) ==
    /\ Goto(r, "connect", IF Kind(r) = "send" THEN "lock" ELSE "stmt")
    /\ ~PoolFull(At(r))
    /\ clients' = clients \cup {<<r, "main">>}
    /\ UNCHANGED <<tx, store, activeLocks, audited, faults>>

\* A slip: the timeout leaves through a path outside the finally.
ConnectTimeoutLeak(r) ==
    /\ Goto(r, "connect", "err")
    /\ PoolFull(At(r))
    /\ UNCHANGED <<tx, store, process, audited, faults>>

\* connectionTimeoutMillis passes and no client was returned.
ConnectTimeout(r) ==
    /\ Goto(r, "connect", "err")
    /\ PoolFull(At(r))
    /\ ReleaseAll(r)
    /\ UNCHANGED <<tx, store, audited, faults>>

-----------------------------------------------------------------------------
(* sendMessage, inside withTransaction                                     *)

\* Two slips: the count is read one too low; FOR UPDATE is forgotten.
LockRowOffByOne(r) ==
    /\ Goto(r, "lock", "user")
    /\ conv[Conv(r)] # NoRow
    /\ rowLock[Conv(r)] = Nobody
    /\ conv[Conv(r)].owner = Call[r].user
    /\ rowLock' = [rowLock EXCEPT ![Conv(r)] = r]
    /\ seen' = [seen EXCEPT ![r] = conv[Conv(r)].count - 1]
    /\ UNCHANGED <<staged, newRow, conv, messages, process, audited, faults>>

LockRowPlain(r) ==
    /\ Goto(r, "lock", "user")
    /\ conv[Conv(r)] # NoRow
    /\ conv[Conv(r)].owner = Call[r].user
    /\ seen' = [seen EXCEPT ![r] = conv[Conv(r)].count]
    /\ UNCHANGED <<staged, newRow, store, process, audited, faults>>

\* SELECT ... FOR UPDATE finds the caller's conversation.
LockRow(r) ==
    /\ Goto(r, "lock", "user")
    /\ conv[Conv(r)] # NoRow
    /\ rowLock[Conv(r)] = Nobody
    /\ conv[Conv(r)].owner = Call[r].user
    /\ rowLock' = [rowLock EXCEPT ![Conv(r)] = r]
    /\ seen' = [seen EXCEPT ![r] = conv[Conv(r)].count]
    /\ UNCHANGED <<staged, newRow, conv, messages, process, audited, faults>>

\* No row: 404.
LockMissing(r) ==
    /\ Goto(r, "lock", "rollback")
    /\ conv[Conv(r)] = NoRow
    /\ UNCHANGED <<tx, store, process, audited, faults>>

\* A slip: the owner is not compared.
LockForeignAllowed(r) ==
    /\ Goto(r, "lock", "user")
    /\ conv[Conv(r)] # NoRow
    /\ rowLock[Conv(r)] = Nobody
    /\ rowLock' = [rowLock EXCEPT ![Conv(r)] = r]
    /\ seen' = [seen EXCEPT ![r] = conv[Conv(r)].count]
    /\ UNCHANGED <<staged, newRow, conv, messages, process, audited, faults>>

\* Another user's row: 403, with the row locked until ROLLBACK.
LockForeign(r) ==
    /\ Goto(r, "lock", "rollback")
    /\ conv[Conv(r)] # NoRow
    /\ rowLock[Conv(r)] = Nobody
    /\ conv[Conv(r)].owner # Call[r].user
    /\ rowLock' = [rowLock EXCEPT ![Conv(r)] = r]
    /\ UNCHANGED <<tx, conv, messages, process, audited, faults>>

UserMessage(r) ==
    [convo |-> Conv(r), seq |-> seen[r] + 1, sender |-> "user", req |-> r]
BotMessage(r) ==
    [convo |-> Conv(r), seq |-> seen[r] + 2, sender |-> "bot", req |-> r]

\* Two user messages with the same idempotency key.
SameKey(m, n) ==
    /\ m.sender = "user" /\ n.sender = "user"
    /\ Call[m.req].key = Call[n.req].key /\ Call[m.req].key # NoKey

\* INSERT waits for a transaction that inserted the same key and is open.
KeyIdle(r) ==
    \A q \in Request \ {r} : \A m \in staged[q] : ~SameKey(m, UserMessage(r))
KeyStored(r) == \E m \in messages : SameKey(m, UserMessage(r))

\* Two slips: no UNIQUE on the key; the insert is made on the pool, outside
\* the transaction.
InsertUserUnchecked(r) ==
    /\ Goto(r, "user", "bot")
    /\ staged' = [staged EXCEPT ![r] = {UserMessage(r)}]
    /\ UNCHANGED <<seen, newRow, store, process, audited, faults>>

InsertUserOutside(r) ==
    /\ Goto(r, "user", "bot")
    /\ KeyIdle(r) /\ ~KeyStored(r)
    /\ messages' = messages \cup {UserMessage(r)}
    /\ UNCHANGED <<tx, conv, rowLock, process, audited, faults>>

InsertUser(r) ==
    /\ Goto(r, "user", "bot")
    /\ KeyIdle(r) /\ ~KeyStored(r)
    /\ staged' = [staged EXCEPT ![r] = {UserMessage(r)}]
    /\ UNCHANGED <<seen, newRow, store, process, audited, faults>>

\* UNIQUE violation of messages.idempotency_key: the server aborts at once.
InsertUserDuplicate(r) ==
    /\ Goto(r, "user", "rollback")
    /\ KeyIdle(r) /\ KeyStored(r)
    /\ Abort(r)
    /\ UNCHANGED <<process, audited, faults>>

\* determineBotResponse: the rules are cached, or a second client is needed.
BotCached(r) ==
    /\ Goto(r, "bot", "reply")
    /\ UNCHANGED <<tx, store, process, audited, faults>>

BotMiss(r) ==
    /\ Goto(r, "bot", "rules")
    /\ UNCHANGED <<tx, store, process, audited, faults>>

RulesConnect(r) ==
    /\ Goto(r, "rules", "query")
    /\ ~PoolFull(At(r))
    /\ clients' = clients \cup {<<r, "rules">>}
    /\ UNCHANGED <<tx, store, activeLocks, audited, faults>>

RulesTimeout(r) ==
    /\ Goto(r, "rules", "rollback")
    /\ PoolFull(At(r))
    /\ UNCHANGED <<tx, store, process, audited, faults>>

RulesAnswer(r) ==
    /\ Goto(r, "query", "reply")
    /\ clients' = clients \ {<<r, "rules">>}
    /\ UNCHANGED <<tx, store, activeLocks, audited, faults>>

\* The rules query fails, or the simulateBotFailure hook throws.
BotFail(r) ==
    /\ pc[r] \in {"bot", "query"}
    /\ pc' = [pc EXCEPT ![r] = "rollback"]
    /\ clients' = clients \ {<<r, "rules">>}
    /\ UNCHANGED <<tx, store, activeLocks, audited, faults>>

InsertBot(r) ==
    /\ Goto(r, "reply", "update")
    /\ staged' = [staged EXCEPT ![r] = @ \cup {BotMessage(r)}]
    /\ UNCHANGED <<seen, newRow, store, process, audited, faults>>

\* UPDATE of no row changes none, and the code does not look.
Updated(row) ==
    IF row = NoRow THEN NoRow
    ELSE [owner |-> row.owner, count |-> row.count + 2, version |-> row.version + 1]

\* Two slips: the version is not raised; nothing is recorded for the audit.
UpdateRowSameVersion(r) ==
    /\ Goto(r, "update", "commit")
    /\ newRow' = [newRow EXCEPT ![r] = [conv[Conv(r)] EXCEPT !.count = @ + 2]]
    /\ audited' = audited \cup {r}
    /\ UNCHANGED <<seen, staged, store, process, faults>>

UpdateRowSilent(r) ==
    /\ Goto(r, "update", "commit")
    /\ newRow' = [newRow EXCEPT ![r] = Updated(conv[Conv(r)])]
    /\ UNCHANGED <<seen, staged, store, process, audited, faults>>

\* UPDATE reads the row it locks, not the count read before; the audit
\* action is recorded before COMMIT is sent.
UpdateRow(r) ==
    /\ Goto(r, "update", "commit")
    /\ newRow' = [newRow EXCEPT ![r] = Updated(conv[Conv(r)])]
    /\ audited' = audited \cup {r}
    /\ UNCHANGED <<seen, staged, store, process, faults>>

\* A slip: COMMIT is sent and not awaited.
CommitUnawaited(r) ==
    /\ Goto(r, "commit", "committed")
    /\ UNCHANGED <<tx, store, process, audited, faults>>

Commit(r) ==
    /\ Goto(r, "commit", "committed")
    /\ Apply(r)
    /\ UNCHANGED <<process, audited, faults>>

\* A slip: releaseLock is not in a finally.
RollbackKeepsLock(r) ==
    /\ Goto(r, "rollback", "err")
    /\ Abort(r)
    /\ clients' = {x \in clients : x[1] # r}
    /\ UNCHANGED <<activeLocks, audited, faults>>

\* catch: ROLLBACK, rethrow; both finally blocks.
Rollback(r) ==
    /\ Goto(r, "rollback", "err")
    /\ Abort(r)
    /\ ReleaseAll(r)
    /\ UNCHANGED <<audited, faults>>

ReplySent(r) ==
    /\ Goto(r, "committed", "ok")
    /\ ReleaseAll(r)
    /\ UNCHANGED <<tx, store, audited, faults>>

-----------------------------------------------------------------------------
(* createConversation, updateConversation, deleteConversation: one         *)
(* statement each; PostgreSQL makes it wait for the row's lock.            *)

Matches(r) == conv[Conv(r)] # NoRow /\ conv[Conv(r)].owner = Call[r].user

\* The id is a fresh primary key.
Create(r) ==
    /\ Kind(r) = "create" /\ conv[Conv(r)] = NoRow
    /\ conv' = [conv EXCEPT ![Conv(r)] =
                  [owner |-> Call[r].user, count |-> 0, version |-> 1]]
    /\ UNCHANGED messages

Rename(r) ==
    /\ Kind(r) = "rename" /\ Matches(r) /\ rowLock[Conv(r)] = Nobody
    /\ conv' = [conv EXCEPT ![Conv(r)].version = @ + 1]
    /\ UNCHANGED messages

\* A slip: the schema does not cascade.
DeleteRowOnly(r) ==
    /\ Kind(r) = "delete" /\ Matches(r) /\ rowLock[Conv(r)] = Nobody
    /\ conv' = [conv EXCEPT ![Conv(r)] = NoRow]
    /\ UNCHANGED messages

\* ON DELETE CASCADE
Delete(r) ==
    /\ Kind(r) = "delete" /\ Matches(r) /\ rowLock[Conv(r)] = Nobody
    /\ conv' = [conv EXCEPT ![Conv(r)] = NoRow]
    /\ messages' = {m \in messages : m.convo # Conv(r)}

Execute(r) == Create(r) \/ Rename(r) \/ Delete(r)

Statement(r) ==
    /\ Goto(r, "stmt", "done")
    /\ Execute(r)
    /\ UNCHANGED <<tx, rowLock, process, audited, faults>>

StatementMiss(r) ==
    /\ Goto(r, "stmt", "missed")
    /\ Kind(r) \in {"rename", "delete"} /\ ~Matches(r)
    /\ UNCHANGED <<tx, store, process, audited, faults>>

StatementOk(r) ==
    /\ Goto(r, "done", "ok")
    /\ ReleaseAll(r)
    /\ audited' = IF Kind(r) = "rename" THEN audited ELSE audited \cup {r}
    /\ UNCHANGED <<tx, store, faults>>

NotFound(r) ==
    /\ Goto(r, "missed", "err")
    /\ ReleaseAll(r)
    /\ UNCHANGED <<tx, store, audited, faults>>

-----------------------------------------------------------------------------
(* Failures                                                                *)

\* The connection breaks with a statement on the wire: the call throws (its
\* ROLLBACK fails too, and is only logged) while the server still has the
\* session, whose statement or COMMIT may yet take effect.
ConnectionLost(r) ==
    /\ faults < MaxFaults
    /\ pc[r] \in OnWire
    /\ pc' = [pc EXCEPT ![r] = IF @ \in Settled THEN "unsure" ELSE "orphan"]
    /\ ReleaseAll(r)
    /\ faults' = faults + 1
    /\ UNCHANGED <<tx, store, audited>>

\* An instance dies: every connection of it breaks, its memory is gone, and
\* a new process takes its place with no locks and an empty pool.
Crash(i) ==
    /\ faults < MaxFaults
    /\ \E r \in Request : At(r) = i /\ pc[r] \notin Answered \cup {"idle"}
    /\ pc' = [r \in Request |->
                IF At(r) # i \/ pc[r] \in Answered \cup {"idle"} THEN pc[r]
                ELSE IF pc[r] \in {"mutex", "connect"} \cup Settled THEN "unsure"
                ELSE "orphan"]
    /\ clients' = {x \in clients : At(x[1]) # i}
    /\ activeLocks' = [activeLocks EXCEPT ![i] = [c \in Conversation |-> Nobody]]
    /\ faults' = faults + 1
    /\ UNCHANGED <<tx, store, audited>>

\* The server finishes an abandoned session: a COMMIT or a statement it had
\* received is executed, anything else is rolled back.
OrphanCommit(r) ==
    /\ newRow[r] # NoRow
    /\ Goto(r, "orphan", "unsure")
    /\ Apply(r)
    /\ UNCHANGED <<process, audited, faults>>

OrphanStatement(r) ==
    /\ Goto(r, "orphan", "unsure")
    /\ Execute(r)
    /\ UNCHANGED <<tx, rowLock, process, audited, faults>>

OrphanAbort(r) ==
    /\ Goto(r, "orphan", "unsure")
    /\ Abort(r)
    /\ UNCHANGED <<process, audited, faults>>

-----------------------------------------------------------------------------
(* Next and the specification                                              *)

\* What the process or the server does without anything new from outside.
Work(r) ==
    \/ AcquireMutex(r) \/ Connect(r) \/ ConnectTimeout(r)
    \/ LockRow(r) \/ LockMissing(r) \/ LockForeign(r)
    \/ InsertUser(r) \/ InsertUserDuplicate(r)
    \/ BotCached(r) \/ BotMiss(r) \/ RulesConnect(r) \/ RulesTimeout(r)
    \/ RulesAnswer(r) \/ InsertBot(r) \/ UpdateRow(r) \/ Commit(r)
    \/ Rollback(r) \/ ReplySent(r)
    \/ Statement(r) \/ StatementMiss(r) \/ StatementOk(r) \/ NotFound(r)
    \/ OrphanCommit(r) \/ OrphanStatement(r) \/ OrphanAbort(r)

Next ==
    \/ \E r \in Request : Arrive(r) \/ Work(r) \/ BotFail(r) \/ ConnectionLost(r)
    \/ \E i \in Instance : Crash(i)

Spec == Init /\ [][Next]_vars

\* The event loop runs every ready continuation and the server every
\* statement it can; nobody has to send a request, and nothing has to fail.
FairSpec == Spec /\ \A r \in Request : WF_vars(Work(r))

-----------------------------------------------------------------------------
(* Properties                                                              *)

\* Every variable has its type.
TypeOK ==
    /\ pc \in [Request -> Stage]
    /\ seen \in [Request -> Nat]
    /\ staged \in [Request -> SUBSET Message]
    /\ newRow \in [Request -> Row \cup {NoRow}]
    /\ conv \in [Conversation -> Row \cup {NoRow}]
    /\ messages \subseteq Message
    /\ rowLock \in [Conversation -> Request \cup {Nobody}]
    /\ activeLocks \in [Instance -> [Conversation -> Request \cup {Nobody}]]
    /\ clients \subseteq Request \X {"main", "rules"}
    /\ audited \subseteq Request
    /\ faults \in 0 .. MaxFaults

\* The parts of SequenceExact.  A message belongs to a live conversation and
\* its number is at most message_count;
SeqInRange ==
    \A m \in messages : /\ conv[m.convo] # NoRow
                        /\ m.seq \in 1 .. conv[m.convo].count
\* no number is given twice;
SeqUnique ==
    \A m, n \in messages : m.convo = n.convo /\ m.seq = n.seq => m = n
\* no number up to message_count is missing;
SeqComplete ==
    \A c \in Conversation : conv[c] # NoRow =>
        \A k \in 1 .. conv[c].count : \E m \in messages : m.convo = c /\ m.seq = k
\* a user message and the bot's answer stand next to each other.
SeqPaired ==
    \A m \in messages : \E n \in messages :
        /\ n.convo = m.convo /\ n.req = m.req
        /\ \/ m.sender = "user" /\ n.sender = "bot" /\ n.seq = m.seq + 1
           \/ m.sender = "bot" /\ n.sender = "user" /\ m.seq = n.seq + 1

\* What is committed of a conversation is always whole exchanges, numbered
\* 1 .. message_count without gap or repetition, whatever instances, locks,
\* rollbacks and crashes do (sendMessage's currentCount + 1, + 2 against the
\* UPDATE's message_count + 2).
SequenceExact == SeqInRange /\ SeqUnique /\ SeqComplete /\ SeqPaired

\* An idempotency key is committed for one request at most, across
\* conversations, users and instances (UNIQUE on messages.idempotency_key
\* against two sends that race with one key).
KeyCommittedOnce ==
    \A m, n \in messages : SameKey(m, n) => m.req = n.req

\* An answer tells the truth: after a success the exchange is stored, unless
\* the conversation was deleted since; after an error nothing of the send is.
AnswerTruthful ==
    \A r \in Request : Kind(r) = "send" =>
        /\ pc[r] = "ok" /\ conv[Conv(r)] # NoRow =>
             \A s \in {"user", "bot"} : \E m \in messages : m.req = r /\ m.sender = s
        /\ pc[r] = "err" => \A m \in messages : m.req # r

\* No path leaks: an answered request has returned its clients and its place
\* in the queue, and one with a definite answer holds no row lock either.
AnsweredHoldsNothing ==
    \A r \in Request : pc[r] \in Answered =>
        /\ \A x \in clients : x[1] # r
        /\ activeLocks[At(r)][Conv(r)] # r
        /\ pc[r] # "orphan" => \A c \in Conversation : rowLock[c] # r

\* The promise queue keeps an instance from tying up more than one client
\* per conversation in transactions that wait for the same row.
OneSenderPerConversation ==
    \A x, y \in clients :
        /\ x[2] = "main" /\ y[2] = "main"
        /\ Kind(x[1]) = "send" /\ Kind(y[1]) = "send"
        /\ At(x[1]) = At(y[1]) /\ Conv(x[1]) = Conv(y[1])
        => x = y

\* When a pool outnumbers the conversations in use, sends alone cannot
\* gridlock it: a full pool always has a client whose transaction waits
\* neither for another client (the pool.query of determineBotResponse inside
\* withTransaction) nor for a row (FOR UPDATE behind another send).
Stuck(r) ==
    \/ pc[r] = "rules"
    \/ pc[r] = "lock" /\ rowLock[Conv(r)] # Nobody
NoPoolGridlock ==
    \A i \in Instance : PoolFull(i) => \E x \in InUse(i) : ~Stuck(x[1])

\* Only its owner's sends are in a conversation, although ownership is
\* checked again only under the row lock (sendMessage's 403).
OwnerOnly ==
    \A m \in messages :
        conv[m.convo] # NoRow => Call[m.req].user = conv[m.convo].owner

\* Every stored message was reported to the audit log, although the report
\* is made before COMMIT.
StoredIsAudited == \A m \in messages : m.req \in audited

\* No committed write is lost: a live row changes only together with its
\* version, one step at a time, and message_count never falls
\* (message_count = message_count + 2, version = version + 1).
NoLostUpdate ==
    [][\A c \in Conversation :
         conv[c] # NoRow /\ conv'[c] # NoRow /\ conv'[c] # conv[c] =>
            /\ conv'[c].version = conv[c].version + 1
            /\ conv'[c].count \in {conv[c].count, conv[c].count + 2}
            /\ conv'[c].owner = conv[c].owner]_vars

\* Every request that arrived is answered, whatever else fails, and the
\* server gets rid of every abandoned session.
EveryRequestAnswered ==
    \A r \in Request : pc[r] # "idle" ~> pc[r] \in {"ok", "err", "unsure"}

-----------------------------------------------------------------------------
(* What the safety properties rest on: an inductive invariant, used by the *)
(* proofs.                                                                 *)

\* Whoever numbers messages, or is about to commit, holds the row lock, and
\* what it read under the lock is still so.
CountIsCurrent ==
    \A r \in Request : pc[r] \in Locked \/ newRow[r] # NoRow =>
        /\ rowLock[Conv(r)] = r
        /\ conv[Conv(r)] # NoRow
        /\ seen[r] = conv[Conv(r)].count

\* A transaction has written what its stage says; with an updated row it has
\* written a whole exchange.
StagedByStage ==
    \A r \in Request :
        /\ pc[r] \in {"bot", "rules", "query", "reply"} => staged[r] = {UserMessage(r)}
        /\ pc[r] = "update" => staged[r] = {UserMessage(r), BotMessage(r)}
        /\ pc[r] = "commit" => newRow[r] # NoRow
        /\ newRow[r] # NoRow =>
             /\ pc[r] \in {"commit", "orphan"}
             /\ staged[r] = {UserMessage(r), BotMessage(r)}
             /\ newRow[r] = Updated(conv[Conv(r)])
        /\ \A m \in staged[r] : m.req = r

\* Uncommitted rows compete for a key neither with each other nor with
\* committed ones.
StagedKeysFree ==
    \A r \in Request : \A m \in staged[r] :
        /\ \A q \in Request \ {r} : \A n \in staged[q] : ~SameKey(m, n)
        /\ \A n \in messages : ~SameKey(m, n)

Inductive ==
    /\ TypeOK /\ CountIsCurrent /\ StagedByStage /\ SequenceExact
    /\ StagedKeysFree /\ KeyCommittedOnce
=============================================================================
