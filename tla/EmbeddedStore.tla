---------------------------- MODULE EmbeddedStore ----------------------------
(***************************************************************************)
(* The conversation service on the embedded engine (pg-mem), which         *)
(* src/db/pool.js starts when PostgreSQL cannot be reached.  There is one  *)
(* process, a statement takes effect as soon as it runs, FOR UPDATE locks  *)
(* nothing, and withTransaction rolls back by restoring a backup of the    *)
(* WHOLE database, taken when the transaction began.                       *)
(***************************************************************************)
EXTENDS Naturals

CONSTANTS
    Request,        \* service calls, each made at most once
    Conversation,   \* conversation ids
    User,           \* user ids
    Key,            \* idempotency keys
    NoKey,          \* a send without an Idempotency-Key header
    Call,           \* Call[r]: what request r asks for
    Owner,          \* owner of the conversations that exist at the start
    NoRow,          \* no conversation row
    Nobody          \* nobody holds the conversation's queue

Kinds == {"create", "send", "rename", "delete"}
Row == [owner : User, count : Nat, version : Nat]

ASSUME EmbeddedCallAssumption ==
    Call \in [Request -> [kind : Kinds, convo : Conversation, user : User,
                          key : Key \cup {NoKey}]]
ASSUME EmbeddedOwnerAssumption == Owner \in [Conversation -> User]
ASSUME EmbeddedNullAssumption ==
    NoRow \notin Row /\ Nobody \notin Request /\ NoKey \notin Key

Kind(r) == Call[r].kind
Conv(r) == Call[r].convo

Message == [convo : Conversation, seq : Nat \ {0}, sender : {"user", "bot"}, req : Request]

VARIABLES
    pc,          \* what each request awaits, or how it ended
    seen,        \* message_count as sendMessage read it
    conv,        \* rows of table conversations
    messages,    \* rows of table messages
    backup,      \* the database as each transaction found it
    activeLocks  \* request that holds each conversation's queue

vars == <<pc, seen, conv, messages, backup, activeLocks>>
db == [conv |-> conv, messages |-> messages]

InTransaction == {"select", "user", "bot", "reply", "update", "restore"}
Stage == {"idle", "mutex", "connect", "stmt", "ok", "err"} \cup InTransaction

Init ==
    /\ pc = [r \in Request |-> "idle"]
    /\ seen = [r \in Request |-> 0]
    /\ conv = [c \in Conversation |->
                 IF \E r \in Request : Kind(r) = "create" /\ Conv(r) = c
                 THEN NoRow
                 ELSE [owner |-> Owner[c], count |-> 0, version |-> 1]]
    /\ messages = {}
    /\ backup = [r \in Request |-> db]
    /\ activeLocks = [c \in Conversation |-> Nobody]

Goto(r, from, to) == pc[r] = from /\ pc' = [pc EXCEPT ![r] = to]

\* The finally block of sendMessage.
ReleaseLock(r) == activeLocks' = [activeLocks EXCEPT ![Conv(r)] = Nobody]

\* A caller knows the id of a conversation that existed or whose creation
\* was answered.
Known(r) ==
    \A q \in Request \ {r} : Kind(q) = "create" /\ Conv(q) = Conv(r) => pc[q] = "ok"

Arrive(r) ==
    /\ Known(r)
    /\ Goto(r, "idle", IF Kind(r) = "send" THEN "mutex" ELSE "stmt")
    /\ UNCHANGED <<seen, conv, messages, backup, activeLocks>>

\* A slip: the queue is not consulted.
AcquireMutexFree(r) ==
    /\ Goto(r, "mutex", "connect")
    /\ activeLocks' = [activeLocks EXCEPT ![Conv(r)] = r]
    /\ UNCHANGED <<seen, conv, messages, backup>>

AcquireMutex(r) ==
    /\ Goto(r, "mutex", "connect")
    /\ activeLocks[Conv(r)] = Nobody
    /\ activeLocks' = [activeLocks EXCEPT ![Conv(r)] = r]
    /\ UNCHANGED <<seen, conv, messages, backup>>

-----------------------------------------------------------------------------
(* sendMessage inside the embedded branch of withTransaction               *)

Matches(r) == conv[Conv(r)] # NoRow /\ conv[Conv(r)].owner = Call[r].user

Begin(r) ==
    /\ Goto(r, "connect", "select")
    /\ backup' = [backup EXCEPT ![r] = db]
    /\ UNCHANGED <<seen, conv, messages, activeLocks>>

\* A slip: the count is read one too low.
SelectRowOffByOne(r) ==
    /\ Goto(r, "select", "user")
    /\ Matches(r)
    /\ seen' = [seen EXCEPT ![r] = conv[Conv(r)].count - 1]
    /\ UNCHANGED <<conv, messages, backup, activeLocks>>

SelectRow(r) ==
    /\ Goto(r, "select", "user")
    /\ Matches(r)
    /\ seen' = [seen EXCEPT ![r] = conv[Conv(r)].count]
    /\ UNCHANGED <<conv, messages, backup, activeLocks>>

\* 404 and 403 are thrown inside the transaction, so they restore as well.
Reject(r) ==
    /\ Goto(r, "select", "restore")
    /\ ~Matches(r)
    /\ UNCHANGED <<seen, conv, messages, backup, activeLocks>>

UserMessage(r) ==
    [convo |-> Conv(r), seq |-> seen[r] + 1, sender |-> "user", req |-> r]
BotMessage(r) ==
    [convo |-> Conv(r), seq |-> seen[r] + 2, sender |-> "bot", req |-> r]

KeyStored(r) ==
    \E m \in messages :
        m.sender = "user" /\ Call[r].key # NoKey /\ Call[m.req].key = Call[r].key

\* INSERT obeys the foreign key and UNIQUE.
InsertUser(r) ==
    /\ conv[Conv(r)] # NoRow /\ ~KeyStored(r)
    /\ Goto(r, "user", "bot")
    /\ messages' = messages \cup {UserMessage(r)}
    /\ UNCHANGED <<seen, conv, backup, activeLocks>>

InsertUserRefused(r) ==
    /\ conv[Conv(r)] = NoRow \/ KeyStored(r)
    /\ Goto(r, "user", "restore")
    /\ UNCHANGED <<seen, conv, messages, backup, activeLocks>>

\* determineBotResponse answers, or it (or the simulateBotFailure hook) throws.
BotAnswer(r) ==
    /\ Goto(r, "bot", "reply")
    /\ UNCHANGED <<seen, conv, messages, backup, activeLocks>>

BotFail(r) ==
    /\ Goto(r, "bot", "restore")
    /\ UNCHANGED <<seen, conv, messages, backup, activeLocks>>

InsertBot(r) ==
    /\ conv[Conv(r)] # NoRow
    /\ Goto(r, "reply", "update")
    /\ messages' = messages \cup {BotMessage(r)}
    /\ UNCHANGED <<seen, conv, backup, activeLocks>>

InsertBotRefused(r) ==
    /\ conv[Conv(r)] = NoRow
    /\ Goto(r, "reply", "restore")
    /\ UNCHANGED <<seen, conv, messages, backup, activeLocks>>

\* UPDATE of no row changes none, and the code does not look; the callback
\* returns and nothing is left to commit.
Counted(row) ==
    IF row = NoRow THEN NoRow
    ELSE [owner |-> row.owner, count |-> row.count + 2, version |-> row.version + 1]

UpdateRow(r) ==
    /\ Goto(r, "update", "ok")
    /\ conv' = [conv EXCEPT ![Conv(r)] = Counted(@)]
    /\ ReleaseLock(r)
    /\ UNCHANGED <<seen, messages, backup>>

\* A slip: the error is thrown on before the backup is restored.
RestoreForgotten(r) ==
    /\ Goto(r, "restore", "err")
    /\ ReleaseLock(r)
    /\ UNCHANGED <<seen, conv, messages, backup>>

\* backup.restore(): every table is as it was when r began.
Restore(r) ==
    /\ Goto(r, "restore", "err")
    /\ conv' = backup[r].conv
    /\ messages' = backup[r].messages
    /\ ReleaseLock(r)
    /\ UNCHANGED <<seen, backup>>

-----------------------------------------------------------------------------
(* createConversation, updateConversation, deleteConversation              *)

Create(r) ==
    /\ Kind(r) = "create"
    /\ Goto(r, "stmt", "ok")
    /\ conv' = [conv EXCEPT ![Conv(r)] =
                  [owner |-> Call[r].user, count |-> 0, version |-> 1]]
    /\ UNCHANGED <<seen, messages, backup, activeLocks>>

Rename(r) ==
    /\ Kind(r) = "rename" /\ Matches(r)
    /\ Goto(r, "stmt", "ok")
    /\ conv' = [conv EXCEPT ![Conv(r)].version = @ + 1]
    /\ UNCHANGED <<seen, messages, backup, activeLocks>>

Delete(r) ==
    /\ Kind(r) = "delete" /\ Matches(r)
    /\ Goto(r, "stmt", "ok")
    /\ conv' = [conv EXCEPT ![Conv(r)] = NoRow]
    /\ messages' = {m \in messages : m.convo # Conv(r)}
    /\ UNCHANGED <<seen, backup, activeLocks>>

NotFound(r) ==
    /\ Kind(r) \in {"rename", "delete"} /\ ~Matches(r)
    /\ Goto(r, "stmt", "err")
    /\ UNCHANGED <<seen, conv, messages, backup, activeLocks>>

-----------------------------------------------------------------------------
Next ==
    \E r \in Request :
        \/ Arrive(r) \/ AcquireMutex(r) \/ Begin(r) \/ SelectRow(r) \/ Reject(r)
        \/ InsertUser(r) \/ InsertUserRefused(r) \/ BotAnswer(r) \/ BotFail(r)
        \/ InsertBot(r) \/ InsertBotRefused(r) \/ UpdateRow(r) \/ Restore(r)
        \/ Create(r) \/ Rename(r) \/ Delete(r) \/ NotFound(r)

Spec == Init /\ [][Next]_vars

-----------------------------------------------------------------------------
(* Properties                                                              *)

Database == [conv : [Conversation -> Row \cup {NoRow}], messages : SUBSET Message]

\* Every variable has its type; a message number is positive.
TypeOK ==
    /\ pc \in [Request -> Stage]
    /\ seen \in [Request -> Nat]
    /\ db \in Database /\ backup \in [Request -> Database]
    /\ activeLocks \in [Conversation -> Request \cup {Nobody}]

AtRest(c) == \A r \in Request : Conv(r) = c => pc[r] \notin InTransaction

\* As long as all requests are about one conversation, its queue alone keeps
\* it whole: between sends it has exactly the exchanges 1 .. message_count,
\* although no statement locks a row and a delete may run inside a send.
SoleConversationExact ==
    \A c \in Conversation : AtRest(c) =>
        IF conv[c] = NoRow THEN \A m \in messages : m.convo # c
        ELSE /\ {m.seq : m \in {n \in messages : n.convo = c}} = 1 .. conv[c].count
             /\ \A m, n \in messages : m.convo = c /\ n.convo = c =>
                  /\ m.seq = n.seq => m = n
                  /\ m.req = n.req /\ m.sender = "user" /\ n.sender = "bot" =>
                       n.seq = m.seq + 1

\* A send that answered with an error has left no message behind, and no
\* other request's backup holds one to bring it back (restore in the catch of
\* withTransaction).
FailedLeavesNothing ==
    \A r \in Request : Kind(r) = "send" /\ pc[r] = "err" =>
        /\ \A m \in messages : m.req # r
        /\ \A q \in Request : pc[q] \in InTransaction =>
             \A m \in backup[q].messages : m.req # r

\* What was answered with success is still there: the conversation created
\* and the messages sent, unless the conversation has been deleted since.
Deleted(c) == \E r \in Request : Kind(r) = "delete" /\ Conv(r) = c /\ pc[r] = "ok"
AcknowledgedStays ==
    \A r \in Request : pc[r] = "ok" /\ ~Deleted(Conv(r)) =>
        /\ Kind(r) = "create" => conv[Conv(r)] # NoRow
        /\ Kind(r) = "send" =>
             \A s \in {"user", "bot"} : \E m \in messages : m.req = r /\ m.sender = s
=============================================================================
