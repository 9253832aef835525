---------------------------- MODULE TimelineProofs -----------------------------
(***************************************************************************)
(* Theorems about Timeline for every clock, page size, order of ids and    *)
(* lead of the bot's stamp, over any load of ConversationService.          *)
(***************************************************************************)
EXTENDS Timeline, ConversationServiceProofs

\* Time is a number of half milliseconds; what the service stamped has whole
\* milliseconds, and no conversation is further ahead than the bot's lead.
Clocked ==
    /\ clock \in Nat
    /\ stamp \in [Request -> Nat]
    /\ lastMessageAt \in [Conversation -> Nat]
    /\ \A r \in Request : stamp[r] <= clock * Ms /\ stamp[r] % Ms = 0
    /\ \A c \in Conversation : lastMessageAt[c] <= clock * Ms + Lead * Ms

\* Whoever numbers messages, or is about to commit, took its stamp after every
\* message of the conversation was stamped.
WriterIsNewest ==
    \A r \in Request : pc[r] \in Locked \/ newRow[r] # NoRow =>
        /\ \A m \in messages : m.convo = Conv(r) => stamp[m.req] <= stamp[r]
        /\ lastMessageAt[Conv(r)] <= stamp[r] + Lead * Ms

\* A send has one message of each sender.
OneOfEach ==
    \A m, n \in messages : m.req = n.req /\ m.sender = n.sender => m = n

\* Exchanges are stamped in the order of their numbers.
StampedInOrder ==
    \A m, n \in messages : m.convo = n.convo /\ m.seq < n.seq =>
        stamp[m.req] <= stamp[n.req]

Timed ==
    /\ Accounted /\ Clocked /\ WriterIsNewest /\ OneOfEach
    /\ StampedInOrder /\ ListedByNewest

-----------------------------------------------------------------------------
(* What a step of the service does to tables and stamps                    *)

\* The same conversations exist and belong to the same users.
SameOwners ==
    \A c \in Conversation :
        /\ conv'[c] = NoRow <=> conv[c] = NoRow
        /\ conv[c] # NoRow => conv'[c].owner = conv[c].owner

Exchange(r) ==
    /\ newRow[r] # NoRow
    /\ pc[r] \in {"commit", "orphan"} /\ pc'[r] \in {"committed", "unsure"}
    /\ messages' = messages \cup {UserMessage(r), BotMessage(r)}
    /\ SameOwners
    /\ lastMessageAt' = [lastMessageAt EXCEPT ![Conv(r)] = stamp[r] + Lead * Ms]

Creation(r) ==
    /\ Kind(r) = "create" /\ pc[r] \in {"stmt", "orphan"}
    /\ messages' = messages
    /\ conv[Conv(r)] = NoRow /\ conv'[Conv(r)] # NoRow
    /\ \A c \in Conversation \ {Conv(r)} : conv'[c] = conv[c]
    /\ lastMessageAt' = [lastMessageAt EXCEPT ![Conv(r)] = stamp[r]]

Deletion(r) ==
    /\ messages' = {m \in messages : m.convo # Conv(r)}
    /\ conv' = [conv EXCEPT ![Conv(r)] = NoRow]
    /\ lastMessageAt' = lastMessageAt

LEMMA OnlyElement == ASSUME NEW v PROVE (CHOOSE t \in {v} : TRUE) = v
  OBVIOUS

\* No stamp is written to a conversation that neither appears nor gets an
\* answer from the bot.
LEMMA NothingWritten ==
    ASSUME NEW c, conv[c] # NoRow \/ conv'[c] = NoRow,
           \A m \in messages' \ messages : ~(m.convo = c /\ m.sender = "bot")
    PROVE  LastWritten(c) = {}
  BY DEF LastWritten

\* Stamps are taken before a send writes anything and before a creation is sent.
LEMMA StampTaken ==
    ASSUME Timed, Serve, NEW r \in Request
    PROVE  /\ stamp'[r] = stamp[r] \/ (stamp'[r] = clock * Ms /\ TakesStamp(r))
           /\ stamp'[r] \in Nat /\ stamp[r] <= stamp'[r]
           /\ TakesStamp(r) =>
                \/ pc[r] = "lock" /\ pc'[r] = "user" /\ stamp'[r] = clock * Ms
                \/ pc[r] = "idle"
  <1>1. stamp[r] \in Nat /\ clock \in Nat /\ stamp[r] <= clock * Ms
    BY DEF Timed, Clocked
  <1>2. stamp'[r] = IF TakesStamp(r) THEN clock * Ms ELSE stamp[r]
    BY DEF Serve
  <1>3. TakesStamp(r) => (pc[r] = "lock" /\ pc'[r] = "user") \/ pc[r] = "idle"
    BY DEF TakesStamp
  <1>4. clock * Ms \in Nat
    BY <1>1 DEF Ms
  <1> HIDE DEF TakesStamp
  <1> QED BY <1>1, <1>2, <1>3, <1>4

\* A request with a stored message or a prepared row keeps its stamp.
LEMMA StampKept ==
    ASSUME Timed, Serve, NEW r \in Request,
           \/ pc[r] \in Locked \/ newRow[r] # NoRow
           \/ pc[r] \in {"committed", "ok", "unsure", "stmt", "orphan"}
    PROVE  stamp'[r] = stamp[r]
  <1>1. newRow[r] # NoRow => pc[r] \in {"commit", "orphan"}
    BY DEF Timed, Accounted, Inductive, StagedByStage
  <1>2. pc[r] \notin {"idle", "lock"}
    BY <1>1 DEF Locked
  <1> QED BY <1>2, StampTaken

LEMMA MessageStampKept ==
    ASSUME Timed, Serve, NEW m \in messages
    PROVE  /\ m.req \in Request /\ m.convo \in Conversation /\ m.seq \in Nat
           /\ m.sender \in {"user", "bot"}
           /\ m.convo = Conv(m.req) /\ pc[m.req] \in {"committed", "ok", "unsure"}
           /\ stamp'[m.req] = stamp[m.req] /\ stamp[m.req] \in Nat
  <1>1. m \in Message
    BY DEF Timed, Accounted, Inductive, TypeOK
  <1>2. /\ m.req \in Request /\ m.convo \in Conversation /\ m.seq \in Nat
        /\ m.sender \in {"user", "bot"}
    BY <1>1 DEF Message
  <1>3. m.convo = Conv(m.req) /\ pc[m.req] \in {"committed", "ok", "unsure"}
    BY DEF Timed, Accounted, MessageByStage
  <1> QED BY <1>2, <1>3, StampKept DEF Timed, Clocked

\* A step of the service stores an exchange, creates or deletes a conversation,
\* or leaves messages, owners and stamps of conversations as they are.
LEMMA ServeChanges ==
    ASSUME Timed, Serve
    PROVE  \/ (UNCHANGED <<messages, lastMessageAt>> /\ SameOwners)
           \/ \E r \in Request : Exchange(r) \/ Creation(r) \/ Deletion(r)
  <1>a. Inductive /\ TypeOK /\ Next
    BY DEF Timed, Accounted, Inductive, Serve
  <1>b. /\ conv \in [Conversation -> Row \cup {NoRow}]
        /\ messages \subseteq Message
        /\ \A q \in Request : Conv(q) \in Conversation
    BY <1>a, Typed
  <1>c. lastMessageAt \in [Conversation -> Nat]
    BY DEF Timed, Clocked
  <1>d. lastMessageAt' = [c \in Conversation |->
           IF LastWritten(c) = {} THEN lastMessageAt[c] ELSE CHOOSE t \in LastWritten(c) : TRUE]
    BY DEF Serve
  <1>1. CASE UNCHANGED <<conv, messages>>
    <2>1. \A c \in Conversation : LastWritten(c) = {}
      BY <1>1, NothingWritten
    <2>2. lastMessageAt' = lastMessageAt
      BY <1>c, <1>d, <2>1
    <2> QED BY <1>1, <2>2 DEF SameOwners
  <1>2. ASSUME NEW r \in Request, newRow[r] # NoRow, Apply(r), Commit(r) \/ OrphanCommit(r)
        PROVE  Exchange(r)
    <2> DEFINE c == Conv(r)
               u == UserMessage(r)
               b == BotMessage(r)
    <2>1. /\ c \in Conversation /\ conv[c] \in Row /\ conv[c] # NoRow
          /\ messages' = messages \cup {u, b}
          /\ conv' = [conv EXCEPT ![c] = newRow[r]]
          /\ newRow[r] = [owner |-> conv[c].owner, count |-> conv[c].count + 2,
                          version |-> conv[c].version + 1]
      BY <1>2, <1>a, Prepared, NullAssumption DEF Apply
    <2>2. SameOwners
      BY <2>1, <1>2, <1>b DEF SameOwners
    <2>3. pc[r] \in {"commit", "orphan"} /\ pc'[r] \in {"committed", "unsure"}
      BY <1>2, <1>a DEF Commit, OrphanCommit, Goto, TypeOK
    <2>4. \A m \in messages : m.req # r
      BY <2>3 DEF Timed, Accounted, MessageByStage
    <2>5. u.req = r /\ b.req = r /\ b.sender = "bot" /\ u.sender = "user" /\ b.convo = c
      BY DEF UserMessage, BotMessage
    <2>6. messages' \ messages = {u, b}
      BY <2>1, <2>4, <2>5
    <2>7. ASSUME NEW d \in Conversation, d # c PROVE LastWritten(d) = {}
      BY <2>1, <2>5, <2>6, <2>7, <1>b, NothingWritten DEF UserMessage
    <2>8. LastWritten(c) = {stamp[r] + Lead * Ms}
      <3>1. {stamp[q] : q \in {p \in Request : /\ Kind(p) = "create" /\ Conv(p) = c
                                               /\ conv[c] = NoRow /\ conv'[c] # NoRow}} = {}
        BY <2>1
      <3>2. {m \in messages' \ messages : m.convo = c /\ m.sender = "bot"} = {b}
        BY <2>5, <2>6
      <3>3. CreatedAt(b) = stamp[r] + Lead * Ms
        BY <2>5 DEF CreatedAt
      <3> HIDE DEF b, c
      <3>4. {CreatedAt(m) : m \in {n \in messages' \ messages : n.convo = c /\ n.sender = "bot"}}
              = {stamp[r] + Lead * Ms}
        BY <3>2, <3>3
      <3> QED BY <3>1, <3>4 DEF LastWritten
    <2>9. lastMessageAt' = [lastMessageAt EXCEPT ![c] = stamp[r] + Lead * Ms]
      <3>1. lastMessageAt'[c] = stamp[r] + Lead * Ms
        BY <1>d, <2>1, <2>8, OnlyElement
      <3>2. \A d \in Conversation \ {c} : lastMessageAt'[d] = lastMessageAt[d]
        BY <1>d, <2>7
      <3> HIDE DEF c
      <3> QED BY <1>c, <1>d, <2>1, <3>1, <3>2
    <2> QED BY <1>2, <2>1, <2>2, <2>3, <2>9 DEF Exchange
  <1>3. ASSUME NEW r \in Request, Execute(r), Statement(r) \/ OrphanStatement(r)
        PROVE  \/ (UNCHANGED <<messages, lastMessageAt>> /\ SameOwners)
               \/ Creation(r) \/ Deletion(r)
    <2>1. pc[r] \in {"stmt", "orphan"}
      BY <1>3, <1>a, AppliedStage
    <2>2. CASE Create(r)
      <3>1. /\ Kind(r) = "create" /\ conv[Conv(r)] = NoRow /\ messages' = messages
            /\ conv' = [conv EXCEPT ![Conv(r)] =
                          [owner |-> Call[r].user, count |-> 0, version |-> 1]]
        BY <2>2 DEF Create
      <3>2. [owner |-> Call[r].user, count |-> 0, version |-> 1] \in Row
        BY CallType DEF Row
      <3>3. conv'[Conv(r)] # NoRow /\ \A c \in Conversation \ {Conv(r)} : conv'[c] = conv[c]
        BY <3>1, <3>2, <1>b, NullAssumption
      <3>4. \A c \in Conversation \ {Conv(r)} : LastWritten(c) = {}
        BY <3>1, <3>3, NothingWritten
      <3>5. {q \in Request : /\ Kind(q) = "create" /\ Conv(q) = Conv(r)
                             /\ conv[Conv(r)] = NoRow /\ conv'[Conv(r)] # NoRow} = {r}
        BY <3>1, <3>3, FreshIdAssumption DEF Kind, Conv
      <3>6. messages' \ messages = {}
        BY <3>1
      <3>7. LastWritten(Conv(r)) = {stamp[r]}
        <4>1. {stamp[p] : p \in {q \in Request : /\ Kind(q) = "create" /\ Conv(q) = Conv(r)
                             /\ conv[Conv(r)] = NoRow /\ conv'[Conv(r)] # NoRow}} = {stamp[r]}
          BY <3>5
        <4>2. {CreatedAt(m) : m \in {n \in messages' \ messages :
                                       n.convo = Conv(r) /\ n.sender = "bot"}} = {}
          BY <3>6
        <4> QED BY <4>1, <4>2 DEF LastWritten
      <3>8. lastMessageAt' = [lastMessageAt EXCEPT ![Conv(r)] = stamp[r]]
        BY <1>b, <1>c, <1>d, <3>4, <3>7, OnlyElement
      <3> QED BY <2>1, <3>1, <3>3, <3>8 DEF Creation
    <2>3. CASE Rename(r)
      <3>1. /\ conv[Conv(r)] # NoRow /\ messages' = messages
            /\ conv' = [conv EXCEPT ![Conv(r)].version = @ + 1]
        BY <2>3 DEF Rename, Matches
      <3>2. conv[Conv(r)] \in Row
        BY <3>1, <1>b
      <3>3. /\ conv'[Conv(r)] = [conv[Conv(r)] EXCEPT !.version = @ + 1]
            /\ \A c \in Conversation \ {Conv(r)} : conv'[c] = conv[c]
        BY <3>1, <1>b
      <3>4. conv'[Conv(r)] \in Row /\ conv'[Conv(r)].owner = conv[Conv(r)].owner
        BY <3>2, <3>3 DEF Row
      <3>5. SameOwners
        BY <3>1, <3>3, <3>4, NullAssumption DEF SameOwners
      <3>6. \A c \in Conversation : LastWritten(c) = {}
        BY <3>1, <3>5, NothingWritten DEF SameOwners
      <3> QED BY <3>1, <3>5, <3>6, <1>c, <1>d
    <2>4. CASE Delete(r)
      <3>1. /\ messages' = {m \in messages : m.convo # Conv(r)}
            /\ conv' = [conv EXCEPT ![Conv(r)] = NoRow]
        BY <2>4 DEF Delete
      <3>2. \A c \in Conversation : LastWritten(c) = {}
        BY <3>1, <1>b, NothingWritten
      <3> QED BY <3>1, <3>2, <1>c, <1>d DEF Deletion
    <2> QED BY <1>3, <2>2, <2>3, <2>4 DEF Execute
  <1> QED BY <1>a, <1>1, <1>2, <1>3, TableChange

-----------------------------------------------------------------------------
(* The order of stamps                                                     *)

\* A request becomes a writer by locking the row.
LEMMA BecomesWriter ==
    ASSUME Accounted, Next, NEW r \in Request, pc'[r] \in Locked \/ newRow'[r] # NoRow
    PROVE  \/ pc[r] \in Locked \/ newRow[r] # NoRow
           \/ pc[r] = "lock" /\ pc'[r] = "user" /\ Kind(r) = "send"
  <1> DEFINE Fits == \/ pc[r] \in Locked \/ newRow[r] # NoRow
                     \/ pc[r] = "lock" /\ pc'[r] = "user" /\ Kind(r) = "send"
  <1> USE DEF Goto, tx, store, Locked
  <1>a. TypeOK /\ StageFitsKind
    BY DEF Accounted, Inductive
  <1>b. pc \in [Request -> Stage] /\ newRow \in [Request -> Row \cup {NoRow}]
    BY <1>a, Typed
  <1>1. ASSUME NEW q \in Request,
               \/ Arrive(q) \/ AcquireMutex(q) \/ Connect(q) \/ ConnectTimeout(q) \/ LockRow(q)
               \/ LockForeign(q) \/ LockMissing(q) \/ BotCached(q) \/ InsertUser(q)
               \/ BotMiss(q) \/ RulesConnect(q) \/ RulesTimeout(q) \/ RulesAnswer(q)
               \/ BotFail(q) \/ InsertBot(q) \/ UpdateRow(q) \/ ReplySent(q)
               \/ Statement(q) \/ StatementMiss(q) \/ StatementOk(q) \/ NotFound(q)
               \/ OrphanStatement(q) \/ ConnectionLost(q)
        PROVE  Fits
    BY <1>1, <1>a, <1>b DEF StageFitsKind, Arrive, AcquireMutex, Connect, ConnectTimeout, LockRow,
         LockForeign, LockMissing, BotCached, InsertUser, BotMiss,
         RulesConnect, RulesTimeout, RulesAnswer, BotFail, InsertBot, UpdateRow, ReplySent,
         Statement, StatementMiss, StatementOk, NotFound, OrphanStatement, ConnectionLost
  <1>2. ASSUME NEW q \in Request,
               \/ InsertUserDuplicate(q) \/ Rollback(q) \/ OrphanAbort(q)
               \/ Commit(q) \/ OrphanCommit(q)
        PROVE  Fits
    BY <1>2, <1>a, <1>b DEF InsertUserDuplicate, Rollback, OrphanAbort, Abort, Commit,
         OrphanCommit, Apply
  <1>3. ASSUME NEW i \in Instance, Crash(i) PROVE Fits
    BY <1>3, <1>a, CrashStage DEF Crash
  <1> QED BY <1>1, <1>2, <1>3 DEF Next, Work

\* Two requests never write to one conversation.
LEMMA OneWriter ==
    ASSUME Accounted, NEW r \in Request, NEW q \in Request, Conv(r) = Conv(q),
           pc[r] \in Locked \/ newRow[r] # NoRow, pc[q] \in Locked \/ newRow[q] # NoRow
    PROVE  r = q
  BY DEF Accounted, Inductive, CountIsCurrent

LEMMA ClockedServe == Timed /\ Serve => Clocked'
  <1> SUFFICES ASSUME Timed, Serve PROVE Clocked'
    OBVIOUS
  <1>1. /\ clock \in Nat /\ clock' = clock /\ clock * Ms \in Nat /\ (clock * Ms) % Ms = 0
        /\ Lead * Ms \in Nat
    BY StampAssumption DEF Timed, Clocked, Serve, Ms
  <1>2. \A r \in Request : stamp[r] \in Nat /\ stamp[r] <= clock * Ms /\ stamp[r] % Ms = 0
    BY DEF Timed, Clocked
  <1>3. \A r \in Request : stamp'[r] = clock * Ms \/ stamp'[r] = stamp[r]
    BY StampTaken
  <1>4. stamp' \in [Request -> Nat]
    <2>1. stamp' = [r \in Request |-> IF TakesStamp(r) THEN clock * Ms ELSE stamp[r]]
      BY DEF Serve
    <2> HIDE DEF TakesStamp
    <2> QED BY <2>1, <1>1, <1>2
  <1>5. \A r \in Request : stamp'[r] <= clock * Ms /\ stamp'[r] % Ms = 0
    BY <1>1, <1>2, <1>3
  <1>6. /\ lastMessageAt' \in [Conversation -> Nat]
        /\ \A c \in Conversation : lastMessageAt'[c] <= clock * Ms + Lead * Ms
    <2>1. /\ lastMessageAt \in [Conversation -> Nat]
          /\ \A c \in Conversation : lastMessageAt[c] <= clock * Ms + Lead * Ms
      BY DEF Timed, Clocked
    <2>2. ASSUME NEW c \in Conversation, NEW r \in Request, NEW t \in {stamp[r], stamp[r] + Lead * Ms},
                 lastMessageAt' = [lastMessageAt EXCEPT ![c] = t]
          PROVE  /\ lastMessageAt' \in [Conversation -> Nat]
                 /\ \A d \in Conversation : lastMessageAt'[d] <= clock * Ms + Lead * Ms
      <3>1. t \in Nat /\ t <= clock * Ms + Lead * Ms
        BY <1>1, <1>2, <2>2
      <3> QED BY <2>1, <2>2, <3>1
    <2>3. ASSUME NEW r \in Request, Exchange(r) \/ Creation(r) \/ Deletion(r)
          PROVE  /\ lastMessageAt' \in [Conversation -> Nat]
                 /\ \A d \in Conversation : lastMessageAt'[d] <= clock * Ms + Lead * Ms
      BY <2>1, <2>2, <2>3, CallType DEF Exchange, Creation, Deletion
    <2> QED BY <2>1, <2>3, ServeChanges
  <1> QED BY <1>1, <1>4, <1>5, <1>6 DEF Clocked

LEMMA WriterServe == Timed /\ Serve /\ Accounted' /\ Clocked' => WriterIsNewest'
  <1> SUFFICES ASSUME Timed, Serve, Accounted', Clocked', NEW r \in Request,
                      pc'[r] \in Locked \/ newRow'[r] # NoRow
               PROVE  /\ \A m \in messages' : m.convo = Conv(r) => stamp'[m.req] <= stamp'[r]
                      /\ lastMessageAt'[Conv(r)] <= stamp'[r] + Lead * Ms
    BY DEF WriterIsNewest, Conv
  <1>0. Accounted /\ Next /\ clock' = clock /\ Conv(r) \in Conversation
    BY CallType DEF Timed, Serve
  <1>1. CASE pc[r] = "lock" /\ pc'[r] = "user" /\ Kind(r) = "send"
    <2>1. TakesStamp(r)
      BY <1>1 DEF TakesStamp
    <2>2. stamp'[r] = clock * Ms
      BY <1>1, <2>1, StampTaken
    <2>3. \A m \in messages' : m.req \in Request
      BY DEF Accounted, Inductive, TypeOK, Message
    <2> QED BY <1>0, <2>2, <2>3 DEF Clocked
  <1>2. CASE pc[r] \in Locked \/ newRow[r] # NoRow
    <2>1. /\ \A m \in messages : m.convo = Conv(r) => stamp[m.req] <= stamp[r]
          /\ lastMessageAt[Conv(r)] <= stamp[r] + Lead * Ms
      BY <1>2 DEF Timed, WriterIsNewest
    <2>2. stamp'[r] = stamp[r]
      BY <1>2, StampKept
    <2>3. conv[Conv(r)] # NoRow
      BY <1>0, <1>2 DEF Accounted, Inductive, CountIsCurrent
    <2>4. /\ \A m \in messages' : m.convo = Conv(r) => m \in messages
          /\ lastMessageAt'[Conv(r)] = lastMessageAt[Conv(r)]
      <3>1. ASSUME NEW q \in Request, Exchange(q) PROVE Conv(q) # Conv(r)
        <4>1. newRow[q] # NoRow /\ pc'[q] \in {"committed", "unsure"}
          BY <3>1 DEF Exchange
        <4>2. newRow'[q] = NoRow
          BY <4>1 DEF Accounted, Inductive, StagedByStage
        <4>3. q # r
          BY <4>1, <4>2 DEF Locked
        <4> QED BY <1>0, <1>2, <4>1, <4>3, OneWriter
      <3>2. lastMessageAt \in [Conversation -> Nat]
        BY DEF Timed, Clocked
      <3>3. ASSUME NEW q \in Request, Exchange(q) PROVE <2>4
        <4>1. UserMessage(q).convo = Conv(q) /\ BotMessage(q).convo = Conv(q)
          BY DEF UserMessage, BotMessage
        <4> QED BY <1>0, <3>1, <3>2, <3>3, <4>1 DEF Exchange
      <3>4. ASSUME NEW q \in Request, Creation(q) \/ Deletion(q) PROVE <2>4
        BY <1>0, <2>3, <3>2, <3>4 DEF Creation, Deletion
      <3> QED BY <3>3, <3>4, ServeChanges
    <2>5. \A m \in messages : stamp'[m.req] = stamp[m.req]
      BY MessageStampKept
    <2> QED BY <2>1, <2>2, <2>4, <2>5
  <1> QED BY <1>0, <1>1, <1>2, BecomesWriter

\* An exchange that is stored: two new messages of r, numbered after all others
\* of the conversation and stamped no earlier than any.
LEMMA ExchangeStored ==
    ASSUME Timed, Serve, NEW r \in Request, Exchange(r)
    PROVE  LET u == UserMessage(r)
               b == BotMessage(r)
               n == conv[Conv(r)].count
           IN
           /\ messages' = messages \cup {u, b} /\ \A m \in messages : m.req # r
           /\ u.req = r /\ u.sender = "user" /\ u.convo = Conv(r) /\ u.seq = n + 1
           /\ b.req = r /\ b.sender = "bot" /\ b.convo = Conv(r) /\ b.seq = n + 2
           /\ n \in Nat /\ stamp'[r] = stamp[r] /\ stamp[r] \in Nat
           /\ \A m \in messages : m.convo = Conv(r) => m.seq <= n /\ stamp[m.req] <= stamp[r]
           /\ lastMessageAt'[Conv(r)] = stamp[r] + Lead * Ms
           /\ \A c \in Conversation \ {Conv(r)} : lastMessageAt'[c] = lastMessageAt[c]
  <1>1. newRow[r] # NoRow /\ pc[r] \in {"commit", "orphan"}
    BY DEF Exchange
  <1>2. Inductive /\ Conv(r) \in Conversation /\ lastMessageAt \in [Conversation -> Nat]
    BY CallType DEF Timed, Accounted, Clocked
  <1>3. \A m \in messages : m.req # r
    BY <1>1, MessageStampKept
  <1>4. LET n == conv[Conv(r)].count IN
        /\ n \in Nat
        /\ UserMessage(r) = [convo |-> Conv(r), seq |-> n + 1, sender |-> "user", req |-> r]
        /\ BotMessage(r) = [convo |-> Conv(r), seq |-> n + 2, sender |-> "bot", req |-> r]
    BY <1>1, <1>2, Prepared
  <1>5. \A m \in messages : m.convo = Conv(r) => m.seq <= conv[Conv(r)].count
    BY <1>2, <1>4 DEF Inductive, SequenceExact, SeqInRange
  <1>6. \A m \in messages : m.convo = Conv(r) => stamp[m.req] <= stamp[r]
    BY <1>1 DEF Timed, WriterIsNewest
  <1>7. stamp'[r] = stamp[r] /\ stamp[r] \in Nat
    BY <1>1, StampKept DEF Timed, Clocked
  <1>8. /\ messages' = messages \cup {UserMessage(r), BotMessage(r)}
        /\ lastMessageAt' = [lastMessageAt EXCEPT ![Conv(r)] = stamp[r] + Lead * Ms]
    BY DEF Exchange
  <1>9. /\ lastMessageAt'[Conv(r)] = stamp[r] + Lead * Ms
        /\ \A c \in Conversation \ {Conv(r)} : lastMessageAt'[c] = lastMessageAt[c]
    BY <1>2, <1>8
  <1> QED BY <1>3, <1>4, <1>5, <1>6, <1>7, <1>8, <1>9

\* Where no exchange is stored, no message is.
LEMMA NoExchange ==
    ASSUME Timed, Serve, \A r \in Request : ~Exchange(r)
    PROVE  /\ messages' \subseteq messages
           /\ \A m \in messages' : lastMessageAt'[m.convo] = lastMessageAt[m.convo]
           /\ \A m \in messages', n \in messages : m.convo = n.convo => n \in messages'
  <1>1. \A m \in messages : m.convo \in Conversation /\ conv[m.convo] # NoRow
    BY MessageStampKept DEF Timed, Accounted, Inductive, SequenceExact, SeqInRange
  <1>2. lastMessageAt \in [Conversation -> Nat]
    BY DEF Timed, Clocked
  <1>3. ASSUME NEW r \in Request, Creation(r)
        PROVE  messages' = messages /\ \A m \in messages : m.convo # Conv(r)
    BY <1>1, <1>3 DEF Creation
  <1>4. ASSUME NEW r \in Request, Creation(r)
        PROVE  \A m \in messages' : lastMessageAt'[m.convo] = lastMessageAt[m.convo]
    BY <1>1, <1>2, <1>3, <1>4 DEF Creation
  <1>5. ASSUME NEW r \in Request, Deletion(r)
        PROVE  lastMessageAt' = lastMessageAt /\ messages' = {m \in messages : m.convo # Conv(r)}
    BY <1>5 DEF Deletion
  <1> QED BY <1>3, <1>4, <1>5, ServeChanges

LEMMA OneOfEachServe == Timed /\ Serve => OneOfEach'
  <1> SUFFICES ASSUME Timed, Serve PROVE OneOfEach'
    OBVIOUS
  <1>1. OneOfEach
    BY DEF Timed
  <1>2. ASSUME NEW r \in Request, Exchange(r) PROVE OneOfEach'
    <2> DEFINE u == UserMessage(r)
               b == BotMessage(r)
    <2>1. /\ messages' = messages \cup {u, b} /\ \A m \in messages : m.req # r
          /\ u.req = r /\ u.sender = "user" /\ b.req = r /\ b.sender = "bot"
      BY <1>2, ExchangeStored
    <2> HIDE DEF u, b
    <2> QED BY <1>1, <2>1 DEF OneOfEach
  <1> QED BY <1>1, <1>2, NoExchange DEF OneOfEach

LEMMA OrderServe == Timed /\ Serve => StampedInOrder'
  <1> SUFFICES ASSUME Timed, Serve, NEW m \in messages', NEW n \in messages',
                      m.convo = n.convo, m.seq < n.seq
               PROVE  stamp'[m.req] <= stamp'[n.req]
    BY DEF StampedInOrder
  <1>1. m \in messages /\ n \in messages => stamp'[m.req] <= stamp'[n.req]
    BY MessageStampKept DEF Timed, StampedInOrder
  <1>2. ASSUME NEW r \in Request, Exchange(r) PROVE stamp'[m.req] <= stamp'[n.req]
    <2> DEFINE u == UserMessage(r)
               b == BotMessage(r)
               k == conv[Conv(r)].count
    <2>1. /\ messages' = messages \cup {u, b}
          /\ u.req = r /\ u.convo = Conv(r) /\ u.seq = k + 1
          /\ b.req = r /\ b.convo = Conv(r) /\ b.seq = k + 2
          /\ k \in Nat /\ stamp'[r] = stamp[r] /\ stamp[r] \in Nat
          /\ \A x \in messages : x.convo = Conv(r) => x.seq <= k /\ stamp[x.req] <= stamp[r]
      BY <1>2, ExchangeStored
    <2>2. \A x \in messages : x.seq \in Nat /\ stamp'[x.req] = stamp[x.req]
      BY MessageStampKept
    <2> HIDE DEF u, b, k
    <2>3. CASE m \in messages /\ n \in {u, b}
      BY <2>1, <2>2, <2>3
    <2>4. CASE m \in {u, b} /\ n \in messages
      BY <2>1, <2>2, <2>4
    <2>5. CASE m \in {u, b} /\ n \in {u, b}
      BY <2>1, <2>5
    <2> QED BY <1>1, <2>1, <2>3, <2>4, <2>5
  <1> QED BY <1>1, <1>2, NoExchange

\* CreatedAt of a stored message, now and after the step.
LEMMA CreatedAtKept ==
    ASSUME Timed, Serve, NEW m \in messages
    PROVE  /\ CreatedAt(m)' = CreatedAt(m) /\ CreatedAt(m) \in Nat
           /\ CreatedAt(m) <= stamp[m.req] + Lead * Ms
  <1>1. stamp'[m.req] = stamp[m.req] /\ stamp[m.req] \in Nat
    BY MessageStampKept
  <1>2. Lead * Ms \in Nat
    BY StampAssumption DEF Ms
  <1> QED BY <1>1, <1>2 DEF CreatedAt

LEMMA NewestServe == Timed /\ Serve => ListedByNewest'
  <1> SUFFICES ASSUME Timed, Serve, NEW m \in messages'
               PROVE  /\ CreatedAt(m)' <= lastMessageAt'[m.convo]
                      /\ \E n \in messages' : /\ n.convo = m.convo
                                              /\ CreatedAt(n)' = lastMessageAt'[m.convo]
    BY DEF ListedByNewest
  <1> DEFINE Fits == /\ CreatedAt(m)' <= lastMessageAt'[m.convo]
                     /\ \E n \in messages' : /\ n.convo = m.convo
                                             /\ CreatedAt(n)' = lastMessageAt'[m.convo]
  <1>1. \A n \in messages : CreatedAt(n)' = CreatedAt(n)
    BY CreatedAtKept
  <1>2. ASSUME m \in messages
        PROVE  /\ CreatedAt(m) <= lastMessageAt[m.convo]
               /\ \E n \in messages : n.convo = m.convo /\ CreatedAt(n) = lastMessageAt[m.convo]
    BY <1>2 DEF Timed, ListedByNewest
  <1>3. CASE \A r \in Request : ~Exchange(r)
    <2>1. m \in messages /\ lastMessageAt'[m.convo] = lastMessageAt[m.convo]
      BY <1>3, NoExchange
    <2>2. \A n \in messages : n.convo = m.convo => n \in messages'
      BY <1>3, NoExchange
    <2> QED BY <1>1, <1>2, <2>1, <2>2
  <1>4. ASSUME NEW r \in Request, Exchange(r) PROVE Fits
    <2>1. PICK u, b :
          /\ messages' = messages \cup {u, b}
          /\ u.req = r /\ u.sender = "user" /\ u.convo = Conv(r)
          /\ b.req = r /\ b.sender = "bot" /\ b.convo = Conv(r)
          /\ stamp'[r] = stamp[r] /\ stamp[r] \in Nat
          /\ \A x \in messages : x.convo = Conv(r) => stamp[x.req] <= stamp[r]
          /\ lastMessageAt'[Conv(r)] = stamp[r] + Lead * Ms
          /\ \A c \in Conversation \ {Conv(r)} : lastMessageAt'[c] = lastMessageAt[c]
      BY <1>4, ExchangeStored
    <2>2. /\ CreatedAt(u)' = stamp[r] /\ CreatedAt(b)' = stamp[r] + Lead * Ms
      BY <2>1 DEF CreatedAt
    <2>3. Lead * Ms \in Nat
      BY StampAssumption DEF Ms
    <2>4. CASE m \in {u, b}
      BY <2>1, <2>2, <2>3, <2>4
    <2>5. CASE m \in messages /\ m.convo = Conv(r)
      <3>1. stamp[m.req] \in Nat /\ CreatedAt(m)' <= stamp[m.req] + Lead * Ms
        BY <2>5, MessageStampKept, CreatedAtKept
      <3>2. CreatedAt(m)' \in Nat
        BY <2>5, CreatedAtKept
      <3>3. CreatedAt(m)' <= stamp[r] + Lead * Ms
        BY <2>1, <2>3, <2>5, <3>1, <3>2
      <3> QED BY <2>1, <2>2, <2>5, <3>3
    <2>6. CASE m \in messages /\ m.convo # Conv(r)
      <3>1. m.convo \in Conversation
        BY <2>6, MessageStampKept
      <3> QED BY <1>1, <1>2, <2>1, <2>6, <3>1
    <2> QED BY <2>1, <2>4, <2>5, <2>6
  <1> QED BY <1>3, <1>4

\* Nothing but a step of the service touches tables and stamps.
LEMMA OtherSteps ==
    ASSUME TimelineNext, ~Serve
    PROVE  /\ UNCHANGED <<vars, stamp, lastMessageAt, rank>>
           /\ clock' = clock \/ clock' = clock + 1
  BY DEF TimelineNext, Tick, Begin, GuardPasses, GuardRefuses, Page, LastPage, written

LEMMA StampsPerMillisecond ==
    ASSUME NEW a \in Nat, NEW b \in Nat, a <= b
    PROVE  a * Ms \in Nat /\ b * Ms \in Nat /\ a * Ms <= b * Ms
  BY DEF Ms

LEMMA TimedStep == Timed /\ [TimelineNext]_timeline => Timed'
  <1> SUFFICES ASSUME Timed, [TimelineNext]_timeline PROVE Timed'
    OBVIOUS
  <1>1. CASE Serve
    <2>1. Accounted'
      BY <1>1, AccountedStep DEF Timed, Serve
    <2> QED BY <1>1, <2>1, ClockedServe, WriterServe, OneOfEachServe, OrderServe, NewestServe
            DEF Timed
  <1>2. CASE /\ UNCHANGED <<vars, stamp, lastMessageAt>>
             /\ clock' = clock \/ clock' = clock + 1
    <2>1. Accounted'
      BY <1>2, AccountedStep DEF Timed
    <2>2. Clocked'
      <3>1. /\ clock' \in Nat /\ clock \in Nat /\ clock <= clock' /\ Lead \in Nat
            /\ stamp \in [Request -> Nat] /\ lastMessageAt \in [Conversation -> Nat]
            /\ \A r \in Request : stamp[r] <= clock * Ms /\ stamp[r] % Ms = 0
            /\ \A c \in Conversation : lastMessageAt[c] <= clock * Ms + Lead * Ms
        BY <1>2, StampAssumption DEF Timed, Clocked
      <3>2. clock * Ms \in Nat /\ clock * Ms <= clock' * Ms /\ clock' * Ms \in Nat /\ Lead * Ms \in Nat
        BY <3>1, StampsPerMillisecond
      <3>3. \A r \in Request : stamp[r] <= clock' * Ms
        BY <3>1, <3>2
      <3>4. \A c \in Conversation : lastMessageAt[c] <= clock' * Ms + Lead * Ms
        BY <3>1, <3>2
      <3> QED BY <1>2, <3>1, <3>3, <3>4 DEF Clocked
    <2>3. WriterIsNewest' /\ OneOfEach' /\ StampedInOrder'
      BY <1>2 DEF Timed, WriterIsNewest, OneOfEach, StampedInOrder, vars, tx, store
    <2>4. ListedByNewest'
      BY <1>2 DEF Timed, ListedByNewest, CreatedAt, vars, store
    <2> QED BY <2>1, <2>2, <2>3, <2>4 DEF Timed
  <1> QED BY <1>1, <1>2, OtherSteps DEF timeline, written

LEMMA TimedInit == TimelineInit => Timed
  <1> SUFFICES ASSUME TimelineInit PROVE Timed
    OBVIOUS
  <1>1. Accounted
    BY AccountedInit DEF TimelineInit
  <1>2. Clocked
    BY StampAssumption DEF TimelineInit, Clocked, Ms
  <1>3. messages = {} /\ \A r \in Request : pc[r] = "idle" /\ newRow[r] = NoRow
    BY DEF TimelineInit, Init
  <1>4. WriterIsNewest /\ OneOfEach /\ StampedInOrder /\ ListedByNewest
    BY <1>3 DEF WriterIsNewest, OneOfEach, StampedInOrder, ListedByNewest, Locked
  <1> QED BY <1>1, <1>2, <1>4 DEF Timed

\* The invariant that the order of time stamps rests on.
THEOREM TimedInvariant == TimelineSpec => []Timed
  <1> QED BY TimedInit, TimedStep, PTL DEF TimelineSpec

\* Reading by created_at gives the order of sequence_number but for the bot's
\* lead, whatever instances and locks do (the two stamps of sendMessage).
THEOREM TimeAgreesWithSequence == TimelineSpec => []TimeFollowsSequence
  <1>1. ASSUME Timed PROVE TimeFollowsSequence
    <2> SUFFICES ASSUME NEW m \in messages, NEW n \in messages,
                        m.convo = n.convo, m.seq < n.seq
                 PROVE  /\ CreatedAt(m) <= CreatedAt(n) + Lead * Ms
                        /\ m.sender = n.sender => CreatedAt(m) <= CreatedAt(n)
                        /\ m.req = n.req => CreatedAt(m) < CreatedAt(n)
      BY DEF TimeFollowsSequence
    <2>1. \A x \in messages : x.req \in Request /\ x.seq \in Nat /\ x.sender \in {"user", "bot"}
      BY <1>1 DEF Timed, Accounted, Inductive, TypeOK, Message
    <2>2. stamp[m.req] \in Nat /\ stamp[n.req] \in Nat /\ stamp[m.req] <= stamp[n.req]
      BY <1>1, <2>1 DEF Timed, Clocked, StampedInOrder
    <2>3. Lead * Ms \in Nat /\ Lead * Ms > 0
      BY StampAssumption DEF Ms
    <2>4. ASSUME m.req = n.req PROVE m.sender = "user" /\ n.sender = "bot"
      <3>1. m.sender # n.sender
        BY <1>1, <2>1, <2>4 DEF Timed, OneOfEach
      <3>2. CASE m.sender = "bot"
        <4>1. PICK k \in messages : k.req = m.req /\ k.sender = "user" /\ m.seq = k.seq + 1
          BY <1>1, <3>2 DEF Timed, Accounted, Inductive, SequenceExact, SeqPaired
        <4>2. k = n
          BY <1>1, <2>1, <2>4, <3>1, <3>2, <4>1 DEF Timed, OneOfEach
        <4> QED BY <2>1, <4>1, <4>2
      <3> QED BY <2>1, <3>1, <3>2
    <2> QED BY <2>1, <2>2, <2>3, <2>4 DEF CreatedAt
  <1> QED BY <1>1, TimedInvariant, PTL

\* The list of conversations is sorted by their newest messages (UPDATE ... SET
\* last_message_at = botTimestamp under the row lock).
THEOREM ListIsByNewest == TimelineSpec => []ListedByNewest
  <1>1. Timed => ListedByNewest
    BY DEF Timed
  <1> QED BY <1>1, TimedInvariant, PTL

-----------------------------------------------------------------------------
(* What a walk has returned, while the service goes on                     *)

\* The stamp of a message or of a conversation, from its id.
TimeOf(s, x) ==
    IF s = List THEN lastMessageAt[x]
    ELSE IF x[2] = "user" THEN stamp[x[1]] ELSE stamp[x[1]] + Lead * Ms
RowOf(s, x) == [id |-> x, at |-> TimeOf(s, x)]

\* Once read, a row may change or go, but none with its id appears anew: its
\* conversation has been created and its request has committed.
Lasting(s, x) ==
    IF s = List
    THEN /\ x \in Conversation
         /\ \A q \in Request : Kind(q) = "create" /\ Conv(q) = x =>
               pc[q] \notin {"idle", "connect", "stmt", "orphan"}
    ELSE x \in MessageId /\ pc[x[1]] \in {"committed", "ok", "unsure"}

LEMMA TimeOfType ==
    ASSUME Timed, NEW s \in Subject, NEW x, Lasting(s, x)
    PROVE  /\ TimeOf(s, x) \in Nat /\ x \in MessageId \cup Conversation
           /\ s # List => TimeOf(s, x) % Ms = 0
  <1>1. CASE s = List
    BY <1>1 DEF Timed, Clocked, Lasting, TimeOf
  <1>2. CASE s # List
    <2>1. x \in MessageId /\ x[1] \in Request
      BY <1>2 DEF Lasting, MessageId
    <2>2. stamp[x[1]] \in Nat /\ stamp[x[1]] % Ms = 0
      BY <2>1 DEF Timed, Clocked
    <2>3. (stamp[x[1]] + Lead * Ms) % Ms = 0 /\ stamp[x[1]] + Lead * Ms \in Nat
      BY <2>2, StampAssumption DEF Ms
    <2> QED BY <1>2, <2>1, <2>2, <2>3 DEF TimeOf
  <1> QED BY <1>1, <1>2

\* What a page is made of.
LEMMA RowShown ==
    ASSUME Timed, NEW s \in Subject, NEW row \in Rows(s)
    PROVE  row = RowOf(s, row.id) /\ Lasting(s, row.id) /\ row.at = TimeOf(s, row.id)
  <1>1. CASE s = List
    <2>1. PICK c \in Conversation : conv[c] # NoRow /\ row = [id |-> c, at |-> lastMessageAt[c]]
      BY <1>1 DEF Rows
    <2>2. Lasting(s, c)
      BY <1>1, <2>1 DEF Timed, Accounted, CreatedOnce, Lasting
    <2> QED BY <1>1, <2>1, <2>2 DEF RowOf, TimeOf
  <1>2. CASE s # List
    <2>1. PICK m \in messages : row = [id |-> <<m.req, m.sender>>, at |-> CreatedAt(m)]
      BY <1>2 DEF Rows
    <2>2. m.req \in Request /\ m.sender \in {"user", "bot"}
      BY DEF Timed, Accounted, Inductive, TypeOK, Message
    <2>3. pc[m.req] \in {"committed", "ok", "unsure"}
      BY DEF Timed, Accounted, MessageByStage
    <2> QED BY <1>2, <2>1, <2>2, <2>3 DEF Lasting, MessageId, RowOf, TimeOf, CreatedAt
  <1> QED BY <1>1, <1>2

\* A list of messages or of conversations is finite.
LEMMA RowsFinite ==
    ASSUME Timed, NEW s \in Subject
    PROVE  IsFiniteSet(Rows(s))
  <1> DEFINE ids == MessageId \cup Conversation
             f == [x \in ids |-> RowOf(s, x)]
             image == {f[x] : x \in ids}
  <1>1. IsFiniteSet(ids)
    <2>1. IsFiniteSet({"user"} \cup {"bot"})
      BY FS_Singleton, FS_Union
    <2>2. {"user", "bot"} = {"user"} \cup {"bot"}
      OBVIOUS
    <2>3. IsFiniteSet(MessageId)
      BY <2>1, <2>2, BoundAssumption, FS_Product DEF MessageId
    <2> QED BY <2>3, WalkAssumption, FS_Union
  <1>2. f \in Surjection(ids, image)
    BY DEF Surjection
  <1>3. IsFiniteSet(image)
    BY <1>1, <1>2, FS_Surjection
  <1>4. Rows(s) \subseteq image
    BY RowShown, TimeOfType
  <1> QED BY <1>3, <1>4, FS_Subset

\* The stamp of a row that was read never goes back, and that of a message
\* never changes.
LEMMA TimeOfServe ==
    ASSUME Timed, Serve, NEW s \in Subject, NEW x, Lasting(s, x)
    PROVE  /\ Lasting(s, x)'
           /\ TimeOf(s, x) <= TimeOf(s, x)'
           /\ s # List => TimeOf(s, x)' = TimeOf(s, x)
  <1>0. Accounted /\ [Next]_vars
    BY DEF Timed, Serve
  <1>1. CASE s = List
    <2>1. /\ x \in Conversation
          /\ \A q \in Request : Kind(q) = "create" /\ Conv(q) = x =>
               pc[q] \notin {"idle", "connect", "stmt", "orphan"}
      BY <1>1 DEF Lasting
    <2>2. \A q \in Request : Kind(q) = "create" /\ Conv(q) = x =>
               pc'[q] \notin {"idle", "connect", "stmt", "orphan"}
      BY <1>0, <2>1, StageMoves
    <2>3. lastMessageAt \in [Conversation -> Nat]
      BY DEF Timed, Clocked
    <2>4. ASSUME NEW r \in Request, Exchange(r) PROVE lastMessageAt[x] <= lastMessageAt'[x]
      <3>1. /\ lastMessageAt' = [lastMessageAt EXCEPT ![Conv(r)] = stamp[r] + Lead * Ms]
            /\ lastMessageAt[Conv(r)] <= stamp[r] + Lead * Ms
        BY <2>4 DEF Exchange, Timed, WriterIsNewest
      <3> QED BY <2>1, <2>3, <3>1
    <2>5. ASSUME NEW r \in Request, Creation(r) PROVE lastMessageAt[x] <= lastMessageAt'[x]
      BY <2>1, <2>3, <2>5 DEF Creation
    <2>6. ASSUME NEW r \in Request, Deletion(r) PROVE lastMessageAt[x] <= lastMessageAt'[x]
      BY <2>1, <2>3, <2>6 DEF Deletion
    <2>7. lastMessageAt[x] <= lastMessageAt'[x]
      BY <2>1, <2>3, <2>4, <2>5, <2>6, ServeChanges
    <2> QED BY <1>1, <2>1, <2>2, <2>7 DEF Lasting, TimeOf, Kind, Conv
  <1>2. CASE s # List
    <2>1. x \in MessageId /\ x[1] \in Request /\ pc[x[1]] \in {"committed", "ok", "unsure"}
      BY <1>2 DEF Lasting, MessageId
    <2>2. pc'[x[1]] \in {"committed", "ok", "unsure"}
      BY <1>0, <2>1, StageMoves
    <2>3. stamp'[x[1]] = stamp[x[1]]
      BY <2>1, StampKept
    <2>4. TimeOf(s, x)' = TimeOf(s, x)
      BY <1>2, <2>3 DEF TimeOf
    <2>5. TimeOf(s, x) \in Nat
      BY TimeOfType
    <2> QED BY <1>2, <2>1, <2>2, <2>4, <2>5 DEF Lasting
  <1> QED BY <1>1, <1>2

\* No row of an id that was read comes back once it is gone.
LEMMA RowStays ==
    ASSUME Timed, Serve, NEW s \in Subject, NEW row \in Rows(s)', Lasting(s, row.id)
    PROVE  RowOf(s, row.id) \in Rows(s) /\ row.at = TimeOf(s, row.id)'
  <1>1. CASE s = List
    <2>1. PICK c \in Conversation : /\ conv'[c] # NoRow /\ conv'[c].owner = Reader
                                    /\ row = [id |-> c, at |-> lastMessageAt'[c]]
      BY <1>1 DEF Rows
    <2>2. \A q \in Request : Creation(q) => Conv(q) # c
      BY <1>1, <2>1 DEF Lasting, Creation
    <2>3. conv \in [Conversation -> Row \cup {NoRow}]
      BY DEF Timed, Accounted, Inductive, TypeOK
    <2>4. \A q \in Request : Deletion(q) => conv'[c] = conv[c]
      BY <2>1, <2>3 DEF Deletion
    <2>5. \A q \in Request : Creation(q) => conv'[c] = conv[c]
      BY <2>1, <2>2 DEF Creation
    <2>6. conv[c] # NoRow /\ conv[c].owner = Reader
      BY <2>1, <2>4, <2>5, ServeChanges DEF Exchange, SameOwners
    <2> QED BY <1>1, <2>1, <2>6 DEF Rows, RowOf, TimeOf
  <1>2. CASE s # List
    <2>1. PICK m \in messages' : /\ m.convo = s
                                 /\ row = [id |-> <<m.req, m.sender>>, at |-> CreatedAt(m)']
      BY <1>2 DEF Rows
    <2>2. pc[m.req] \in {"committed", "ok", "unsure"}
      BY <1>2, <2>1 DEF Lasting
    <2>3. ASSUME NEW r \in Request, Exchange(r) PROVE m \in messages
      <3>1. pc[r] \notin {"committed", "ok", "unsure"}
        BY <2>3 DEF Exchange
      <3>2. m \in messages \/ m.req = r
        BY <2>1, <2>3, ExchangeStored
      <3> QED BY <2>2, <3>1, <3>2
    <2>4. m \in messages
      BY <2>3, NoExchange
    <2>5. m.sender \in {"user", "bot"}
      BY <2>4, MessageStampKept
    <2> QED BY <1>2, <2>1, <2>4, <2>5 DEF Rows, RowOf, TimeOf, CreatedAt
  <1> QED BY <1>1, <1>2

WalkTypes ==
    /\ stage \in {"idle", "guard", "page", "end", "refused"}
    /\ subject \in Subject /\ rank \in IdOrders
    /\ cursor # NoCursor => cursor \in [id : MessageId \cup Conversation, at : Nat]
    /\ stage = "idle" =>
         subject = List /\ begun = {} /\ returned = {} /\ cursor = NoCursor
    /\ \A row \in begun \cup returned : Lasting(subject, row.id)
    /\ \A row \in begun : row.at \in Nat /\ row.at <= TimeOf(subject, row.id)

\* What has been returned is behind the cursor, whether it is still shown or not.
BehindCursor ==
    stage # "end" => \A row \in returned : ~Beyond(RowOf(subject, row.id))

\* Only what the seed stamped has parts of a millisecond, and it was there before.
FinerIsOld ==
    stage # "idle" => \A row \in Rows(subject) : row.at % Ms # 0 => row \in begun

Walked == Timed /\ WalkTypes /\ BehindCursor /\ FinerIsOld /\ WalkSkipsNothing

LEMMA WalkedServe == Walked /\ Serve /\ Timed' => Walked'
  <1> SUFFICES ASSUME Walked, Serve, Timed' PROVE Walked'
    OBVIOUS
  <1>1. /\ stage' = stage /\ subject' = subject /\ cursor' = cursor /\ rank' = rank
        /\ returned' = returned /\ begun' = begun /\ Timed /\ subject \in Subject
    BY DEF Serve, walk, Walked, WalkTypes
  <1>2. ASSUME NEW x, Lasting(subject, x)
        PROVE  /\ Lasting(subject, x)' /\ TimeOf(subject, x) \in Nat
               /\ TimeOf(subject, x)' \in Nat
               /\ TimeOf(subject, x) <= TimeOf(subject, x)'
               /\ x \in MessageId \cup Conversation
    <2>1. PICK s \in Subject : s = subject
      BY <1>1
    <2>2. /\ Lasting(s, x)' /\ TimeOf(s, x) <= TimeOf(s, x)'
      BY <1>1, <1>2, <2>1, TimeOfServe
    <2>3. TimeOf(s, x) \in Nat /\ x \in MessageId \cup Conversation
      BY <1>1, <1>2, <2>1, TimeOfType
    <2>4. TimeOf(s, x)' \in Nat
      <3>1. CASE s = List
        BY <2>2, <3>1 DEF Timed, Clocked, Lasting, TimeOf
      <3>2. CASE s # List
        BY <1>1, <1>2, <2>1, <2>3, <3>2, TimeOfServe
      <3> QED BY <3>1, <3>2
    <2> QED BY <1>1, <2>1, <2>2, <2>3, <2>4
  <1>3. ASSUME NEW row \in Rows(subject)', Lasting(subject, row.id)
        PROVE  RowOf(subject, row.id) \in Rows(subject) /\ row.at = TimeOf(subject, row.id)'
    <2>1. PICK s \in Subject : s = subject
      BY <1>1
    <2>2. row \in Rows(s)' /\ Lasting(s, row.id)
      BY <1>1, <1>3, <2>1
    <2> QED BY <1>1, <2>1, <2>2, RowStays
  <1>4. WalkTypes'
    <2>1. \A row \in begun : /\ row.at \in Nat /\ row.at <= TimeOf(subject, row.id)
                              /\ Lasting(subject, row.id)
      BY DEF Walked, WalkTypes
    <2>2. \A row \in begun : row.at \in Nat /\ row.at <= TimeOf(subject, row.id)'
      BY <1>2, <2>1
    <2>3. \A row \in begun \cup returned : Lasting(subject, row.id)'
      BY <1>2 DEF Walked, WalkTypes
    <2> QED BY <1>1, <2>2, <2>3 DEF Walked, WalkTypes
  <1>5. BehindCursor'
    <2> SUFFICES ASSUME stage # "end", NEW row \in returned
                 PROVE  ~Beyond(RowOf(subject, row.id))'
      BY <1>1 DEF BehindCursor
    <2>1. ~Beyond(RowOf(subject, row.id)) /\ Lasting(subject, row.id)
      BY DEF Walked, BehindCursor, WalkTypes
    <2>2. cursor # NoCursor /\ cursor.at \in Nat
      BY <2>1 DEF Beyond, Walked, WalkTypes
    <2> QED BY <1>1, <1>2, <2>1, <2>2 DEF Beyond, RowOf
  <1>6. FinerIsOld'
    <2> SUFFICES ASSUME stage # "idle", NEW row \in Rows(subject)', row.at % Ms # 0
                 PROVE  row \in begun
      BY <1>1 DEF FinerIsOld
    <2>1. PICK s \in Subject : s = subject
      BY <1>1
    <2>2. row \in Rows(s)'
      BY <1>1, <2>1
    <2>3. CASE s # List
      <3>1. PICK m \in messages' : row = [id |-> <<m.req, m.sender>>, at |-> CreatedAt(m)']
        BY <2>2, <2>3 DEF Rows
      <3>2. m.req \in Request
        BY DEF Timed, Accounted, Inductive, TypeOK, Message
      <3>3. stamp'[m.req] \in Nat /\ stamp'[m.req] % Ms = 0
        BY <3>2 DEF Timed, Clocked
      <3>4. stamp'[m.req] % Ms = 0 /\ (stamp'[m.req] + Lead * Ms) % Ms = 0
        BY <3>3, StampAssumption DEF Ms
      <3> QED BY <3>1, <3>4 DEF CreatedAt
    <2>4. CASE s = List
      <3>1. PICK c \in Conversation : /\ conv'[c] # NoRow /\ conv'[c].owner = Reader
                                      /\ row = [id |-> c, at |-> lastMessageAt'[c]]
        BY <2>2, <2>4 DEF Rows
      <3>2. /\ lastMessageAt \in [Conversation -> Nat] /\ conv \in [Conversation -> Row \cup {NoRow}]
            /\ \A r \in Request : /\ stamp[r] % Ms = 0 /\ (stamp[r] + Lead * Ms) % Ms = 0
                                   /\ Conv(r) \in Conversation
        <4>1. \A r \in Request : stamp[r] \in Nat /\ stamp[r] % Ms = 0
          BY <1>1 DEF Timed, Clocked
        <4>2. \A r \in Request : (stamp[r] + Lead * Ms) % Ms = 0
          BY <4>1, StampAssumption DEF Ms
        <4> QED BY <1>1, <4>1, <4>2, CallType DEF Timed, Clocked, Accounted, Inductive, TypeOK
      <3>3. ASSUME NEW r \in Request, Exchange(r) \/ Creation(r) PROVE c # Conv(r)
        <4>1. lastMessageAt'[Conv(r)] \in {stamp[r], stamp[r] + Lead * Ms}
          BY <3>2, <3>3 DEF Exchange, Creation
        <4> QED BY <3>1, <3>2, <4>1
      <3>4. ASSUME NEW r \in Request, Exchange(r) \/ Creation(r) \/ Deletion(r)
            PROVE  /\ lastMessageAt'[c] = lastMessageAt[c]
                   /\ conv[c] # NoRow /\ conv[c].owner = Reader
        BY <3>1, <3>2, <3>3, <3>4 DEF Exchange, Creation, Deletion, SameOwners
      <3>5. /\ lastMessageAt'[c] = lastMessageAt[c]
            /\ conv[c] # NoRow /\ conv[c].owner = Reader
        BY <1>1, <3>1, <3>4, ServeChanges DEF SameOwners
      <3>6. row \in Rows(subject)
        BY <2>1, <2>4, <3>1, <3>5 DEF Rows
      <3> QED BY <3>6 DEF Walked, FinerIsOld
    <2> QED BY <2>3, <2>4
  <1>7. WalkSkipsNothing'
    <2> SUFFICES ASSUME NEW row \in begun, row \in Rows(subject)'
                 PROVE  \/ row.id \in Ids(returned)
                        \/ stage # "end" /\ Beyond(row)
                        \/ BlurredBySeed(row)
      <3>1. ASSUME NEW row PROVE Beyond(row)' = Beyond(row) /\ BlurredBySeed(row)' = BlurredBySeed(row)
        BY <1>1 DEF Beyond, BlurredBySeed, CursorOf
      <3> QED BY <1>1, <3>1 DEF WalkSkipsNothing, Ids
    <2>1. row.at \in Nat /\ row.at <= TimeOf(subject, row.id) /\ Lasting(subject, row.id)
      BY DEF Walked, WalkTypes
    <2>2. RowOf(subject, row.id) \in Rows(subject) /\ row.at = TimeOf(subject, row.id)'
      BY <1>3, <2>1
    <2>3. row.at = TimeOf(subject, row.id)
      BY <1>2, <2>1, <2>2
    <2>4. row = RowOf(subject, row.id)
      <3>1. PICK s \in Subject : s = subject
        BY <1>1
      <3>2. \E x, t : row = [id |-> x, at |-> t]
        BY <1>1, <3>1 DEF Rows
      <3> QED BY <2>3, <3>2 DEF RowOf
    <2> QED BY <2>2, <2>4 DEF Walked, WalkSkipsNothing
  <1> QED BY <1>4, <1>5, <1>6, <1>7 DEF Walked

\* Rows and their order stay as they are while the service does nothing.
LEMMA RowsUnchanged ==
    ASSUME UNCHANGED <<vars, stamp, lastMessageAt, rank>>
    PROVE  /\ \A s : Rows(s)' = Rows(s)
           /\ \A s, x : /\ RowOf(s, x)' = RowOf(s, x) /\ TimeOf(s, x)' = TimeOf(s, x)
                        /\ Lasting(s, x)' = Lasting(s, x)
           /\ \A x, y : Newer(x, y)' = Newer(x, y)
  <1>1. UNCHANGED <<pc, conv, messages>>
    BY DEF vars, store
  <1>2. ASSUME NEW s PROVE Rows(s)' = Rows(s)
    BY <1>1 DEF Rows, CreatedAt
  <1>3. ASSUME NEW s, NEW x
        PROVE  /\ RowOf(s, x)' = RowOf(s, x) /\ TimeOf(s, x)' = TimeOf(s, x)
               /\ Lasting(s, x)' = Lasting(s, x)
    BY <1>1 DEF RowOf, TimeOf, Lasting
  <1>4. ASSUME NEW x, NEW y PROVE Newer(x, y)' = Newer(x, y)
    BY DEF Newer
  <1> QED BY <1>2, <1>3, <1>4

\* Two rows of a list are in one order or the other.
LEMMA NewerIsTotal ==
    ASSUME Walked, NEW x \in Rows(subject), NEW y \in Rows(subject), x # y
    PROVE  /\ Newer(x, y) \/ Newer(y, x)
           /\ \A z \in Rows(subject) : Newer(z, x) /\ Newer(x, y) => Newer(z, y)
  <1>1. PICK s \in Subject : s = subject
    BY DEF Walked, WalkTypes
  <1>2. \A z \in Rows(subject) : /\ z = RowOf(subject, z.id) /\ z.at \in Nat
                                 /\ z.id \in MessageId \cup Conversation
    BY <1>1, RowShown, TimeOfType DEF Walked
  <1>3. rank \in [MessageId \cup Conversation -> Nat]
        /\ \A i, j \in MessageId \cup Conversation : rank[i] = rank[j] => i = j
    BY IdAssumption DEF Walked, WalkTypes
  <1>4. x.id # y.id
    BY <1>2
  <1>5. \A z \in Rows(subject) : rank[z.id] \in Nat
    BY <1>2, <1>3
  <1>6. rank[x.id] # rank[y.id]
    BY <1>2, <1>3, <1>4
  <1> QED BY <1>2, <1>5, <1>6 DEF Newer

\* The rows that a page leaves out are older than every row on it.
LEMMA PageOrder ==
    ASSUME Walked, NEW last \in First(Limit), NEW row \in Ahead \ First(Limit)
    PROVE  Newer(last, row)
  <1>1. Ahead \subseteq Rows(subject) /\ last \in Ahead /\ row \in Ahead
    BY DEF Ahead, First
  <1>2. IsFiniteSet(Ahead)
    <2>1. PICK s \in Subject : s = subject
      BY DEF Walked, WalkTypes
    <2> QED BY <1>1, <2>1, RowsFinite, FS_Subset DEF Walked
  <1>3. last # row
    OBVIOUS
  <1>4. ASSUME Newer(row, last) PROVE FALSE
    <2> DEFINE before(x) == {y \in Ahead : Newer(y, x)}
    <2>1. before(row) \subseteq before(last)
      BY <1>1, <1>3, <1>4, NewerIsTotal
    <2>2. Cardinality(before(last)) < Limit
      BY DEF First
    <2>3. ~(Cardinality(before(row)) < Limit)
      BY <1>1 DEF First
    <2>4. IsFiniteSet(before(last))
      BY <1>2, FS_Subset
    <2>5. /\ Cardinality(before(row)) <= Cardinality(before(last))
          /\ IsFiniteSet(before(row))
      BY <2>1, <2>4, FS_Subset
    <2>6. Cardinality(before(row)) \in Nat /\ Cardinality(before(last)) \in Nat
      BY <2>4, <2>5, FS_CardinalityType
    <2> QED BY <2>2, <2>3, <2>5, <2>6, StampAssumption
  <1> QED BY <1>1, <1>3, <1>4, NewerIsTotal

\* The cursor of a row is at most a millisecond's part behind it.
LEMMA CursorIs ==
    ASSUME NEW row, row.at \in Nat
    PROVE  /\ CursorOf(row).id = row.id /\ CursorOf(row).at \in Nat
           /\ CursorOf(row).at <= row.at
           /\ row.at % Ms = 0 => CursorOf(row).at = row.at
           /\ CursorOf(row) = [id |-> row.id, at |-> CursorOf(row).at]
  BY DEF CursorOf, Ms

LEMMA WalkedPage == Walked /\ Page => BehindCursor' /\ WalkSkipsNothing' /\ WalkTypes'
  <1> SUFFICES ASSUME Walked, Page PROVE BehindCursor' /\ WalkSkipsNothing' /\ WalkTypes'
    OBVIOUS
  <1>1. /\ UNCHANGED <<vars, clock, stamp, lastMessageAt, rank, subject, begun>>
        /\ stage = "page" /\ stage' \in {"page", "guard"}
        /\ returned' = returned \cup First(Limit)
    BY DEF Page, written
  <1>2. PICK last \in First(Limit) : /\ \A row \in First(Limit) \ {last} : Newer(row, last)
                                     /\ cursor' = CursorOf(last)
    BY DEF Page
  <1>3. PICK s \in Subject : s = subject
    BY DEF Walked, WalkTypes
  <1>4. /\ First(Limit) \subseteq Ahead /\ Ahead \subseteq Rows(subject) /\ last \in Ahead
        /\ \A row \in Ahead : Beyond(row)
    BY DEF First, Ahead
  <1>5. \A row \in Rows(subject) :
           /\ row = RowOf(subject, row.id) /\ row.at = TimeOf(subject, row.id)
           /\ Lasting(subject, row.id)
    BY <1>3, RowShown DEF Walked
  <1>6. \A x : Lasting(subject, x) =>
           TimeOf(subject, x) \in Nat /\ x \in MessageId \cup Conversation /\ rank[x] \in Nat
    <2>1. rank \in [MessageId \cup Conversation -> Nat]
      BY IdAssumption DEF Walked, WalkTypes
    <2> QED BY <1>3, <2>1, TimeOfType DEF Walked
  <1>7. last.at \in Nat /\ last.id \in MessageId \cup Conversation /\ rank[last.id] \in Nat
    BY <1>4, <1>5, <1>6
  <1>8. /\ cursor'.id = last.id /\ cursor'.at \in Nat /\ cursor'.at <= last.at
        /\ last.at % Ms = 0 => cursor'.at = last.at
        /\ cursor' \in [id : MessageId \cup Conversation, at : Nat]
    BY <1>2, <1>7, CursorIs
  <1>9. cursor' # NoCursor
    BY <1>8, WalkAssumption
  <1>10. ASSUME NEW row
         PROVE  Beyond(row)' <=> \/ row.at < cursor'.at
                                 \/ row.at = cursor'.at /\ rank[row.id] < rank[last.id]
    BY <1>1, <1>8, <1>9 DEF Beyond
  <1>11. BehindCursor'
    <2> SUFFICES ASSUME NEW row \in returned \cup First(Limit)
                 PROVE  ~Beyond(RowOf(subject, row.id))'
      BY <1>1, RowsUnchanged DEF BehindCursor
    <2>0. PICK now : now = RowOf(subject, row.id)
      OBVIOUS
    <2>1. now.id = row.id /\ now.at = TimeOf(subject, row.id) /\ RowOf(subject, row.id)' = now
      <3>1. RowOf(subject, row.id)' = RowOf(subject, row.id)
        BY <1>1, RowsUnchanged
      <3> QED BY <2>0, <3>1 DEF RowOf
    <2>2. CASE row \in First(Limit)
      <3>1. now = row /\ now.at \in Nat /\ rank[row.id] \in Nat
        BY <1>4, <1>5, <1>6, <2>0, <2>2
      <3>2. row = last \/ Newer(row, last)
        BY <1>2, <2>2
      <3>3. \/ now.at > last.at
            \/ now.at = last.at /\ rank[row.id] >= rank[last.id]
        BY <1>7, <3>1, <3>2 DEF Newer
      <3>4. ~(\/ now.at < cursor'.at
              \/ now.at = cursor'.at /\ rank[row.id] < rank[last.id])
        BY <1>7, <1>8, <3>1, <3>3
      <3> QED BY <1>1, <1>8, <1>9, <2>1, <3>4 DEF Beyond
    <2>3. CASE row \in returned
      <3>1. ~Beyond(now) /\ Lasting(subject, row.id)
        BY <1>1, <2>0, <2>3 DEF Walked, BehindCursor, WalkTypes
      <3>2. now.at \in Nat /\ rank[row.id] \in Nat
        BY <1>6, <2>1, <3>1
      <3>3. /\ cursor # NoCursor
            /\ ~(now.at < cursor.at)
            /\ ~(now.at = cursor.at /\ rank[row.id] < rank[cursor.id])
        BY <2>1, <3>1 DEF Beyond
      <3>4. cursor.at \in Nat /\ rank[cursor.id] \in Nat
        <4>1. cursor \in [id : MessageId \cup Conversation, at : Nat]
          BY <3>3 DEF Walked, WalkTypes
        <4>2. rank \in [MessageId \cup Conversation -> Nat]
          BY IdAssumption DEF Walked, WalkTypes
        <4> QED BY <4>1, <4>2
      <3>5. last.at < cursor.at \/ (last.at = cursor.at /\ rank[last.id] < rank[cursor.id])
        BY <1>4, <3>3 DEF Beyond
      <3>6. ~(\/ now.at < cursor'.at
              \/ now.at = cursor'.at /\ rank[row.id] < rank[last.id])
        BY <1>7, <1>8, <3>2, <3>3, <3>4, <3>5
      <3> QED BY <1>1, <1>8, <1>9, <2>1, <3>6 DEF Beyond
    <2> QED BY <2>2, <2>3
  <1>12. WalkSkipsNothing'
    <2> SUFFICES ASSUME NEW row \in begun, row \in Rows(subject)
                 PROVE  \/ row.id \in Ids(returned')
                        \/ Beyond(row)'
                        \/ BlurredBySeed(row)
      <3>1. Rows(subject)' = Rows(subject)
        BY <1>1, RowsUnchanged
      <3>2. \A x : BlurredBySeed(x)' = BlurredBySeed(x)
        BY <1>1 DEF BlurredBySeed, CursorOf
      <3> QED BY <1>1, <3>1, <3>2 DEF WalkSkipsNothing, Ids
    <2>1. \/ row.id \in Ids(returned) \/ Beyond(row) \/ BlurredBySeed(row)
      BY DEF Walked, WalkSkipsNothing
    <2>2. row.id \in Ids(returned) => row.id \in Ids(returned')
      BY <1>1 DEF Ids
    <2>3. ASSUME Beyond(row), row \notin First(Limit) PROVE Beyond(row)' \/ BlurredBySeed(row)
      <3>1. row \in Ahead /\ Newer(last, row)
        BY <2>3, <1>2, PageOrder DEF Ahead
      <3>2. row.at \in Nat /\ rank[row.id] \in Nat
        BY <1>5, <1>6
      <3>3. row.at < last.at \/ (row.at = last.at /\ rank[row.id] < rank[last.id])
        BY <1>7, <3>1, <3>2 DEF Newer
      <3>4. CASE last.at % Ms = 0
        BY <1>8, <1>10, <3>3, <3>4
      <3>5. CASE last.at % Ms # 0
        <4>1. last \in begun
          BY <1>1, <1>4, <3>5 DEF Walked, FinerIsOld
        <4>2. row # last
          BY <1>2, <2>3
        <4>3. row.at <= last.at
          BY <1>7, <3>2, <3>3
        <4>4. row.at < cursor'.at \/ cursor'.at <= row.at
          BY <1>8, <3>2
        <4>5. cursor'.at = CursorOf(last).at
          BY <1>2
        <4> QED BY <1>10, <3>5, <4>1, <4>2, <4>3, <4>4, <4>5 DEF BlurredBySeed
      <3> QED BY <3>4, <3>5
    <2>4. row \in First(Limit) => row.id \in Ids(returned')
      BY <1>1 DEF Ids
    <2> QED BY <2>1, <2>2, <2>3, <2>4
  <1>13. WalkTypes'
    <2>1. \A row \in First(Limit) : Lasting(subject, row.id)
      BY <1>4, <1>5
    <2>2. \A x : /\ TimeOf(subject, x)' = TimeOf(subject, x)
                 /\ Lasting(subject, x)' = Lasting(subject, x)
      BY <1>1, RowsUnchanged
    <2> QED BY <1>1, <1>8, <2>1, <2>2 DEF Walked, WalkTypes
  <1> QED BY <1>11, <1>12, <1>13

LEMMA WalkedOther ==
    Walked /\ Timed' /\ [TimelineNext]_timeline /\ ~Serve => Walked'
  <1> SUFFICES ASSUME Walked, Timed', [TimelineNext]_timeline, ~Serve PROVE Walked'
    OBVIOUS
  <1>1. UNCHANGED <<vars, stamp, lastMessageAt, rank>>
    BY OtherSteps DEF timeline, written
  <1>2. /\ \A s : Rows(s)' = Rows(s)
        /\ \A s, x : /\ RowOf(s, x)' = RowOf(s, x) /\ TimeOf(s, x)' = TimeOf(s, x)
                     /\ Lasting(s, x)' = Lasting(s, x)
    BY <1>1, RowsUnchanged
  <1>3. ASSUME UNCHANGED <<subject, cursor, returned, begun>>, stage' \in {"page", "refused", stage},
               stage # "idle" \/ stage' = stage, stage # "end" \/ stage' = stage
        PROVE  Walked'
    <2>1. WalkTypes'
      BY <1>1, <1>2, <1>3 DEF Walked, WalkTypes
    <2>2. \A x : Beyond(x)' = Beyond(x) /\ BlurredBySeed(x)' = BlurredBySeed(x)
      BY <1>1, <1>3 DEF Beyond, BlurredBySeed, CursorOf
    <2>3. FinerIsOld'
      BY <1>2, <1>3 DEF Walked, FinerIsOld
    <2>4. BehindCursor'
      <3>1. \A row \in returned : Beyond(RowOf(subject, row.id))' = Beyond(RowOf(subject, row.id))
        BY <1>1, <1>2, <1>3 DEF Beyond
      <3> QED BY <1>3, <3>1 DEF Walked, BehindCursor
    <2>5. WalkSkipsNothing'
      BY <1>2, <1>3, <2>2 DEF Walked, WalkSkipsNothing, Ids
    <2> QED BY <2>1, <2>3, <2>4, <2>5 DEF Walked
  <1>4. CASE UNCHANGED walk
    BY <1>3, <1>4 DEF walk
  <1>5. CASE GuardPasses \/ GuardRefuses
    BY <1>3, <1>5 DEF GuardPasses, GuardRefuses
  <1>6. ASSUME NEW s \in Subject, Begin(s) PROVE Walked'
    <2>1. /\ subject' = s /\ begun' = Rows(s) /\ cursor' = NoCursor /\ returned' = {}
          /\ stage' \in {"page", "guard"}
      BY <1>6 DEF Begin, Walked, WalkTypes
    <2>2. \A row \in Rows(s) : /\ Lasting(s, row.id) /\ row.at = TimeOf(s, row.id)
                              /\ TimeOf(s, row.id) \in Nat
      BY RowShown, TimeOfType DEF Walked
    <2>3. WalkTypes'
      BY <1>1, <1>2, <2>1, <2>2 DEF Walked, WalkTypes
    <2>4. BehindCursor'
      BY <2>1 DEF BehindCursor
    <2>5. FinerIsOld'
      BY <1>2, <2>1 DEF FinerIsOld
    <2>6. WalkSkipsNothing'
      BY <2>1 DEF WalkSkipsNothing, Beyond
    <2> QED BY <2>3, <2>4, <2>5, <2>6 DEF Walked
  <1>7. CASE Page
    <2>1. FinerIsOld'
      BY <1>2, <1>7 DEF Page, Walked, FinerIsOld
    <2> QED BY <1>7, <2>1, WalkedPage DEF Walked
  <1>8. CASE LastPage
    <2>1. /\ stage = "page" /\ stage' = "end" /\ returned' = returned \cup Ahead
          /\ UNCHANGED <<subject, cursor, begun>>
      BY <1>8 DEF LastPage
    <2>2. \A row \in Ahead : Lasting(subject, row.id)
      <3>1. PICK s \in Subject : s = subject
        BY DEF Walked, WalkTypes
      <3> QED BY <3>1, RowShown DEF Ahead, Walked
    <2>3. WalkTypes'
      BY <1>1, <1>2, <2>1, <2>2 DEF Walked, WalkTypes
    <2>4. BehindCursor'
      BY <2>1 DEF BehindCursor
    <2>5. FinerIsOld'
      BY <1>2, <2>1 DEF Walked, FinerIsOld
    <2>6. WalkSkipsNothing'
      <3>1. \A x : BlurredBySeed(x)' = BlurredBySeed(x)
        BY <2>1 DEF BlurredBySeed, CursorOf
      <3>2. ASSUME NEW row \in begun, row \in Rows(subject)
            PROVE  row.id \in Ids(returned') \/ BlurredBySeed(row)
        BY <2>1, <3>2 DEF Walked, WalkSkipsNothing, Ahead, Ids
      <3> QED BY <1>2, <2>1, <3>1, <3>2 DEF WalkSkipsNothing, Ids
    <2> QED BY <2>3, <2>4, <2>5, <2>6 DEF Walked
  <1>9. CASE Tick
    BY <1>4, <1>9 DEF Tick
  <1> QED BY <1>4, <1>5, <1>6, <1>7, <1>8, <1>9 DEF TimelineNext, timeline

LEMMA WalkedInit == TimelineInit => Walked
  <1> SUFFICES ASSUME TimelineInit PROVE Walked
    OBVIOUS
  <1>1. WalkTypes
    BY DEF TimelineInit, WalkTypes, Subject
  <1>2. BehindCursor /\ FinerIsOld /\ WalkSkipsNothing
    BY DEF TimelineInit, BehindCursor, FinerIsOld, WalkSkipsNothing
  <1> QED BY <1>1, <1>2, TimedInit DEF Walked

\* The invariant that paging rests on.
THEOREM WalkedInvariant == TimelineSpec => []Walked
  <1>1. Walked /\ [TimelineNext]_timeline => Walked'
    BY TimedStep, WalkedServe, WalkedOther DEF Walked
  <1> QED BY WalkedInit, <1>1, PTL DEF TimelineSpec

\* Whatever is written between two pages, no row that was there and stayed is
\* missed, unless the seed's finer stamps blur the cursor.
THEOREM NothingIsSkipped == TimelineSpec => []WalkSkipsNothing
  <1>1. Walked => WalkSkipsNothing
    BY DEF Walked
  <1> QED BY <1>1, WalkedInvariant, PTL

\* Whatever is written between two pages, no row is returned again.
THEOREM NothingIsRepeated == TimelineSpec => []NothingTwice
  <1>1. ASSUME Walked PROVE NothingTwice
    <2> SUFFICES ASSUME stage # "end", NEW row \in Rows(subject), NEW old \in returned,
                        old.id = row.id
                 PROVE  ~Beyond(row)
      BY DEF NothingTwice, Ids
    <2>1. PICK s \in Subject : s = subject
      BY <1>1 DEF Walked, WalkTypes
    <2>2. row = RowOf(subject, old.id)
      BY <1>1, <2>1, RowShown DEF Walked
    <2> QED BY <1>1, <2>2 DEF Walked, BehindCursor
  <1> QED BY <1>1, WalkedInvariant, PTL
=============================================================================
