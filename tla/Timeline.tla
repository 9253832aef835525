------------------------------- MODULE Timeline -------------------------------
(***************************************************************************)
(* Time stamps and pages: ConversationService with a clock and a client    *)
(* that walks through the pages of getConversationMessages or              *)
(* getUserConversations while the service writes.                          *)
(*                                                                         *)
(* Rows are read newest first, by time stamp and id, and the next page     *)
(* continues after the last row of the one before (the cursor).  A message *)
(* keeps its stamp; a conversation moves to the front when it is written   *)
(* to.  Stamps count half milliseconds: the service's new Date() has whole *)
(* milliseconds, a DEFAULT CURRENT_TIMESTAMP of the seed has finer ones.   *)
(***************************************************************************)
EXTENDS ConversationService

CONSTANTS
    Lead,       \* how far the bot's stamp is ahead, in milliseconds
    MaxClock,   \* bound on the clock, in milliseconds
    Seeded,     \* conversations stamped by the database
    Reader,     \* the user who pages
    Limit,      \* rows of a page
    IdOrders,   \* the orders that random ids may have
    List,       \* the list of conversations, as what a walk goes through
    NoCursor

Ms == 2         \* stamps per millisecond

MessageId == Request \X {"user", "bot"}
Subject == Conversation \cup {List}

ASSUME ReaderAssumption == Reader \in User /\ Seeded \subseteq Conversation
ASSUME StampAssumption == Lead \in Nat \ {0} /\ MaxClock \in Nat /\ Limit \in Nat \ {0}
ASSUME IdAssumption ==
    \A order \in IdOrders :
        /\ order \in [MessageId \cup Conversation -> Nat]
        /\ \A x, y \in MessageId \cup Conversation : order[x] = order[y] => x = y
ASSUME WalkAssumption ==
    /\ List \notin Conversation
    /\ IsFiniteSet(Conversation)
    /\ NoCursor \notin [id : MessageId \cup Conversation, at : Nat]

VARIABLES
    clock,          \* time, the same for all instances
    stamp,          \* the time that sendMessage or createConversation took
    lastMessageAt,  \* conversations.last_message_at
    rank,           \* the order of ids
    stage,          \* what the walk awaits, or how it ended
    subject,        \* what it goes through
    cursor,         \* last row of the page before, as the client knows it
    returned,       \* rows of the pages so far
    begun           \* rows that were there when the walk began

written == <<stamp, lastMessageAt>>
walk == <<stage, subject, cursor, returned, begun>>
timeline == <<vars, clock, written, rank, walk>>

TimelineInit ==
    /\ Init
    /\ clock = 0
    /\ stamp = [r \in Request |-> 0]
    /\ lastMessageAt = [c \in Conversation |-> IF c \in Seeded THEN 1 ELSE 0]
    /\ rank \in IdOrders
    /\ stage = "idle" /\ subject = List /\ cursor = NoCursor
    /\ returned = {} /\ begun = {}

-----------------------------------------------------------------------------
(* Writing: what the service's steps do to the stamps                      *)

\* A slip: the time is taken when the call is made.
TakesStampEarly(r) == pc[r] = "idle" /\ pc'[r] # "idle"

\* const now = new Date(): in sendMessage under the row lock, in
\* createConversation before the statement.
TakesStamp(r) ==
    IF Kind(r) = "create" THEN pc[r] = "idle" /\ pc'[r] # "idle"
    ELSE pc[r] = "lock" /\ pc'[r] = "user"

CreatedAt(m) == IF m.sender = "user" THEN stamp[m.req] ELSE stamp[m.req] + Lead * Ms

\* The stamp that a step writes to last_message_at, if any: that of the
\* conversation's creation or of the bot's message.
LastWritten(c) ==
    {stamp[r] : r \in {q \in Request : /\ Kind(q) = "create" /\ Conv(q) = c
                                       /\ conv[c] = NoRow /\ conv'[c] # NoRow}}
    \cup {CreatedAt(m) : m \in {n \in messages' \ messages : n.convo = c /\ n.sender = "bot"}}

Serve ==
    /\ Next
    /\ stamp' = [r \in Request |-> IF TakesStamp(r) THEN clock * Ms ELSE stamp[r]]
    /\ lastMessageAt' = [c \in Conversation |->
         IF LastWritten(c) = {} THEN lastMessageAt[c] ELSE CHOOSE t \in LastWritten(c) : TRUE]
    /\ UNCHANGED <<clock, rank, walk>>

Tick ==
    /\ clock < MaxClock
    /\ clock' = clock + 1
    /\ UNCHANGED <<vars, written, rank, walk>>

-----------------------------------------------------------------------------
(* Reading: one page after the other                                       *)

Rows(s) ==
    IF s = List
    THEN {[id |-> c, at |-> lastMessageAt[c]] :
            c \in {d \in Conversation : conv[d] # NoRow /\ conv[d].owner = Reader}}
    ELSE {[id |-> <<m.req, m.sender>>, at |-> CreatedAt(m)] :
            m \in {n \in messages : n.convo = s}}

\* ORDER BY ... DESC, id DESC
Newer(x, y) == \/ x.at > y.at
               \/ x.at = y.at /\ rank[x.id] > rank[y.id]

\* The cursor is the page's last row, its stamp written as an ISO string.
CursorOf(row) == [id |-> row.id, at |-> row.at - (row.at % Ms)]

\* A slip: rows with the cursor's stamp are taken to be read.
BeyondStrict(row) == cursor # NoCursor => row.at < cursor.at

\* A slip: so are rows with the cursor's stamp, and the cursor's row again.
BeyondInclusive(row) ==
    cursor # NoCursor =>
        \/ row.at < cursor.at
        \/ row.at = cursor.at /\ rank[row.id] <= rank[cursor.id]

\* (at < $2) OR (at = $2 AND id < $3)
Beyond(row) ==
    cursor # NoCursor =>
        \/ row.at < cursor.at
        \/ row.at = cursor.at /\ rank[row.id] < rank[cursor.id]

Begin(s) ==
    /\ stage = "idle"
    /\ stage' = IF s = List THEN "page" ELSE "guard"
    /\ subject' = s
    /\ begun' = Rows(s)
    /\ UNCHANGED <<vars, clock, written, rank, cursor, returned>>

\* authorizeConversationOwnership, before each page of messages.
GuardPasses ==
    /\ stage = "guard"
    /\ conv[subject] # NoRow /\ conv[subject].owner = Reader
    /\ stage' = "page"
    /\ UNCHANGED <<vars, clock, written, rank, subject, cursor, returned, begun>>

GuardRefuses ==
    /\ stage = "guard"
    /\ conv[subject] # NoRow => conv[subject].owner # Reader
    /\ stage' = "refused"
    /\ UNCHANGED <<vars, clock, written, rank, subject, cursor, returned, begun>>

Ahead == {row \in Rows(subject) : Beyond(row)}
First(n) == {x \in Ahead : Cardinality({y \in Ahead : Newer(y, x)}) < n}

\* LIMIT limit + 1, of which the last row only says that there is more.
Page ==
    /\ stage = "page"
    /\ Cardinality(Ahead) > Limit
    /\ stage' = IF subject = List THEN "page" ELSE "guard"
    /\ returned' = returned \cup First(Limit)
    /\ \E last \in First(Limit) :
         /\ \A row \in First(Limit) \ {last} : Newer(row, last)
         /\ cursor' = CursorOf(last)
    /\ UNCHANGED <<vars, clock, written, rank, subject, begun>>

LastPage ==
    /\ stage = "page"
    /\ Cardinality(Ahead) <= Limit
    /\ stage' = "end"
    /\ returned' = returned \cup Ahead
    /\ UNCHANGED <<vars, clock, written, rank, subject, cursor, begun>>

-----------------------------------------------------------------------------

TimelineNext ==
    \/ Serve \/ Tick
    \/ \E s \in Subject : Begin(s)
    \/ GuardPasses \/ GuardRefuses \/ Page \/ LastPage

TimelineSpec == TimelineInit /\ [][TimelineNext]_timeline

-----------------------------------------------------------------------------
(* Properties                                                              *)

Ids(rows) == {row.id : row \in rows}

\* A walk skips nothing: a row that was there when it began, and still is
\* there as it was, has been returned or is yet to come, and after the last
\* page has been returned, whatever is written between two pages.  Messages
\* never change, so none is missed; a conversation may be when it moves.  The
\* exception is a row in the same millisecond as another that the seed stamped
\* more finely, which the cursor cannot tell (nextCursor of both functions).
BlurredBySeed(row) ==
    \E s \in begun \ {row} :
        s.at % Ms # 0 /\ CursorOf(s).at <= row.at /\ row.at <= s.at
WalkSkipsNothing ==
    \A row \in begun \cap Rows(subject) :
        \/ row.id \in Ids(returned)
        \/ stage # "end" /\ Beyond(row)
        \/ BlurredBySeed(row)

\* A walk returns nothing twice: what was returned is not ahead of the cursor
\* any more, although conversations are given new stamps meanwhile
\* (last_message_at = botTimestamp never goes back, as now is taken under the
\* row lock).
NothingTwice ==
    stage # "end" =>
        \A row \in Rows(subject) : row.id \in Ids(returned) => ~Beyond(row)

\* Reading by created_at differs from sequence_number by the bot's lead only:
\* messages of one sender are in order, an answer follows its question, and a
\* message is stamped at most Lead before one with a lower number.
TimeFollowsSequence ==
    \A m, n \in messages : m.convo = n.convo /\ m.seq < n.seq =>
        /\ CreatedAt(m) <= CreatedAt(n) + Lead * Ms
        /\ m.sender = n.sender => CreatedAt(m) <= CreatedAt(n)
        /\ m.req = n.req => CreatedAt(m) < CreatedAt(n)

\* The list is sorted by the newest message: last_message_at is the stamp of
\* one of the conversation's messages, and no message is newer, whatever order
\* the instances commit in.
ListedByNewest ==
    \A m \in messages :
        /\ CreatedAt(m) <= lastMessageAt[m.convo]
        /\ \E n \in messages : n.convo = m.convo /\ CreatedAt(n) = lastMessageAt[m.convo]
=============================================================================
