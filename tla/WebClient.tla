------------------------------- MODULE WebClient -------------------------------
(***************************************************************************)
(* The browser page src/public/app.js against the API.                     *)
(*                                                                         *)
(* Every handler of the page is an async function that goes on when the    *)
(* answer to its fetch arrives; nothing cancels a call, tells a late       *)
(* answer from a fresh one or forbids a click meanwhile.  calls holds the  *)
(* calls under way, oldest first, each with what its handler does next.    *)
(* The server serves a call in one step: ConversationLog is what its many  *)
(* steps amount to.                                                        *)
(***************************************************************************)
EXTENDS Naturals, FiniteSets, SequencesExt

CONSTANTS
    User,
    Alice,          \* whom the page logs in by itself
    Conversation,
    Key,            \* idempotency keys that the page draws
    Owner,          \* owner of each conversation there is, else Nothing
    Nothing,        \* null
    MaxClicks,      \* bound on what the user does
    MaxFailures     \* bound on calls that fail

ASSUME UserAssumption == Alice \in User
ASSUME OwnerAssumption == Owner \in [Conversation -> User \cup {Nothing}]
ASSUME NullAssumption == Nothing \notin User \cup Conversation \cup Key
ASSUME BoundAssumption == MaxClicks \in Nat /\ MaxFailures \in Nat

VARIABLES
    authToken,      \* the user whose token the page sends
    stored,         \* localStorage: the user whose token it keeps
    currentUser, currentConvoId,
    conversations,  \* the list: conversations with their message counts
    container,      \* messagesContainer: the exchanges shown
    lastKey,        \* lastUsedIdempotencyKey
    calls,          \* calls under way
    owner, store,   \* on the server: owners, and each conversation's exchanges
    disturbed,      \* calls were: unreliable (failed or overtaken), refused, a replay
    signedIn,       \* users the page has been signed in as
    clicks, failures

session == <<authToken, stored, currentUser>>
page == <<currentConvoId, conversations, container>>
server == <<owner, store>>
vars == <<session, page, lastKey, calls, server, disturbed, signedIn, clicks, failures>>

-----------------------------------------------------------------------------
(* Calls                                                                   *)

\* A call bears the token of its moment; then is the conversation that a new
\* conversation's handler selects after the list is loaded.  A call is refused
\* when its answer is not ok, or when none comes.
Request(kind, token, about, then) ==
    [kind |-> kind, token |-> token, about |-> about, then |-> then,
     answer |-> "pending", reply |-> Nothing]
Answered(call, answer, reply) == [call EXCEPT !.answer = answer, !.reply = reply]
LoadConversations(token, then) == Request("list", token, Nothing, then)
LoadMessages(token, c) == Request("messages", token, c, Nothing)
LogIn(u) == Request("login", authToken, u, Nothing)

\* DOMContentLoaded: a token that was kept is tried, else Alice logs in.
Init ==
    /\ stored \in User \cup {Nothing}
    /\ authToken = stored /\ currentUser = Nothing
    /\ currentConvoId = Nothing /\ conversations = {} /\ container = << >>
    /\ lastKey = Nothing
    /\ calls = << IF stored = Nothing THEN LogIn(Alice)
                  ELSE Request("me", stored, Nothing, Nothing) >>
    /\ owner = Owner
    /\ store = [c \in Conversation |-> IF Owner[c] = Nothing THEN << >> ELSE << c >>]
    /\ disturbed = {} /\ signedIn = {} /\ clicks = 0 /\ failures = 0

-----------------------------------------------------------------------------
(* The server                                                              *)

Listing(u) == {[id |-> c, count |-> Len(store[c])] : c \in {d \in Conversation : owner[d] = u}}
StoredIn(key) == {c \in Conversation : \E n \in DOMAIN store[c] : store[c][n] = key}

\* A send under a key already stored is replayed to the same user, whatever
\* conversation it is for; another user's fails on UNIQUE.
Accepted(call) ==
    /\ owner[call.about.convo] = call.token
    /\ \A c \in StoredIn(call.about.key) : owner[c] = call.token

\* Without a token the API answers 401.
Refuses(call) ==
    \/ call.token = Nothing /\ call.kind # "login"
    \/ call.kind = "messages" /\ owner[call.about] # call.token
    \/ call.kind = "send" /\ ~Accepted(call)

Executes(call) ==
    call.kind = "send" /\ ~Refuses(call) /\ StoredIn(call.about.key) = {}

Reply(call) ==
    CASE call.kind = "me"       -> call.token
      [] call.kind = "login"    -> call.about
      [] call.kind = "list"     -> Listing(call.token)
      [] call.kind = "create"   -> call.about
      [] call.kind = "messages" -> store[call.about]
      [] call.kind = "send"     -> call.about.key

Late(k) == \E j \in 1 .. k - 1 : calls[j].answer = "pending"

\* The API serves call k.
Serve(k) ==
    LET call == calls[k] IN
    /\ call.answer = "pending"
    /\ calls' = [calls EXCEPT ![k] = IF Refuses(call) THEN Answered(@, "refused", Nothing)
                                     ELSE Answered(@, "ok", Reply(call))]
    /\ owner' = IF call.kind = "create" /\ ~Refuses(call)
                THEN [owner EXCEPT ![call.about] = call.token] ELSE owner
    /\ store' = IF Executes(call)
                THEN [store EXCEPT ![call.about.convo] = Append(@, call.about.key)] ELSE store
    /\ disturbed' = disturbed \cup (IF Late(k) THEN {"unreliable"} ELSE {})
                              \cup (IF Refuses(call) THEN {"refused"} ELSE {})
    /\ UNCHANGED <<session, page, lastKey, signedIn, clicks, failures>>

\* The call fails before it is served, or its answer is lost.
Fail(k) ==
    /\ failures < MaxFailures
    /\ calls[k].answer # "refused"
    /\ calls' = [calls EXCEPT ![k] = Answered(@, "refused", Nothing)]
    /\ disturbed' = disturbed \cup {"unreliable"}
    /\ failures' = failures + 1
    /\ UNCHANGED <<session, page, lastKey, server, signedIn, clicks>>

-----------------------------------------------------------------------------
(* The page, when an answer arrives                                        *)

Ok(k, kind) == calls[k].kind = kind /\ calls[k].answer = "ok"
NotOk(k, kinds) == calls[k].kind \in kinds /\ calls[k].answer = "refused"

\* The answer to call k is handled, and the handler makes further calls.
Handled(k, further) ==
    /\ calls' = RemoveAt(calls, k) \o further
    /\ disturbed' = disturbed \cup (IF k > 1 THEN {"unreliable"} ELSE {})
    /\ UNCHANGED <<server, clicks, failures>>

Me(k) ==
    /\ Ok(k, "me")
    /\ Handled(k, << LoadConversations(authToken, Nothing) >>)
    /\ currentUser' = calls[k].reply
    /\ signedIn' = signedIn \cup {calls[k].reply}
    /\ UNCHANGED <<authToken, stored, page, lastKey>>

\* The token is dropped; without a user by now, Alice logs in.
MeFails(k) ==
    /\ NotOk(k, {"me"})
    /\ Handled(k, IF currentUser # Nothing THEN << >>
                         ELSE << Request("login", Nothing, Alice, Nothing) >>)
    /\ authToken' = Nothing /\ stored' = Nothing
    /\ UNCHANGED <<currentUser, signedIn, page, lastKey>>

\* A slip: the token of a new login is kept for the next visit only.
LoginKeepsOldToken(k) ==
    /\ Ok(k, "login")
    /\ Handled(k, << LoadConversations(calls[k].reply, Nothing) >>)
    /\ stored' = calls[k].reply /\ currentUser' = calls[k].reply
    /\ authToken' = IF authToken = Nothing THEN calls[k].reply ELSE authToken
    /\ signedIn' = signedIn \cup {calls[k].reply}
    /\ UNCHANGED <<page, lastKey>>

\* handleLogin and handleRegister; the conversation selected stays.
Login(k) ==
    /\ Ok(k, "login")
    /\ Handled(k, << LoadConversations(calls[k].reply, Nothing) >>)
    /\ authToken' = calls[k].reply /\ stored' = calls[k].reply
    /\ currentUser' = calls[k].reply
    /\ signedIn' = signedIn \cup {calls[k].reply}
    /\ UNCHANGED <<page, lastKey>>

\* Selecting c, for each of the list's conversations it selects in turn.
Selects(cs) ==
    /\ currentConvoId' = IF cs = << >> THEN currentConvoId ELSE Last(cs)
    /\ UNCHANGED <<session, container, lastKey, signedIn>>
Loads(cs) == [n \in DOMAIN cs |-> LoadMessages(authToken, cs[n])]
ThenSelect(k) == IF calls[k].then = Nothing THEN << >> ELSE << calls[k].then >>

\* The first of the list is selected if nothing is.
List(k) ==
    /\ Ok(k, "list")
    /\ conversations' = calls[k].reply
    /\ LET first == IF currentConvoId = Nothing THEN calls[k].reply ELSE {} IN
       \/ /\ first = {}
          /\ Handled(k, Loads(ThenSelect(k))) /\ Selects(ThenSelect(k))
       \/ \E row \in first :
            /\ Handled(k, Loads(<< row.id >> \o ThenSelect(k)))
            /\ Selects(<< row.id >> \o ThenSelect(k))

\* loadConversations swallows the error, and its caller goes on.
ListFails(k) ==
    /\ NotOk(k, {"list"})
    /\ Handled(k, Loads(ThenSelect(k))) /\ Selects(ThenSelect(k))
    /\ UNCHANGED conversations

Create(k) ==
    /\ Ok(k, "create")
    /\ Handled(k, << LoadConversations(authToken, calls[k].reply) >>)
    /\ UNCHANGED <<session, page, lastKey, signedIn>>

Messages(k) ==
    /\ Ok(k, "messages")
    /\ Handled(k, << >>)
    /\ container' = calls[k].reply
    /\ UNCHANGED <<session, currentConvoId, conversations, lastKey, signedIn>>

\* A slip: the list is not loaded again.
SendNoReload(k) ==
    /\ Ok(k, "send")
    /\ Handled(k, << >>)
    /\ container' = Append(container, calls[k].reply)
    /\ UNCHANGED <<session, currentConvoId, conversations, lastKey, signedIn>>

\* Both messages are rendered below what is shown by now.
Send(k) ==
    /\ Ok(k, "send")
    /\ Handled(k, << LoadConversations(authToken, Nothing) >>)
    /\ container' = Append(container, calls[k].reply)
    /\ UNCHANGED <<session, currentConvoId, conversations, lastKey, signedIn>>

\* catch: a banner at most.
OtherFails(k) ==
    /\ NotOk(k, {"login", "create", "messages", "send"})
    /\ Handled(k, << >>)
    /\ UNCHANGED <<session, page, lastKey, signedIn>>

Answer(k) ==
    \/ Me(k) \/ MeFails(k) \/ Login(k) \/ List(k) \/ ListFails(k)
    \/ Create(k) \/ Messages(k) \/ Send(k) \/ OtherFails(k)

-----------------------------------------------------------------------------
(* The page, when the user clicks                                          *)

Click(further) ==
    /\ clicks < MaxClicks
    /\ clicks' = clicks + 1
    /\ calls' = calls \o further
    /\ UNCHANGED <<session, conversations, server, signedIn, failures>>

ClickLogin(u) ==
    /\ Click(<< LogIn(u) >>)
    /\ UNCHANGED <<currentConvoId, container, lastKey, disturbed>>

ClickConversation(c) ==
    /\ \E row \in conversations : row.id = c
    /\ Click(<< LoadMessages(authToken, c) >>)
    /\ currentConvoId' = c
    /\ UNCHANGED <<container, lastKey, disturbed>>

\* The id is a fresh uuid of the server's; the button needs a user.
ClickNew(c) ==
    /\ currentUser # Nothing
    /\ owner[c] = Nothing
    /\ \A k \in DOMAIN calls : calls[k].kind = "create" => calls[k].about # c
    /\ Click(<< Request("create", authToken, c, Nothing) >>)
    /\ UNCHANGED <<currentConvoId, container, lastKey, disturbed>>

\* Keys are random, so that none is drawn twice.
Drawn(key) ==
    \/ StoredIn(key) # {} \/ lastKey = key
    \/ \E k \in DOMAIN calls : calls[k].kind = "send" /\ calls[k].about.key = key

SendOf(key) ==
    Request("send", authToken, [convo |-> currentConvoId, key |-> key], Nothing)

\* A slip: the message is shown before the answer.
SubmitShown(key) ==
    /\ currentUser # Nothing /\ currentConvoId # Nothing
    /\ ~Drawn(key)
    /\ Click(<< SendOf(key) >>)
    /\ lastKey' = key
    /\ container' = Append(container, key)
    /\ UNCHANGED <<currentConvoId, disturbed>>

Submit(key) ==
    /\ currentUser # Nothing /\ currentConvoId # Nothing
    /\ ~Drawn(key)
    /\ Click(<< SendOf(key) >>)
    /\ lastKey' = key
    /\ UNCHANGED <<currentConvoId, container, disturbed>>

\* The same with testIdempotencyToggle on: under the key used last.
SubmitReplay ==
    /\ currentUser # Nothing /\ currentConvoId # Nothing
    /\ lastKey # Nothing
    /\ Click(<< SendOf(lastKey) >>)
    /\ disturbed' = disturbed \cup {"replay"}
    /\ UNCHANGED <<currentConvoId, container, lastKey>>

-----------------------------------------------------------------------------

Next ==
    \/ \E k \in DOMAIN calls : Serve(k) \/ Fail(k) \/ Answer(k)
    \/ \E u \in User : ClickLogin(u)
    \/ \E c \in Conversation : ClickConversation(c) \/ ClickNew(c)
    \/ \E key \in Key : Submit(key)
    \/ SubmitReplay

Spec == Init /\ [][Next]_vars

-----------------------------------------------------------------------------
(* Properties                                                              *)

\* At rest the page is exact, though nothing relates an answer to the
\* selection of the moment: order is all that it needs.  When calls are
\* served and answered in the order they were made, none fails or is refused
\* and no key is sent twice, then the page ends with the messages of the
\* conversation selected and with the list as the server has it (loadMessages
\* replaces, the answer to a send appends).
UndisturbedIsExact ==
    calls = << >> /\ disturbed = {} =>
        /\ conversations = Listing(currentUser)
        /\ IF currentConvoId = Nothing THEN container = << >> /\ conversations = {}
           ELSE container = store[currentConvoId]

\* The page acts as the user it shows: without failures and overtaking the
\* token it sends and the one it keeps are the current user's, and the server
\* refuses a call only after two users were signed in (authToken, currentUser
\* and localStorage, set by three handlers that may overlap).
ActsAsShown ==
    "unreliable" \notin disturbed =>
        /\ currentUser # Nothing => authToken = currentUser /\ stored = currentUser
        /\ "refused" \in disturbed => Cardinality(signedIn) > 1

\* What the page shows is stored, even when calls fail, overtake each other
\* or are replayed, and belongs to a user who was signed in on it (renderMessage
\* is given answers only).
ShownIsStored ==
    \A n \in DOMAIN container :
        /\ StoredIn(container[n]) # {}
        /\ \A c \in StoredIn(container[n]) : owner[c] \in signedIn
=============================================================================
