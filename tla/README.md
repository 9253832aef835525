# ConvoScale in TLA+

ConvoScale (`src/`) is a chat backend: Node/Express processes that store
conversations in PostgreSQL and share Redis. A user sends a message, a rule-based
bot answers, and both are stored in one transaction. The specifications here model
the parts of it where concurrency and failure decide what is correct, TLC checks them
on small instances, and TLAPS proves the most important results for every instance.

Line numbers below are those of the files under `src/src/`, unless said otherwise.

## The system

| Component | State it keeps | Operations |
|---|---|---|
| conversation service `services/conversationService.js` | tables `conversations`, `messages`; `activeLocks`, a promise queue per conversation, in memory | create, send, rename, delete; lists and pages |
| pool and transactions `db/pool.js` | clients of a `pg.Pool`; or the embedded `pg-mem` database | `query`, `withTransaction`, `initDatabase`, health check |
| idempotency middleware `middleware/idempotency.js` | Redis entry per user and key; table `idempotency_keys` | look up, mark, replay, store the response |
| rate limiter `middleware/rateLimiter.js` | a Redis sorted set per address | trim, count, add, expire |
| background queue `services/backgroundQueue.js` | two buffers, a timer; tables `request_logs`, `audit_logs` | record, flush, start, stop |
| server `server.js` | the HTTP server, the process | boot, graceful shutdown, forced exit |
| bot `services/chatBotEngine.js`, cache `services/redis.js` | rules in `chatbot_responses`, cached in Redis | match a rule, read through the cache |
| accounts `services/authService.js` | tables `users`, `sessions` | register, log in, profile |
| guards `middleware/auth.js`, `validator.js`, `errorHandler.js`, `requestLogger.js` | none of their own | reject, convert, record |
| web client `public/app.js` | token, user, list, selected conversation, messages shown | load, log in, create, select, send |
| seed `db/seed.js` | none of its own | schema, demo users, rules, demo conversation and its messages |

**How they interact.** A `POST /:id/messages` passes the request logger, the rate
limiter, the JWT check, the ownership guard, the idempotency middleware and the
validator, and then calls `sendMessage`. That takes the conversation's promise queue, a
pool client and the row lock of `SELECT ... FOR UPDATE`; it inserts the user's message
(with the idempotency key, which is UNIQUE), asks the bot (which on a cache miss takes a
*second* pool client), inserts the bot's message, updates the count, records an audit
action in memory and commits. The response passes back through the middleware's
replaced `res.json`, which starts a task that stores it; the `finish` event puts a
request log into the queue. Instances share only PostgreSQL and Redis.

**What is hard, and what must hold.**

- *Sends*: interleavings within a process (at each `await`) and between processes (only
  the row lock orders them); failures before, at and after COMMIT; a process that dies
  with sessions open at the server. A conversation must always be whole exchanges numbered
  1 .. `message_count`, a key must be committed once, an answer must be true, nothing may
  leak, nobody may wait for ever.
- *Idempotency*: three awaits between look-up and mark, a store that runs on after the
  answer, entries that expire. A replayed success must name the one committed exchange.
- *Embedded engine*: rollback restores the whole database under the feet of others.
- *Limiter*: count and add are separate commands. The quota must hold up to a known slack,
  and a rejection must be deserved.
- *Queue and shutdown*: overlapping flushes, an end of the pool and of the process that do
  not wait for all of them. Each item must be in one place, and a clean stop must keep
  what waited.

- *Reads*: pages are cut by time stamps and ids, while writes go on; the bot's stamp is
  ahead of the clock, and a conversation moves to the front of the list when it is written
  to. A walk must skip and repeat nothing.
- *Accounts and boot*: neither registration nor a boot is a transaction, and instances boot
  while others serve. Answers must be true, and who serves must find what it needs.
- *Web client*: handlers overlap, and nothing relates an answer to what is selected by
  then. What is shown must be real, and exact when nothing overtakes.

PROJECT.json lists every hazard at its line, with the properties that guard it.

## Modules

| Module | What it models |
|---|---|
| `ConversationLog` | abstract: a conversation is a log of exchanges, and a call takes effect once, at one instant, or not at all |
| `ConversationService` | create, send, rename and delete on PostgreSQL, any number of instances |
| `ConversationRefinement` | the mapping from `ConversationService` to `ConversationLog` |
| `ConversationServiceProofs` | theorems about the tables, about answers and resources, and that the service implements the log |
| `Timeline`, `TimelineProofs` | `ConversationService` with a clock, time stamps, and a client that walks through pages; its theorems |
| `Idempotency`, `IdempotencyProofs` | the middleware, the validator and the storing task; `sendMessage` is one step; its theorems |
| `EmbeddedStore`, `EmbeddedStoreProofs` | the same service on `pg-mem`; its theorems |
| `RateLimiter`, `RateLimiterProofs` | the limiter for one identifier, and its theorems |
| `BackgroundQueue`, `BackgroundQueueProofs` | both buffers, their flushes, and the shutdown; its theorems |
| `Accounts`, `AccountsProofs` | registration, log-in, and the boot with its seed; its theorems |
| `WebClient`, `WebClientProofs` | the page, its overlapping calls, and the API as one step per call; its theorems |
| `MC...` | instances for TLC: who asks for what; bounds |

### ConversationService

A request `r` is one call, made once; `Call[r]` says what it asks for and of which
instance. `pc[r]` names the `await` it is in:

| Stage | The code awaits |
|---|---|
| `mutex` | `activeLocks.get(...)` (lines 10-12) |
| `connect` | `pool.connect()` and BEGIN; for one statement, the client of `pool.query` |
| `lock` | `SELECT ... FOR UPDATE` (149) |
| `user`, `reply`, `update`, `commit` | the two INSERTs, the UPDATE, COMMIT |
| `bot`, `rules`, `query` | the rules cache, a second client, the rules |
| `rollback` | ROLLBACK after an error |
| `committed`, `done`, `missed` | the answer to what the server has executed |
| `stmt` | the single statement of create, rename, delete |
| `ok`, `err` | answered |
| `unsure`, `orphan` | the connection or the process is gone; with `orphan` the server still has the session |

A statement and its answer are separate steps wherever the difference can be seen (COMMIT
and the single statements), so that the connection can break between them. `conv` and
`messages` are committed rows; `staged` and `newRow` are what a transaction wrote.
Executing a statement, COMMIT, ROLLBACK and what becomes of an abandoned session are the
database's, and are marked external. A rename records no audit action, because the code
records none.

Not told apart: message texts, titles; time stamps are added by `Timeline`; ids are model values.
The idle timeout and a BEGIN that fails are a failure to connect. The ownership guard that reads the row
before `sendMessage` only turns requests away earlier.

### Timeline

Extends `ConversationService`: its steps are those of `Next`, and `Serve` adds what they do
to time. `stamp[r]` is `new Date()`: taken under the row lock by a send (line 173), before
the statement by a creation (29). `CreatedAt` and `lastMessageAt` follow from it; the
bot's message is `Lead` ahead. The clock is one for all instances and does not go back;
both are assumptions about the hosts. Stamps count half milliseconds, because rows of the seed
are stamped by the database (`Seeded`), and the cursor, an ISO string, keeps whole milliseconds
only. Ids are random: `rank` is one of the orders in `IdOrders`.

A walk (`Begin`, `GuardPasses`, `Page`, ... `LastPage`) is one client that reads the list
of conversations, or one conversation through the ownership guard, page after page, each a
single statement. `returned` and `begun` record history for the properties.

### Accounts

`boot[i]` counts through `Script`, the statements that `bootstrap` awaits before it listens;
`Up` is a listening server. A failing statement of the schema is only warned of
(`SchemaFails`), any other failure exits (`BootFails`, `BootCut`). Messages get a fresh id at
every boot, so that `copies` grows; users do not change. Alice's DELETE of the demo conversation
(`DropDemo`) is one statement. A registration is `check`, `user`, `session`; a log-in is `find`,
`session`; hashing lies between two of these and changes nothing. A statement whose connection
broke may still be executed (`LateStatement`). An id drawn by a registration stands as its
request. A failing Redis connection at boot is a `BootCut` with nothing executed.

### WebClient

`calls` are the fetches under way, oldest first, each with the token of its moment, its `answer`
(`pending`, `ok`, `refused`) and what came with it (`reply`). `Serve(k)` is
all the API does for a call; `ConversationLog` justifies one step. `Me`, `Login`, `List`, ... are
what the handler does with the answer, up to the next `await`, further calls included;
`MeFails`, `ListFails`, `OtherFails` are the `catch` blocks. Exchanges are named by their keys.
`Fail` is a call that is not served or whose answer is lost; a 409 for a key in flight is one of
these. `handleRegister` is `handleLogin` of a user without conversations. The variables
`disturbed` and `signedIn` record history. Not modelled: a second window with the same
localStorage, calls left over from a page that was reloaded, `simulateFailure`, the statistics window.

### Idempotency

`pc[r]` follows the middleware: `get`, `lookup`, `populate`, `mark`, then `send` and
`respond`; `task[r]` is the storing task (`redis`, then `table`). `answer[r]` is what the
client received. `sendMessage` is the step `Send`, `SendDuplicate` or `SendFails`:
`ConversationLog` justifies that, a call takes effect once and at one instant. The
body may fail validation, after the mark has been set. A lost Redis connection stays lost
(`retryStrategy: () => null`), and then the middleware calls `next()` unprotected. The
variables `settled` and `overtaken` only record history for the properties.

### EmbeddedStore

A statement takes effect at once; `backup[r]` is the database as `withTransaction`
found it, and `Restore` puts all of it back. Every error in the callback restores, a 404
or 403 too. `pg-mem` itself is external: what is used of it is that statements are
atomic, that UNIQUE and foreign keys hold, that FOR UPDATE does not block, and what
`backup` and `restore` do.

### RateLimiter

One step per Redis command; `entries` is the sorted set, each member named by its request,
whose score is `stamp`. Redis drops an empty key together with its expiry, which is why ZADD and PEXPIRE
can be separated by an expiry (`ExpireGone`). A request that goes on after an error is
`uncounted`. Instances and Redis share one clock, which advances one tick at a time; a
request spends less than a window in the limiter (`MaxDelay`). Without that a request
could be stamped a window before it is added.

### BackgroundQueue

Item `k` of a log is the `k`-th recorded. `flights` are the flushes under way, each with
the rows left and with who awaits it: a shutdown, or no one. Each signal runs its own
`gracefulShutdown` (`stop[s]`), as the code does when SIGINT follows SIGTERM. Audit items
may be recorded after the server has closed, by handlers whose client hung up. After
`pool.end()` the row on the wire still arrives and the next `query` throws.

## Runs

| Run | Shows |
|---|---|
| `conv_race` | two instances, a send, its retry with the same key through the other, another send, a rename and a delete, one fault: types, `SequenceExact`, `KeyCommittedOnce`, `AnswerTruthful`, `AnsweredHoldsNothing`, `StoredIsAudited`, `NoLostUpdate`, and `ImplementsLog`, the refinement |
| `conv_life` | `Timeline`: two sends through two instances, a creation, a delete, a walk of either kind: `WalkSkipsNothing`, `NothingTwice`, `TimeFollowsSequence`, `ListedByNewest` |
| `conv_pool` | four sends, one a stranger's, two conversations, three clients: `OwnerOnly`, `NoPoolGridlock`, `OneSenderPerConversation`, and, under fairness, `EveryRequestAnswered` |
| `idem_retry` | a request, its retry by another instance, another user with the same key; two faults, one expiry: `SuccessNamesTheExchange`, `QuietRetryIsReplayed`, `ConflictHasCause` |
| `idem_conflict` | **violated**: two requests with one key both execute |
| `idem_success` | **violated**: a stored success is replaced by the loser's error |
| `embedded_sole` | one conversation: `SoleConversationExact`, `FailedLeavesNothing` |
| `embedded_loss` | **violated**: a failing send erases an acknowledged one |
| `limiter` | `QuotaWithConcurrency`, `CountedWhileInWindow`, `RejectionIsDeserved` |
| `accounts` | two instances, three boots, one fault, two registrations of one email and a log-in: `AnswersAreTrue`, `ServingIsSeeded`, and, under fairness, `QuietBootListens` and `EveryCallAnswered` |
| `web_client` | any stored token, three clicks, one failing call: `UndisturbedIsExact`, `ActsAsShown`, `ShownIsStored` |
| `queue` | `InOnePlace`, `OneFlushIsEnough`, `CleanStopStoresWaiting`, and, under fairness, `NothingWaitsForever` |

**Bounds.** Requests are made once, so a model ends; TLC is told not to take that for a
deadlock, and the liveness properties speak for progress instead. Two instances are enough
for every pair of processes that meet in the database, a third sender for one that waits
behind both. One fault reaches every stage; two allow an instance to die after a
connection. In `conv_pool` the pool (3) outnumbers the conversations (2), which is what
`NoPoolGridlock` needs: with a pool no larger than the number of conversations in use,
every client can be held by a transaction that wants a second one, and only
`connectionTimeoutMillis` ends it. Renames and deletes that queue behind a row lock hold
clients too; that run has none. The limiter's quota, concurrency and window are 2, and five
requests suffice to fill two windows. In `queue` a batch is 2 and the audit log has 3 items,
so it outgrows a batch; the request log has 2.

In `conv_life` a page holds one row, so every row is followed by a page boundary; two ticks of the
clock, one lead apart, give equal stamps, stamps within the lead and in order; the seeded
conversation has the stamp between two milliseconds. The two sends differ only in whose pool
they share, so one order of ids shows both of each pair. Faults and renames are left to
`conv_race`, strangers to `conv_pool`. In
`accounts` three boots are two instances and a restart. In `web_client` three clicks suffice for
two calls that overtake each other and a login between; Alice's conversations and the keys are
interchangeable (symmetry).

**Fairness.** `ConversationService`: weak fairness of each request's own work. The event
loop runs every continuation that is ready, the server executes what it can, the pool
serves its waiters in turn or times out, and an abandoned session is ended by the server.
No fairness is assumed of arrivals and faults. Weak fairness suffices although requests
compete: what a waiting request waits for is released by others, each finitely often.
`Accounts`: a boot and a call go on by themselves, for the same reasons; nobody has to start an
instance, and faults need not happen. `BackgroundQueue`: the interval and the
forced exit are timers, an insert is answered or fails; nothing is assumed of connections, so a server may never close by itself.

## Proofs

Every theorem holds for all values of the constants that satisfy the named assumptions: calls
are well formed, two creations never share an id, null values are no rows or requests, bounds are
numbers. Each invariant below was checked by TLC on a run's instance before it was proved.

**Tables** (`ConversationServiceProofs`): `TypeInvariant`, `SequencesStayExact`,
`KeysStayUnique`, `NoUpdateIsLost`. `SequenceExact` is not inductive: a commit adds rows numbered
from a count read long before. `Inductive` adds why that is safe. `CountIsCurrent`: whoever
numbers messages, or is about to commit, holds the row lock and its count is the row's.
`StagedByStage`: a transaction has written what its stage says, and at COMMIT a whole exchange.
`StagedKeysFree`: keys of uncommitted rows clash with no other row. A step either changes no
table, or applies one prepared transaction to a row it locks, or executes one statement on an
unlocked row; `TableChange` says so, and each conjunct then needs these cases only.

**Answers and resources** (`ConversationServiceProofs`): `AnswersAreTruthful`, `NothingLeaks`,
`OneSenderAtATime`, `MessagesAreTheOwners`, `StoredMeansAudited`, `PoolsDoNotGridlock`. The first
five follow from `Accounted`, which says to which stages everything that can be held or stored
may belong: a place in the promise queue to a send between `mutex` and its answer, clients
to the stages that have one or two, row locks to a running or orphaned transaction, stored
messages to sends that committed. The answer is truthful because a COMMIT that was lost on the way is
answered with `unsure`, never with a definite error; and it stays true because a deleted
conversation does not come back (ids of creations are fresh).
`PoolsDoNotGridlock` assumes finitely many conversations, fewer than the pool has clients; if
all clients were stuck, each would belong to a send of its own conversation
(one sender per conversation and instance), an injection into too small a set. A rename or delete that waits for a
row lock is not counted as stuck; the property is about sends.

**Refinement** (`ConversationServiceProofs`): `ServiceImplementsLog`,
`Spec => ImplementsLog`: each step of the service is a step of `ConversationLog` or a stutter.
COMMIT and the single statements take effect (`Effects`: an exchange is appended to the log of
its conversation, `LogGrows`), the answers to them succeed or refuse (`Closing`), a lost
connection or a crash cuts callers off (`Failures`), and all the rest cannot be seen
(`Unseen`). The invariant `Mapped` adds two facts to `Accounted`: a count is even
(`EvenCount`), so that half of it is a number of exchanges, and the owner of a conversation's row
never changes (`OwnerStays`). The null row is assumed to be no sequence (`GoneAssumption`).

**Timeline** (`TimelineProofs`): `TimeAgreesWithSequence`, `ListIsByNewest`, `NothingIsSkipped`,
`NothingIsRepeated`, for finitely many conversations. A step of the timeline is one of
`ConversationService`, so `Accounted` is carried over. Messages are stamped in order
(`StampedInOrder`) because whoever numbers messages, or is about to commit, took its stamp after
every message of its conversation was stamped (`WriterIsNewest`): it did so under the row lock.
For the walk, `Walked` adds that what has been returned is behind the cursor, even if it has gone
since (`BehindCursor`), and that rows stamped within a millisecond were there before the walk
(`FinerIsOld`), so that the cursor's rounding can hide no row but those of the exception. The proof
of `NothingIsSkipped` failed for a narrower exception: two rows of the seed with one stamp, the
first of them last on its page, lose the second as well, and `BlurredBySeed` now says so.

**Web client** (`WebClientProofs`): `PageShowsStored`, `PageActsAsShown`, `PageEndsExact`, for any
users, conversations, keys, clicks and failures. The first rests on `Known`: what a call carries
or brings, and what the page shows, belongs to someone who has signed in, and nobody acts before,
except one call that tries the kept token. The second on `Reliable`: as long as no call
fails or is overtaken, the page sends and keeps the current user's token, and every call after the
first sign-in bears that of someone signed in. The third, about a page at rest, needs what
holds while calls are under way, `Undisturbed`. They are served and answered in turn (`InTurn`);
the last list asked for is the current user's, and is the server's once no call is left whose handler
asks again (`ListInTurn`); and what the last load shows, or will show, followed in order by the sends
served after it, is what is stored (`LoadInTurn`, `FollowedBy`).

**Limiter** (`RateLimiterProofs`): `TypeInvariant`, `PassedStayCounted`, `QuotaHolds`,
`RejectionsAreDeserved`. Entries and requests about to add one are together
fewer than quota plus concurrency (a request joins them only after counting fewer entries than the
quota, and at most `Concurrency` can be about to add), and the key outlives every request that
passed (`KeyOutlivesPassed`: the last PEXPIRE is never earlier than any stamp). A rejection is
deserved because what is added after a trim was stamped less than a window ago (`Prompt`, from
`MaxDelay`), so nothing stale is there when the request counts (`Trimmed`).

**Accounts and boot** (`AccountsProofs`): `AccountsTypeCorrect`, `AnswersTrue`, `ServingSeeded`,
for finitely many instances. The invariant ties the stage of each call to the rows (`Stage`: a
registration has its own row only from its INSERT on, and whoever is about to open a session knows a
row with the right password) and the progress of each boot to what it has left (`Progress`).
Neither holds alone: a registration under a demo email is refused because no call arrives before
some boot has passed both upserts, and the seed's rows keep their ids because no such registration
succeeds (`DemoKept`). That `copies` never exceeds `boots` needs a count: copies plus the boots that
still have the message ahead (`OncePerBoot`).

**Idempotency** (`IdempotencyProofs`): `TypeInvariant`, `SuccessesAreTrue`,
`QuietRetriesAreReplayed`, `ConflictsHaveACause`. A 201 may be kept in four places, the result,
the answer, Redis and the table, and passes from one to the next; `SuccessesNamed` says of each that it
names an exchange stored under its key, and UNIQUE leaves one (`StoredOnce`). The other two are
about the mark: without faults every `PROCESSING` in Redis belongs to a request that will
overwrite it (`MarksOwned`), and an operation that was over once has a response in its slot, so that
no later request gets past the look-up (`NothingForgotten`).

**Queue** (`BackgroundQueueProofs`): `TypeInvariant`, `ItemsInOnePlace`, `FlushIsEnough`,
`CleanStopsStore`. Lemmas about `splice` (`Splice`, `SpliceItems`) and about one flush
(`FlushMoves`, `FlushEmpties`, `FlushCarries`) carry the proof: a flush moves the front of a buffer
into a flight, and as a buffer is always shorter than a batch (`Left`) nothing stays. `HandedOver`
follows what waited through the stages of one shutdown: in its buffer, in a flush that the
shutdown awaits, in the table.

**Embedded engine** (`EmbeddedStoreProofs`): `TypeInvariant` for any conversations, and, if there
is one conversation (`Sole`), `SoleStaysExact` and `FailuresLeaveNothing` for any number of
requests. The hypothesis is needed: with two, a rollback erases what others wrote, which
`embedded_loss` shows. Then the promise queue admits one transaction at a time (`OneRunner`);
the conversation is exact apart from what the transaction has added, or a delete has taken all
of it (`Working`); and its backup was exact and holds acknowledged messages only
(`Fine`, `Origin`).

**Only model-checked.** Liveness and everything that rests on fairness (`EveryRequestAnswered`,
`EveryCallAnswered`, `QuietBootListens`, `NothingWaitsForever`) are out of this prover's reach.
Every other property
of the passing runs is a theorem. `OneExecution`, `SuccessIsReplayed` and
`AcknowledgedStays` are false, as their runs show.

## What the checks found

- Two requests with one key can both pass the idempotency middleware (`idempotency.js:30-62`),
  against README.md:251. UNIQUE on `messages.idempotency_key` stops the second, with a 500.
- That 500 is then stored over the first one's 201 and replayed (`idempotency.js:73`),
  against README.md:250.
- On the embedded engine a failed transaction erases what others wrote meanwhile, even
  messages answered with success and half of an exchange (`pool.js:97`), against
  README.md:240.

Behaviour that the models make explicit, where no document says otherwise:

- A walk through the list misses a conversation that is written to meanwhile; it has moved
  before the cursor. It also may miss one that shares its stamp, or its
  millisecond, with a row that the database stamped (`BlurredBySeed`). Pages of messages miss
  nothing but such rows.
- A message sent within 10 ms of the bot's previous one is stamped before it: pages, which are
  in order of `created_at`, then show them the other way round than `sequence_number`.
- Every boot adds two more messages, numbered 1 and 2, to the demo conversation. A boot ends
  the process if that conversation is deleted between two of the seed's statements.
- The loser of a registration race gets 500, not 409. A registration whose session fails leaves
  an account behind.
- In the page, a login does not clear the selected conversation and its messages, and
  a late answer is shown in whatever conversation is selected by then.
- Matching by `includes` makes the rule `hi` (priority 10) answer a message that says
  "architecture" (priority 8), since `chatBotEngine.js:27` looks for the letters anywhere.

## Plan

1. The bot's rule matching as a function, checked against its definition; which cached
   rules an instance may answer from.
2. `x-idempotency-key` in `Idempotency`, a key that the middleware honours and `sendMessage`
   does not store.

Not modelled: JWT and password hashing (cryptography), health and metrics endpoints
(read-only), HTTP wiring, configuration, rendering, the load tests, and formatting of logs
and answers.

## Running

    tlc -workers 2 -config conv_race.cfg MCConversationService
    tlc -workers 2 -config limiter.cfg MCRateLimiter
    tlapm ConversationServiceProofs.tla     (and every other *Proofs module)

PROJECT.json names the module of every other configuration, and for each property a
mutant: a slip in one definition, kept beside it in the module (`\* A slip`), which
makes TLC find the property violated.
