--------------------------- MODULE BackgroundQueue ---------------------------
(***************************************************************************)
(* The log buffers of src/services/backgroundQueue.js and the shutdown of  *)
(* src/server.js, in one process.  Handlers append to a buffer; a full     *)
(* buffer, the timer or the shutdown takes a batch out of it and inserts   *)
(* it row by row.  A flush runs on by itself unless the shutdown awaits    *)
(* it, so flushes overlap with each other and with the end of the process. *)
(***************************************************************************)
EXTENDS Naturals, Sequences, FiniteSets

CONSTANTS
    BatchSize,   \* BATCH_SIZE
    MaxItems,    \* MaxItems[l]: bound on the items recorded in log l
    MaxFaults,   \* bound on inserts that fail
    Signal,      \* signals that start a shutdown, each sent at most once
    NoOne        \* awaits a flush that was not awaited

Log == {"request", "audit"}

ASSUME QueueAssumption ==
    /\ BatchSize \in Nat \ {0} /\ MaxFaults \in Nat /\ MaxItems \in [Log -> Nat]
    /\ NoOne \notin Signal

\* The k-th item recorded in a log.
Item == [log : Log, k : Nat]

\* A flush under way has rows left, and perhaps a shutdown that awaits it.
Flight == [rows : Seq(Item) \ {<<>>}, by : Signal \cup {NoOne}]

VARIABLES
    recorded,   \* number of items recorded in each log
    buffer,     \* requestLogBuffer and auditLogBuffer
    flights,    \* flushes under way: rows left to insert, and who awaits it
    stored,     \* rows of request_logs and audit_logs
    dropped,    \* items given up after an error
    timer,      \* the interval is set
    stop,       \* progress of the shutdown each signal started
    poolEnded,  \* pool.end() was called
    exit,       \* how the process ended
    faults,     \* inserts failed so far
    waiting,    \* items in a buffer when the server closed
    late        \* audit items recorded after the server closed

vars == <<recorded, buffer, flights, stored, dropped, timer, stop, poolEnded,
          exit, faults, waiting, late>>
shutdown == <<timer, stop, poolEnded, exit>>
history == <<waiting, late>>

Closed == \E s \in Signal : stop[s] \notin {"none", "closing"}
Items(batch) == {batch[n] : n \in 1 .. Len(batch)}

Init ==
    /\ recorded = [l \in Log |-> 0]
    /\ buffer = [l \in Log |-> <<>>]
    /\ flights = {}
    /\ stored = {} /\ dropped = {}
    /\ timer = TRUE
    /\ stop = [s \in Signal |-> "none"]
    /\ poolEnded = FALSE
    /\ exit = "no"
    /\ faults = 0
    /\ waiting = {} /\ late = {}

-----------------------------------------------------------------------------
(* Flushes                                                                 *)

\* splice(0, BATCH_SIZE): the batch, and what stays.
BatchOf(b) == SubSeq(b, 1, IF Len(b) < BatchSize THEN Len(b) ELSE BatchSize)
RestOf(b) == SubSeq(b, BatchSize + 1, Len(b))

\* A slip: the early return on an empty buffer is missing.
FlightOfAny(b, awaitedBy) == {[rows |-> BatchOf(b), by |-> awaitedBy]}

\* The flushes that taking a batch out of b starts: none when b is empty.
FlightOf(b, awaitedBy) ==
    IF b = <<>> THEN {} ELSE {[rows |-> BatchOf(b), by |-> awaitedBy]}

\* The buffers of logs L are flushed, with b as the buffers' contents before.
Flush(L, b, awaitedBy) ==
    /\ buffer' = [l \in Log |-> IF l \in L THEN RestOf(b[l]) ELSE b[l]]
    /\ flights' = flights \cup UNION {FlightOf(b[l], awaitedBy) : l \in L}

\* Two slips: a full buffer is left to the timer; the batch stays in the buffer.
RecordOnly(l) ==
    LET item == [log |-> l, k |-> recorded[l] + 1]
    IN  /\ exit = "no" /\ recorded[l] < MaxItems[l]
        /\ l = "request" => ~Closed
        /\ recorded' = [recorded EXCEPT ![l] = @ + 1]
        /\ buffer' = [buffer EXCEPT ![l] = Append(@, item)]
        /\ late' = IF Closed THEN late \cup {item} ELSE late
        /\ UNCHANGED <<flights, stored, dropped, shutdown, faults, waiting>>

TimerFlushCopy ==
    /\ exit = "no" /\ timer
    /\ \E l \in Log : buffer[l] # <<>>
    /\ flights' = flights \cup UNION {FlightOf(buffer[l], NoOne) : l \in Log}
    /\ UNCHANGED <<recorded, buffer, stored, dropped, shutdown, faults, history>>

\* enqueueAuditLog, on a response's finish event, and recordAuditAction.  A
\* handler whose client hung up outlives the server and may still record.
Record(l) ==
    LET item == [log |-> l, k |-> recorded[l] + 1]
        longer == [buffer EXCEPT ![l] = Append(@, item)]
    IN  /\ exit = "no" /\ recorded[l] < MaxItems[l]
        /\ l = "request" => ~Closed
        /\ recorded' = [recorded EXCEPT ![l] = @ + 1]
        /\ IF Len(longer[l]) >= BatchSize THEN Flush({l}, longer, NoOne)
           ELSE buffer' = longer /\ UNCHANGED flights
        /\ late' = IF Closed THEN late \cup {item} ELSE late
        /\ UNCHANGED <<stored, dropped, shutdown, faults, waiting>>

\* The interval fires: both logs are flushed, and nobody waits.
TimerFlush ==
    /\ exit = "no" /\ timer
    /\ \E l \in Log : buffer[l] # <<>>
    /\ Flush(Log, buffer, NoOne)
    /\ UNCHANGED <<recorded, stored, dropped, shutdown, faults, history>>

\* One row is inserted; query() for the next throws once the pool has ended.
InsertRow(f) ==
    LET rest == Tail(f.rows)
    IN  /\ exit = "no" /\ f \in flights
        /\ stored' = stored \cup {Head(f.rows)}
        /\ flights' = (flights \ {f}) \cup
             (IF rest = <<>> \/ poolEnded THEN {} ELSE {[f EXCEPT !.rows = rest]})
        /\ dropped' = IF poolEnded THEN dropped \cup Items(rest) ELSE dropped
        /\ UNCHANGED <<recorded, buffer, shutdown, faults, history>>

\* An insert fails, or its answer is lost: the rest of the batch is dropped.
InsertFails(f) ==
    /\ exit = "no" /\ f \in flights /\ faults < MaxFaults
    /\ faults' = faults + 1
    /\ flights' = flights \ {f}
    /\ \E done \in {{}, {Head(f.rows)}} :
         /\ stored' = stored \cup done
         /\ dropped' = dropped \cup (Items(f.rows) \ done)
    /\ UNCHANGED <<recorded, buffer, shutdown, history>>

-----------------------------------------------------------------------------
(* gracefulShutdown and stopBackgroundWorker, once per signal              *)

Goto(s, from, to) == exit = "no" /\ stop[s] = from /\ stop' = [stop EXCEPT ![s] = to]

\* server.close(...), and the timer of the forced exit.
Terminate(s) ==
    /\ Goto(s, "none", "closing")
    /\ UNCHANGED <<recorded, buffer, flights, stored, dropped, timer, poolEnded,
                   exit, faults, history>>

\* The last connection has ended: clearInterval, await flushRequestLogs().
Close(s) ==
    /\ Goto(s, "closing", "requests")
    /\ timer' = FALSE
    /\ Flush({"request"}, buffer, s)
    /\ waiting' = IF Closed THEN waiting
                  ELSE UNION {Items(buffer[l]) : l \in Log}
    /\ UNCHANGED <<recorded, stored, dropped, poolEnded, exit, faults, late>>

Awaits(s) == \E f \in flights : f.by = s

\* A slip: the request logs' flush is not awaited.
FlushAuditsAtOnce(s) ==
    /\ Goto(s, "requests", "audits")
    /\ Flush({"audit"}, buffer, NoOne)
    /\ UNCHANGED <<recorded, stored, dropped, timer, poolEnded, exit, faults, history>>

\* await flushAuditLogs()
FlushAudits(s) ==
    /\ ~Awaits(s)
    /\ Goto(s, "requests", "audits")
    /\ Flush({"audit"}, buffer, s)
    /\ UNCHANGED <<recorded, stored, dropped, timer, poolEnded, exit, faults, history>>

\* pool.end(): it throws when called again, and the throw is ignored.
EndPool(s) ==
    /\ ~Awaits(s)
    /\ Goto(s, "audits", "ending")
    /\ poolEnded' = TRUE
    /\ exit' = IF poolEnded THEN "clean" ELSE exit
    /\ UNCHANGED <<recorded, buffer, flights, stored, dropped, timer, faults, history>>

\* pool.end() resolves (a flush that still queues for a client does not keep
\* it from that): process.exit(0).
Exit(s) ==
    /\ exit = "no" /\ stop[s] = "ending"
    /\ exit' = "clean"
    /\ UNCHANGED <<recorded, buffer, flights, stored, dropped, timer, stop,
                   poolEnded, faults, history>>

\* A slip: the forced exit is armed only once the server has closed.
ForceExitAfterClose(s) ==
    /\ exit = "no" /\ stop[s] \notin {"none", "closing"}
    /\ exit' = "forced"
    /\ UNCHANGED <<recorded, buffer, flights, stored, dropped, timer, stop,
                   poolEnded, faults, history>>

\* Ten seconds after the signal: process.exit(1).
ForceExit(s) ==
    /\ exit = "no" /\ stop[s] # "none"
    /\ exit' = "forced"
    /\ UNCHANGED <<recorded, buffer, flights, stored, dropped, timer, stop,
                   poolEnded, faults, history>>

-----------------------------------------------------------------------------
Inserts == \E f \in flights : InsertRow(f) \/ InsertFails(f)

Next ==
    \/ \E l \in Log : Record(l)
    \/ TimerFlush
    \/ Inserts
    \/ \E s \in Signal :
         \/ Terminate(s) \/ Close(s) \/ FlushAudits(s) \/ EndPool(s)
         \/ Exit(s) \/ ForceExit(s)

Spec == Init /\ [][Next]_vars

\* Timers fire and an insert is answered or fails; connections need not end.
FairSpec ==
    /\ Spec
    /\ WF_vars(TimerFlush)
    /\ WF_vars(Inserts)
    /\ \A s \in Signal : WF_vars(ForceExit(s))

-----------------------------------------------------------------------------
(* Properties                                                              *)

\* Every variable has its type; a flush under way has rows left.
TypeOK ==
    /\ recorded \in [Log -> Nat]
    /\ buffer \in [Log -> Seq(Item)]
    /\ flights \subseteq Flight
    /\ stored \subseteq Item /\ dropped \subseteq Item
    /\ timer \in BOOLEAN /\ poolEnded \in BOOLEAN
    /\ stop \in [Signal -> {"none", "closing", "requests", "audits", "ending"}]
    /\ exit \in {"no", "clean", "forced"}
    /\ faults \in 0 .. MaxFaults
    /\ waiting \subseteq Item /\ late \subseteq Item

\* Every item recorded is in exactly one place: its buffer, one flush, the
\* table or given up.  None is inserted twice and none vanishes while the
\* process runs (splice, and the loop over the batch).
InOnePlace ==
    LET Rows(f) == Items(f.rows)
        buffered == UNION {Items(buffer[l]) : l \in Log}
        flying == UNION {Rows(f) : f \in flights}
    IN  /\ buffered \cup flying \cup stored \cup dropped =
             UNION {{[log |-> l, k |-> k] : k \in 1 .. recorded[l]} : l \in Log}
        /\ buffered \cap (flying \cup stored \cup dropped) = {}
        /\ flying \cap (stored \cup dropped) = {}
        /\ stored \cap dropped = {}
        /\ \A f, g \in flights : f # g => Rows(f) \cap Rows(g) = {}

\* One batch empties a buffer, so the single flush of stopBackgroundWorker is
\* enough: once the shutdown has made it, no item that waited is left behind.
OneFlushIsEnough ==
    /\ \A l \in Log : Len(buffer[l]) < BatchSize
    /\ \A s \in Signal : stop[s] \in {"audits", "ending"} =>
         \A l \in Log : Items(buffer[l]) \cap waiting = {}

\* A clean stop after one signal, with no insert failed, has stored every
\* request log that waited in the buffer, and every audit log too unless a
\* handler outlived the server and recorded more.
CleanStopStoresWaiting ==
    exit = "clean" /\ faults = 0 /\ Cardinality({s \in Signal : stop[s] # "none"}) = 1
        => \A i \in waiting : i.log = "request" \/ late = {} => i \in stored

\* While the process lives, whatever is recorded leaves the buffers: it is
\* stored or given up; a shutdown ends.
NothingWaitsForever ==
    /\ \A l \in Log : \A k \in 1 .. MaxItems[l] :
         recorded[l] >= k ~>
           [log |-> l, k |-> k] \in stored \cup dropped \/ exit # "no"
    /\ \A s \in Signal : stop[s] # "none" ~> exit # "no"
=============================================================================
