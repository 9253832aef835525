---------------------- MODULE ConversationServiceProofs ----------------------
(***************************************************************************)
(* Theorems about ConversationService for every number of requests,        *)
(* instances, conversations and pool clients, and every bound on faults.   *)
(*                                                                         *)
(* Three parts, each on the invariant of the one before: Inductive, for    *)
(* what is committed; Accounted, for what callers are told and what they   *)
(* hold; Mapped, for the refinement of ConversationLog.                    *)
(***************************************************************************)
EXTENDS ConversationRefinement, FiniteSetTheorems, SequenceTheorems, TLAPS

-----------------------------------------------------------------------------
(* Types                                                                   *)

\* What a request asks for has the type the constants promise.
LEMMA CallType ==
    ASSUME NEW r \in Request
    PROVE  /\ Kind(r) \in Kinds /\ At(r) \in Instance /\ Conv(r) \in Conversation
           /\ Call[r].user \in User
  BY CallAssumption DEF Kind, At, Conv

\* Two ways in which the helpers keep the types of what they assign.
LEMMA ReleaseType ==
    ASSUME TypeOK, NEW r \in Request, ReleaseAll(r)
    PROVE  /\ clients' \subseteq Request \X {"main", "rules"}
           /\ activeLocks' \in [Instance -> [Conversation -> Request \cup {Nobody}]]
  <1>1. clients' \subseteq Request \X {"main", "rules"}
    BY DEF ReleaseAll, TypeOK
  <1>2. activeLocks' \in [Instance -> [Conversation -> Request \cup {Nobody}]]
    BY CallType DEF ReleaseAll, TypeOK
  <1> QED BY <1>1, <1>2

LEMMA AbortType ==
    ASSUME TypeOK, NEW r \in Request, Abort(r)
    PROVE  /\ staged' \in [Request -> SUBSET Message]
           /\ newRow' \in [Request -> Row \cup {NoRow}]
           /\ rowLock' \in [Conversation -> Request \cup {Nobody}]
           /\ UNCHANGED <<seen, conv, messages>>
  BY DEF Abort, TypeOK

LEMMA ApplyType ==
    ASSUME TypeOK, NEW r \in Request, Apply(r)
    PROVE  /\ staged' \in [Request -> SUBSET Message]
           /\ newRow' \in [Request -> Row \cup {NoRow}]
           /\ rowLock' \in [Conversation -> Request \cup {Nobody}]
           /\ conv' \in [Conversation -> Row \cup {NoRow}]
           /\ messages' \subseteq Message
           /\ UNCHANGED seen
  BY DEF Apply, TypeOK

\* Messages and rows that a send makes.
LEMMA RowType ==
    ASSUME TypeOK, NEW r \in Request
    PROVE  /\ UserMessage(r) \in Message /\ BotMessage(r) \in Message
           /\ Updated(conv[Conv(r)]) \in Row \cup {NoRow}
  <1>1. UserMessage(r) \in Message /\ BotMessage(r) \in Message
    BY CallType DEF TypeOK, UserMessage, BotMessage, Message
  <1>2. Updated(conv[Conv(r)]) \in Row \cup {NoRow}
    BY CallType DEF TypeOK, Updated, Row
  <1> QED BY <1>1, <1>2

\* A statement that is executed keeps the types of the two tables.
LEMMA ExecuteType ==
    ASSUME TypeOK, NEW r \in Request, Execute(r)
    PROVE  /\ conv' \in [Conversation -> Row \cup {NoRow}]
           /\ messages' \subseteq Message
  <1>1. CASE Create(r)
    <2>1. [owner |-> Call[r].user, count |-> 0, version |-> 1] \in Row
      BY CallType DEF Row
    <2> QED BY <1>1, <2>1 DEF Create, TypeOK
  <1>2. CASE Rename(r)
    <2>1. conv[Conv(r)] \in Row
      BY <1>2, CallType DEF Rename, Matches, TypeOK
    <2>2. [conv[Conv(r)] EXCEPT !.version = @ + 1] \in Row
      BY <2>1 DEF Row
    <2> QED BY <1>2, <2>2 DEF Rename, TypeOK
  <1>3. CASE Delete(r)
    BY <1>3 DEF Delete, TypeOK
  <1> QED BY <1>1, <1>2, <1>3 DEF Execute

\* A request that moves on moves to a stage.
LEMMA GotoType ==
    ASSUME TypeOK, NEW r \in Request, NEW to \in Stage, NEW from, Goto(r, from, to)
    PROVE  pc' \in [Request -> Stage]
  BY DEF Goto, TypeOK

\* One step of the system, the code's or a failure's, keeps every type.
LEMMA TypeStep == TypeOK /\ [Next]_vars => TypeOK'
  <1> SUFFICES ASSUME TypeOK, [Next]_vars PROVE TypeOK'
    OBVIOUS
  <1> USE DEF TypeOK, vars, tx, store, process, Goto, Stage, Locked, OnWire, Answered
  <1>0. CASE UNCHANGED vars
    BY <1>0
  <1>1. ASSUME NEW r \in Request, Arrive(r) PROVE TypeOK'
    BY <1>1, CallType DEF Arrive
  <1>2. ASSUME NEW r \in Request, AcquireMutex(r) PROVE TypeOK'
    BY <1>2, CallType DEF AcquireMutex
  <1>3. ASSUME NEW r \in Request, Connect(r) PROVE TypeOK'
    BY <1>3, CallType DEF Connect
  <1>4. ASSUME NEW r \in Request, ConnectTimeout(r) PROVE TypeOK'
    BY <1>4, CallType, ReleaseType DEF ConnectTimeout
  <1>5. ASSUME NEW r \in Request, LockRow(r) PROVE TypeOK'
    <2>1. conv[Conv(r)] \in Row
      BY <1>5, CallType DEF LockRow
    <2>2. conv[Conv(r)].count \in Nat
      BY <2>1 DEF Row
    <2> QED BY <1>5, <2>2, CallType DEF LockRow
  <1>6. ASSUME NEW r \in Request, LockMissing(r) PROVE TypeOK'
    BY <1>6, CallType DEF LockMissing
  <1>7. ASSUME NEW r \in Request, LockForeign(r) PROVE TypeOK'
    BY <1>7, CallType DEF LockForeign
  <1>8. ASSUME NEW r \in Request, InsertUser(r) PROVE TypeOK'
    BY <1>8, CallType, RowType DEF InsertUser
  <1>9. ASSUME NEW r \in Request, InsertUserDuplicate(r) PROVE TypeOK'
    BY <1>9, CallType, AbortType DEF InsertUserDuplicate
  <1>10. ASSUME NEW r \in Request, BotCached(r) PROVE TypeOK'
    BY <1>10, CallType DEF BotCached
  <1>11. ASSUME NEW r \in Request, BotMiss(r) PROVE TypeOK'
    BY <1>11, CallType DEF BotMiss
  <1>12. ASSUME NEW r \in Request, RulesConnect(r) PROVE TypeOK'
    BY <1>12, CallType DEF RulesConnect
  <1>13. ASSUME NEW r \in Request, RulesTimeout(r) PROVE TypeOK'
    BY <1>13, CallType DEF RulesTimeout
  <1>14. ASSUME NEW r \in Request, RulesAnswer(r) PROVE TypeOK'
    BY <1>14, CallType DEF RulesAnswer
  <1>15. ASSUME NEW r \in Request, InsertBot(r) PROVE TypeOK'
    BY <1>15, CallType, RowType DEF InsertBot
  <1>16. ASSUME NEW r \in Request, UpdateRow(r) PROVE TypeOK'
    BY <1>16, CallType, RowType DEF UpdateRow
  <1>17. ASSUME NEW r \in Request, Commit(r) PROVE TypeOK'
    BY <1>17, CallType, ApplyType DEF Commit
  <1>18. ASSUME NEW r \in Request, Rollback(r) PROVE TypeOK'
    BY <1>18, CallType, AbortType, ReleaseType DEF Rollback
  <1>19. ASSUME NEW r \in Request, ReplySent(r) PROVE TypeOK'
    BY <1>19, CallType, ReleaseType DEF ReplySent
  <1>20. ASSUME NEW r \in Request, Statement(r) PROVE TypeOK'
    BY <1>20, CallType, ExecuteType DEF Statement
  <1>21. ASSUME NEW r \in Request, StatementMiss(r) PROVE TypeOK'
    BY <1>21, CallType DEF StatementMiss
  <1>22. ASSUME NEW r \in Request, StatementOk(r) PROVE TypeOK'
    BY <1>22, CallType, ReleaseType DEF StatementOk
  <1>23. ASSUME NEW r \in Request, NotFound(r) PROVE TypeOK'
    BY <1>23, CallType, ReleaseType DEF NotFound
  <1>24. ASSUME NEW r \in Request, OrphanCommit(r) PROVE TypeOK'
    BY <1>24, CallType, ApplyType DEF OrphanCommit
  <1>25. ASSUME NEW r \in Request, OrphanStatement(r) PROVE TypeOK'
    BY <1>25, CallType, ExecuteType DEF OrphanStatement
  <1>26. ASSUME NEW r \in Request, OrphanAbort(r) PROVE TypeOK'
    BY <1>26, CallType, AbortType DEF OrphanAbort
  <1>27. ASSUME NEW r \in Request, BotFail(r) PROVE TypeOK'
    BY <1>27, CallType DEF BotFail
  <1>28. ASSUME NEW r \in Request, ConnectionLost(r) PROVE TypeOK'
    <2>1. faults' \in 0 .. MaxFaults
      BY <1>28, BoundAssumption DEF ConnectionLost
    <2>2. pc' \in [Request -> Stage]
      BY <1>28 DEF ConnectionLost
    <2> QED BY <1>28, <2>1, <2>2, ReleaseType DEF ConnectionLost
  <1>29. ASSUME NEW i \in Instance, Crash(i) PROVE TypeOK'
    BY <1>29, CallType, BoundAssumption DEF Crash, Settled
  <1> QED
    BY <1>0, <1>1, <1>2, <1>3, <1>4, <1>5, <1>6, <1>7, <1>8, <1>9, <1>10,
       <1>11, <1>12, <1>13, <1>14, <1>15, <1>16, <1>17, <1>18, <1>19, <1>20,
       <1>21, <1>22, <1>23, <1>24, <1>25, <1>26, <1>27, <1>28, <1>29 DEF
       Next, Work

\* Every variable has its type in every reachable state.
THEOREM TypeInvariant == Spec => []TypeOK
  <1>1. Init => TypeOK
    <2>1. ASSUME NEW c \in Conversation
          PROVE  [owner |-> Owner[c], count |-> 0, version |-> 1] \in Row
      BY OwnerAssumption DEF Row
    <2> QED BY <2>1, BoundAssumption DEF Init, TypeOK, Stage
  <1> QED BY <1>1, TypeStep, PTL DEF Spec

-----------------------------------------------------------------------------
(* How the two tables change                                               *)

\* The tables change in two ways only: a transaction with an updated row is
\* applied, or a single statement is executed.
LEMMA TableChange ==
    ASSUME Inductive, Next
    PROVE  \/ UNCHANGED <<conv, messages>>
           \/ \E r \in Request :
                 newRow[r] # NoRow /\ Apply(r) /\ (Commit(r) \/ OrphanCommit(r))
           \/ \E r \in Request :
                 /\ Execute(r) /\ UNCHANGED <<tx, rowLock>>
                 /\ (Statement(r) \/ OrphanStatement(r))
  <1> USE DEF tx, store
  <1>1. ASSUME NEW r \in Request, Commit(r) PROVE newRow[r] # NoRow /\ Apply(r)
    BY <1>1 DEF Commit, Goto, Inductive, StagedByStage
  <1>2. ASSUME NEW r \in Request, OrphanCommit(r) PROVE newRow[r] # NoRow /\ Apply(r)
    BY <1>2 DEF OrphanCommit
  <1>3. ASSUME NEW r \in Request, Statement(r) \/ OrphanStatement(r)
        PROVE  Execute(r) /\ UNCHANGED <<tx, rowLock>>
    BY <1>3 DEF Statement, OrphanStatement
  <1>4. ASSUME NEW r \in Request,
               \/ Arrive(r) \/ AcquireMutex(r) \/ Connect(r) \/ ConnectTimeout(r)
               \/ LockRow(r) \/ LockMissing(r) \/ LockForeign(r) \/ InsertUser(r)
               \/ BotCached(r) \/ BotMiss(r) \/ RulesConnect(r) \/ RulesTimeout(r)
               \/ RulesAnswer(r) \/ InsertBot(r) \/ UpdateRow(r) \/ ReplySent(r)
               \/ StatementMiss(r) \/ StatementOk(r) \/ NotFound(r) \/ BotFail(r)
               \/ ConnectionLost(r)
        PROVE  UNCHANGED <<conv, messages>>
    BY <1>4 DEF Arrive, AcquireMutex, Connect, ConnectTimeout, LockRow, LockMissing,
         LockForeign, InsertUser, BotCached, BotMiss, RulesConnect, RulesTimeout,
         RulesAnswer, InsertBot, UpdateRow, ReplySent, StatementMiss, StatementOk,
         NotFound, BotFail, ConnectionLost
  <1>5. ASSUME NEW r \in Request,
               InsertUserDuplicate(r) \/ Rollback(r) \/ OrphanAbort(r)
        PROVE  UNCHANGED <<conv, messages>>
    BY <1>5 DEF InsertUserDuplicate, Rollback, OrphanAbort, Abort
  <1>6. ASSUME NEW i \in Instance, Crash(i) PROVE UNCHANGED <<conv, messages>>
    BY <1>6 DEF Crash
  <1> QED BY <1>1, <1>2, <1>3, <1>4, <1>5, <1>6 DEF Next, Work

\* What a transaction about to be applied has prepared: one exchange that
\* continues the conversation where it stands.
LEMMA Prepared ==
    ASSUME Inductive, NEW r \in Request, newRow[r] # NoRow
    PROVE  LET c == Conv(r)  row == conv[c]  n == row.count IN
           /\ c \in Conversation /\ row \in Row /\ n \in Nat /\ rowLock[c] = r
           /\ staged[r] = {UserMessage(r), BotMessage(r)}
           /\ newRow[r] = [owner |-> row.owner, count |-> n + 2, version |-> row.version + 1]
           /\ UserMessage(r) = [convo |-> c, seq |-> n + 1, sender |-> "user", req |-> r]
           /\ BotMessage(r) = [convo |-> c, seq |-> n + 2, sender |-> "bot", req |-> r]
  <1>1. conv[Conv(r)] # NoRow /\ seen[r] = conv[Conv(r)].count /\ rowLock[Conv(r)] = r
    BY DEF Inductive, CountIsCurrent
  <1>2. Conv(r) \in Conversation /\ conv[Conv(r)] \in Row
    BY <1>1, CallType DEF Inductive, TypeOK
  <1>3. conv[Conv(r)].count \in Nat
    BY <1>2 DEF Row
  <1>4. /\ staged[r] = {UserMessage(r), BotMessage(r)}
        /\ newRow[r] = Updated(conv[Conv(r)])
    BY DEF Inductive, StagedByStage
  <1> QED BY <1>1, <1>2, <1>3, <1>4 DEF Updated, UserMessage, BotMessage

-----------------------------------------------------------------------------
(* The numbering of messages                                               *)

LEMMA SequenceApply ==
    ASSUME Inductive, NEW r \in Request, newRow[r] # NoRow, Apply(r)
    PROVE  SequenceExact'
  <1> DEFINE c == Conv(r)
             n == conv[c].count
             u == [convo |-> c, seq |-> n + 1, sender |-> "user", req |-> r]
             b == [convo |-> c, seq |-> n + 2, sender |-> "bot", req |-> r]
             row == [owner |-> conv[c].owner, count |-> n + 2,
                     version |-> conv[c].version + 1]
  <1>1. /\ c \in Conversation /\ n \in Nat /\ conv[c] \in Row /\ conv[c] # NoRow
        /\ messages' = messages \cup {u, b}
        /\ conv' = [conv EXCEPT ![c] = row]
        /\ row # NoRow /\ row.count = n + 2
    <2>1. conv[c] # NoRow
      BY DEF Inductive, CountIsCurrent
    <2>2. c \in Conversation /\ n \in Nat /\ conv[c] \in Row
      BY Prepared
    <2>3. messages' = messages \cup {u, b} /\ conv' = [conv EXCEPT ![c] = row]
      BY Prepared DEF Apply
    <2>4. row \in Row
      BY <2>2 DEF Row
    <2> QED BY <2>1, <2>2, <2>3, <2>4, NullAssumption
  <1>2. messages \subseteq Message /\ conv \in [Conversation -> Row \cup {NoRow}]
    BY DEF Inductive, TypeOK
  <1>3. SeqInRange /\ SeqUnique /\ SeqComplete /\ SeqPaired
    BY DEF Inductive, SequenceExact
  <1>4. \A m \in messages : m.convo = c => m.seq \in 1 .. n
    BY <1>1, <1>3 DEF SeqInRange
  <1>5. u.convo = c /\ u.seq = n + 1 /\ b.convo = c /\ b.seq = n + 2
    OBVIOUS
  <1> HIDE DEF row
  <1>6. SeqInRange'
    <2> SUFFICES ASSUME NEW m \in messages'
                 PROVE  conv'[m.convo] # NoRow /\ m.seq \in 1 .. conv'[m.convo].count
      BY DEF SeqInRange
    <2>1. CASE m \in messages
      <3>1. m.convo \in Conversation
        BY <2>1, <1>2 DEF Message
      <3>2. CASE m.convo = c
        <4>1. m.seq \in 1 .. n
          BY <2>1, <3>2, <1>4
        <4> QED BY <4>1, <3>2, <1>1, <1>2
      <3>3. CASE m.convo # c
        BY <2>1, <3>1, <3>3, <1>1, <1>2, <1>3 DEF SeqInRange
      <3> QED BY <3>2, <3>3
    <2>2. CASE m \in {u, b}
      <3>1. m.convo = c /\ m.seq \in 1 .. n + 2
        BY <2>2, <1>1
      <3> QED BY <3>1, <1>1, <1>2
    <2> QED BY <1>1, <2>1, <2>2
  <1>7. SeqUnique'
    <2> SUFFICES ASSUME NEW m \in messages', NEW k \in messages',
                        m.convo = k.convo, m.seq = k.seq
                 PROVE  m = k
      BY DEF SeqUnique
    <2>1. CASE m \in messages /\ k \in messages
      BY <2>1, <1>3 DEF SeqUnique
    <2>2. CASE m \in {u, b} /\ k \in {u, b}
      BY <2>2, <1>1, <1>5
    <2>3. CASE m \in messages /\ k \in {u, b}
      BY <2>3, <1>1, <1>4, <1>5
    <2>4. CASE m \in {u, b} /\ k \in messages
      BY <2>4, <1>1, <1>4, <1>5
    <2> QED BY <1>1, <2>1, <2>2, <2>3, <2>4
  <1>8. SeqComplete'
    <2> SUFFICES ASSUME NEW d \in Conversation, conv'[d] # NoRow,
                        NEW k \in 1 .. conv'[d].count
                 PROVE  \E m \in messages' : m.convo = d /\ m.seq = k
      BY DEF SeqComplete
    <2>1. CASE d # c
      <3>1. conv'[d] = conv[d]
        BY <2>1, <1>1, <1>2
      <3>2. \E m \in messages : m.convo = d /\ m.seq = k
        BY <3>1, <1>3 DEF SeqComplete
      <3> QED BY <3>2, <1>1
    <2>2. CASE d = c
      <3>1. k \in 1 .. n + 2
        BY <2>2, <1>1, <1>2
      <3>2. CASE k \in 1 .. n
        <4>1. \E m \in messages : m.convo = d /\ m.seq = k
          BY <2>2, <3>2, <1>1, <1>3 DEF SeqComplete
        <4> QED BY <4>1, <1>1
      <3>3. CASE k = n + 1
        BY <2>2, <3>3, <1>1, <1>5
      <3>4. CASE k = n + 2
        BY <2>2, <3>4, <1>1, <1>5
      <3> QED BY <3>1, <3>2, <3>3, <3>4, <1>1
    <2> QED BY <2>1, <2>2
  <1>9. SeqPaired'
    <2> SUFFICES ASSUME NEW m \in messages'
                 PROVE  \E k \in messages' :
                          /\ k.convo = m.convo /\ k.req = m.req
                          /\ \/ m.sender = "user" /\ k.sender = "bot" /\ k.seq = m.seq + 1
                             \/ m.sender = "bot" /\ k.sender = "user" /\ m.seq = k.seq + 1
      BY DEF SeqPaired
    <2>1. CASE m \in messages
      BY <2>1, <1>1, <1>3 DEF SeqPaired
    <2>0. /\ u.convo = b.convo /\ u.req = b.req
          /\ u.sender = "user" /\ b.sender = "bot" /\ b.seq = u.seq + 1
      BY <1>1
    <2> HIDE DEF u, b
    <2>2. CASE m = u
      <3>1. b \in messages'
        BY <1>1
      <3> QED BY <2>2, <3>1, <2>0
    <2>3. CASE m = b
      <3>1. u \in messages'
        BY <1>1
      <3> QED BY <2>3, <3>1, <2>0
    <2> QED BY <1>1, <2>1, <2>2, <2>3
  <1> QED BY <1>6, <1>7, <1>8, <1>9 DEF SequenceExact

LEMMA SequenceExecute ==
    ASSUME Inductive, NEW r \in Request, Execute(r)
    PROVE  SequenceExact'
  <1> DEFINE c == Conv(r)
  <1>1. /\ c \in Conversation
        /\ messages \subseteq Message /\ conv \in [Conversation -> Row \cup {NoRow}]
        /\ SeqInRange /\ SeqUnique /\ SeqComplete /\ SeqPaired
    BY CallType DEF Inductive, TypeOK, SequenceExact
  <1>2. \A m \in messages : m.convo \in Conversation
    BY <1>1 DEF Message
  <1>3. CASE Create(r)
    <2>1. messages' = messages /\ conv[c] = NoRow
      BY <1>3 DEF Create
    <2>2. \A m \in messages : m.convo # c
      BY <1>1, <2>1 DEF SeqInRange
    <2>3. conv'[c].count = 0 /\ \A d \in Conversation \ {c} : conv'[d] = conv[d]
      BY <1>1, <1>3 DEF Create
    <2>4. SeqInRange'
      BY <1>1, <1>2, <2>1, <2>2, <2>3 DEF SeqInRange
    <2>5. SeqComplete'
      BY <1>1, <2>1, <2>3 DEF SeqComplete
    <2>6. SeqUnique' /\ SeqPaired'
      BY <1>1, <2>1 DEF SeqUnique, SeqPaired
    <2> QED BY <2>4, <2>5, <2>6 DEF SequenceExact
  <1>4. CASE Rename(r)
    <2>1. messages' = messages /\ conv[c] # NoRow /\ conv[c] \in Row
      BY <1>1, <1>4 DEF Rename, Matches
    <2>2. /\ conv'[c] = [conv[c] EXCEPT !.version = conv[c].version + 1]
          /\ \A d \in Conversation \ {c} : conv'[d] = conv[d]
      BY <1>1, <1>4 DEF Rename
    <2>3. conv'[c].count = conv[c].count /\ conv'[c] \in Row
      BY <2>1, <2>2 DEF Row
    <2>4. conv'[c] # NoRow
      BY <2>3, NullAssumption
    <2>5. SeqInRange'
      BY <1>1, <1>2, <2>1, <2>2, <2>3, <2>4 DEF SeqInRange
    <2>6. SeqComplete'
      <3>1. \A d \in Conversation : conv'[d] # NoRow =>
               conv[d] # NoRow /\ conv'[d].count = conv[d].count
        BY <2>1, <2>2, <2>3
      <3> QED BY <1>1, <2>1, <3>1 DEF SeqComplete
    <2>7. SeqUnique' /\ SeqPaired'
      BY <1>1, <2>1 DEF SeqUnique, SeqPaired
    <2> QED BY <2>5, <2>6, <2>7 DEF SequenceExact
  <1>5. CASE Delete(r)
    <2>1. /\ conv' = [conv EXCEPT ![c] = NoRow]
          /\ messages' = {m \in messages : m.convo # c}
      BY <1>5 DEF Delete
    <2>2. SeqInRange'
      BY <1>1, <1>2, <2>1 DEF SeqInRange
    <2>3. SeqComplete'
      BY <1>1, <2>1 DEF SeqComplete
    <2>4. SeqUnique'
      BY <1>1, <2>1 DEF SeqUnique
    <2>5. SeqPaired'
      BY <1>1, <2>1 DEF SeqPaired
    <2> QED BY <2>2, <2>3, <2>4, <2>5 DEF SequenceExact
  <1> QED BY <1>3, <1>4, <1>5 DEF Execute

LEMMA SequenceStep == Inductive /\ [Next]_vars => SequenceExact'
  <1> SUFFICES ASSUME Inductive, [Next]_vars PROVE SequenceExact'
    OBVIOUS
  <1>1. CASE UNCHANGED <<conv, messages>>
    BY <1>1 DEF Inductive, SequenceExact, SeqInRange, SeqUnique, SeqComplete, SeqPaired
  <1>2. CASE UNCHANGED vars
    BY <1>1, <1>2 DEF vars
  <1>3. CASE Next
    BY <1>1, <1>3, TableChange, SequenceApply, SequenceExecute
  <1> QED BY <1>2, <1>3

-----------------------------------------------------------------------------
(* The row lock                                                            *)

\* Every step of another request respects a row lock that r holds: it leaves
\* the lock, the locked row and what r read alone.
LEMMA LockRespected ==
    ASSUME Inductive, Next, NEW r \in Request,
           rowLock[Conv(r)] = r, conv[Conv(r)] # NoRow,
           rowLock'[Conv(r)] = r
    PROVE  conv'[Conv(r)] = conv[Conv(r)]
  <1> DEFINE c == Conv(r)
  <1>1. c \in Conversation /\ r # Nobody
    BY CallType, NullAssumption
  <1>2. ASSUME NEW q \in Request, newRow[q] # NoRow, Apply(q)
        PROVE  conv'[c] = conv[c]
    <2>1. conv' = [conv EXCEPT ![Conv(q)] = newRow[q]]
      BY <1>2 DEF Apply
    <2>2. rowLock' = [rowLock EXCEPT ![Conv(q)] = Nobody]
      BY <1>2 DEF Apply
    <2>3. Conv(q) # c
      BY <1>1, <2>2 DEF Inductive, TypeOK
    <2> QED BY <1>1, <2>1, <2>3 DEF Inductive, TypeOK
  <1>3. ASSUME NEW q \in Request, Execute(q)
        PROVE  conv'[c] = conv[c]
    <2>1. Conv(q) # c
      BY <1>1, <1>3 DEF Execute, Create, Rename, Delete
    <2> QED BY <1>1, <1>3, <2>1 DEF Execute, Create, Rename, Delete, Inductive, TypeOK
  <1> QED BY <1>2, <1>3, TableChange

\* When r numbers messages, or is about to commit, it holds the row lock and
\* its reading of message_count is current.
LEMMA CountStep == Inductive /\ [Next]_vars => CountIsCurrent'
  <1> SUFFICES ASSUME Inductive, [Next]_vars, NEW r \in Request,
                      pc'[r] \in Locked \/ newRow'[r] # NoRow
               PROVE  /\ rowLock'[Conv(r)] = r
                      /\ conv'[Conv(r)] # NoRow
                      /\ seen'[r] = conv'[Conv(r)].count
    BY DEF CountIsCurrent
  <1> DEFINE Held == /\ rowLock[Conv(r)] = r /\ conv[Conv(r)] # NoRow
                     /\ seen[r] = conv[Conv(r)].count
             Keeps == Held => rowLock'[Conv(r)] = r /\ seen'[r] = seen[r]
             Enters == pc[r] \in Locked \/ newRow[r] # NoRow
  <1> USE DEF Goto, tx, store, Locked
  <1>a. /\ TypeOK /\ Conv(r) \in Conversation /\ r # Nobody
        /\ \A q \in Request : Conv(q) \in Conversation
        /\ Enters => Held
    BY CallType, NullAssumption DEF Inductive, CountIsCurrent
  <1>b. /\ pc \in [Request -> Stage] /\ seen \in [Request -> Nat]
        /\ newRow \in [Request -> Row \cup {NoRow}]
        /\ rowLock \in [Conversation -> Request \cup {Nobody}]
        /\ conv \in [Conversation -> Row \cup {NoRow}]
    BY <1>a DEF TypeOK
  <1>0. CASE UNCHANGED vars
    BY <1>0, <1>a DEF vars
  \* The step that takes the lock.
  <1>1. CASE LockRow(r)
    BY <1>1, <1>a, <1>b DEF LockRow
  <1>2. SUFFICES ASSUME Next, ~LockRow(r)
                 PROVE  /\ rowLock'[Conv(r)] = r
                        /\ conv'[Conv(r)] # NoRow
                        /\ seen'[r] = conv'[Conv(r)].count
    BY <1>0, <1>1
  <1>c. SUFFICES Enters /\ Keeps
    BY <1>2, <1>a, LockRespected
  \* Steps that touch neither locks nor transactions.
  <1>3. ASSUME NEW q \in Request,
               \/ Arrive(q) \/ AcquireMutex(q) \/ Connect(q) \/ ConnectTimeout(q)
               \/ LockMissing(q) \/ BotCached(q) \/ BotMiss(q) \/ RulesConnect(q)
               \/ RulesTimeout(q) \/ RulesAnswer(q) \/ ReplySent(q) \/ Statement(q)
               \/ StatementMiss(q) \/ StatementOk(q) \/ NotFound(q) \/ BotFail(q)
               \/ ConnectionLost(q) \/ OrphanStatement(q)
        PROVE  Enters /\ Keeps
    <2>1. UNCHANGED <<rowLock, seen, newRow>>
      BY <1>3 DEF Arrive, AcquireMutex, Connect, ConnectTimeout, LockMissing,
           BotCached, BotMiss, RulesConnect, RulesTimeout, RulesAnswer, ReplySent,
           Statement, StatementMiss, StatementOk, NotFound, BotFail, ConnectionLost,
           OrphanStatement
    <2>2. pc'[r] \in Locked => pc[r] \in Locked
      BY <1>3, <1>b DEF Arrive, AcquireMutex, Connect, ConnectTimeout, LockMissing,
           BotCached, BotMiss, RulesConnect, RulesTimeout, RulesAnswer, ReplySent,
           Statement, StatementMiss, StatementOk, NotFound, BotFail, ConnectionLost,
           OrphanStatement
    <2> QED BY <2>1, <2>2
  \* Steps of a transaction that holds the lock and goes on.
  <1>4. ASSUME NEW q \in Request, InsertUser(q) \/ InsertBot(q) \/ UpdateRow(q)
        PROVE  Enters /\ Keeps
    BY <1>4, <1>b DEF InsertUser, InsertBot, UpdateRow
  <1>5. ASSUME NEW q \in Request, LockRow(q) \/ LockForeign(q)
        PROVE  Enters /\ Keeps
    BY <1>2, <1>5, <1>a, <1>b DEF LockRow, LockForeign
  \* Steps that end a transaction.
  <1>6. ASSUME NEW q \in Request,
               InsertUserDuplicate(q) \/ Rollback(q) \/ OrphanAbort(q)
        PROVE  Enters /\ Keeps
    BY <1>6, <1>a, <1>b DEF InsertUserDuplicate, Rollback, OrphanAbort, Abort
  <1>7. ASSUME NEW q \in Request, Commit(q) \/ OrphanCommit(q)
        PROVE  Enters /\ Keeps
    <2>1. newRow[q] # NoRow /\ rowLock[Conv(q)] = q
      BY <1>7 DEF Commit, OrphanCommit, Inductive, StagedByStage, CountIsCurrent
    <2> QED BY <1>7, <2>1, <1>a, <1>b DEF Commit, OrphanCommit, Apply
  <1>8. ASSUME NEW i \in Instance, Crash(i) PROVE Enters /\ Keeps
    BY <1>8, <1>b DEF Crash
  <1> QED BY <1>2, <1>3, <1>4, <1>5, <1>6, <1>7, <1>8 DEF Next, Work

-----------------------------------------------------------------------------
(* What transactions have written                                          *)

\* The row version that a transaction has prepared stays one step ahead of the
\* committed row.
LEMMA PreparedStays ==
    ASSUME Inductive, [Next]_vars, NEW r \in Request,
           newRow[r] # NoRow, newRow'[r] = newRow[r]
    PROVE  seen'[r] = seen[r] /\ conv'[Conv(r)] = conv[Conv(r)]
  <1>1. CountIsCurrent /\ CountIsCurrent'
    BY CountStep DEF Inductive
  <1>2. conv'[Conv(r)] = conv[Conv(r)]
    <2>1. CASE UNCHANGED vars
      BY <2>1 DEF vars
    <2>2. CASE Next
      BY <1>1, <2>2, LockRespected DEF CountIsCurrent
    <2> QED BY <2>1, <2>2
  <1> QED BY <1>1, <1>2 DEF CountIsCurrent

LEMMA StagedStep == Inductive /\ [Next]_vars => StagedByStage'
  <1> SUFFICES ASSUME Inductive, [Next]_vars, NEW r \in Request
               PROVE  /\ pc'[r] \in {"bot", "rules", "query", "reply"} =>
                            staged'[r] = {UserMessage(r)'}
                      /\ pc'[r] = "update" =>
                            staged'[r] = {UserMessage(r)', BotMessage(r)'}
                      /\ pc'[r] = "commit" => newRow'[r] # NoRow
                      /\ newRow'[r] # NoRow =>
                            /\ pc'[r] \in {"commit", "orphan"}
                            /\ staged'[r] = {UserMessage(r)', BotMessage(r)'}
                            /\ newRow'[r] = Updated(conv'[Conv(r)])
                      /\ \A m \in staged'[r] : m.req = r
    BY DEF StagedByStage
  <1> DEFINE One == {"bot", "rules", "query", "reply"}
             Same == UNCHANGED <<seen[r], staged[r], newRow[r]>>
             NoNew == /\ pc'[r] \in One => pc[r] \in One
                      /\ pc'[r] = "update" => pc[r] = "update"
                      /\ pc'[r] = "commit" => pc[r] = "commit"
                      /\ newRow[r] # NoRow => pc'[r] \in {"commit", "orphan"}
  <1> USE DEF Goto, tx, store
  <1>a. /\ TypeOK /\ Conv(r) \in Conversation /\ StagedByStage /\ CountIsCurrent
    BY CallType DEF Inductive
  <1>b. /\ pc \in [Request -> Stage] /\ seen \in [Request -> Nat]
        /\ staged \in [Request -> SUBSET Message]
        /\ newRow \in [Request -> Row \cup {NoRow}]
        /\ rowLock \in [Conversation -> Request \cup {Nobody}]
        /\ conv \in [Conversation -> Row \cup {NoRow}]
        /\ r # Nobody
    BY <1>a, NullAssumption DEF TypeOK
  \* A transaction that writes nothing and enters no stage with a claim.
  <1>c. ASSUME Same, NoNew
        PROVE  /\ pc'[r] \in One => staged'[r] = {UserMessage(r)'}
               /\ pc'[r] = "update" => staged'[r] = {UserMessage(r)', BotMessage(r)'}
               /\ pc'[r] = "commit" => newRow'[r] # NoRow
               /\ newRow'[r] # NoRow =>
                     /\ pc'[r] \in {"commit", "orphan"}
                     /\ staged'[r] = {UserMessage(r)', BotMessage(r)'}
                     /\ newRow'[r] = Updated(conv'[Conv(r)])
               /\ \A m \in staged'[r] : m.req = r
    <2>1. UserMessage(r)' = UserMessage(r) /\ BotMessage(r)' = BotMessage(r)
      BY <1>c DEF UserMessage, BotMessage
    <2>2. newRow[r] # NoRow => Updated(conv'[Conv(r)]) = Updated(conv[Conv(r)])
      BY <1>c, PreparedStays
    <2> QED BY <1>a, <1>c, <2>1, <2>2 DEF StagedByStage
  <1>0. CASE UNCHANGED vars
    <2>1. Same /\ NoNew
      BY <1>0, <1>a DEF vars, StagedByStage
    <2> QED BY <2>1, <1>c
  <1>1. ASSUME NEW q \in Request,
               \/ Arrive(q) \/ AcquireMutex(q) \/ Connect(q) \/ ConnectTimeout(q)
               \/ LockMissing(q) \/ BotCached(q) \/ BotMiss(q) \/ RulesConnect(q)
               \/ RulesTimeout(q) \/ RulesAnswer(q) \/ ReplySent(q) \/ Statement(q)
               \/ StatementMiss(q) \/ StatementOk(q) \/ NotFound(q) \/ BotFail(q)
               \/ ConnectionLost(q)
        PROVE  Same /\ NoNew
    BY <1>1, <1>a, <1>b DEF StagedByStage, Settled,
         Arrive, AcquireMutex, Connect, ConnectTimeout, LockMissing,
         BotCached, BotMiss, RulesConnect, RulesTimeout, RulesAnswer,
         ReplySent, Statement, StatementMiss, StatementOk, NotFound,
         BotFail, ConnectionLost
  <1>2. ASSUME NEW i \in Instance, Crash(i) PROVE Same /\ NoNew
    BY <1>2, <1>a, <1>b DEF Crash, StagedByStage, Answered, Settled
  \* An abandoned single statement has no transaction.
  <1>11. ASSUME NEW q \in Request, OrphanStatement(q) PROVE Same /\ NoNew
    <2>1. q = r => newRow[r] = NoRow
      BY <1>11, <1>a, <1>b
         DEF OrphanStatement, Execute, Create, Rename, Delete, CountIsCurrent
    <2> QED BY <1>11, <2>1, <1>a, <1>b DEF OrphanStatement, StagedByStage
  <1>3. ASSUME NEW q \in Request \ {r},
               \/ LockRow(q) \/ LockForeign(q) \/ InsertUser(q) \/ InsertBot(q)
               \/ UpdateRow(q) \/ InsertUserDuplicate(q) \/ Rollback(q)
               \/ OrphanAbort(q) \/ Commit(q) \/ OrphanCommit(q)
        PROVE  Same /\ NoNew
    BY <1>3, <1>a, <1>b DEF StagedByStage, LockRow, LockForeign, InsertUser, InsertBot, UpdateRow,
         InsertUserDuplicate, Rollback, OrphanAbort, Commit, OrphanCommit, Abort, Apply
  <1>4. CASE LockForeign(r)
    <2>1. Same /\ NoNew
      BY <1>4, <1>a, <1>b DEF LockForeign, StagedByStage
    <2> QED BY <2>1, <1>c
  <1>5. CASE LockRow(r)
    <2>1. newRow[r] = NoRow
      BY <1>5, <1>a, <1>b DEF LockRow, CountIsCurrent
    <2>2. pc'[r] = "user" /\ UNCHANGED <<staged, newRow>>
      BY <1>5, <1>b DEF LockRow
    <2> QED BY <2>1, <2>2, <1>a DEF StagedByStage
  <1>6. CASE InsertUser(r)
    <2>1. pc'[r] = "bot" /\ staged'[r] = {UserMessage(r)} /\ UNCHANGED <<seen, newRow>>
      BY <1>6, <1>b DEF InsertUser
    <2>2. UserMessage(r)' = UserMessage(r) /\ UserMessage(r).req = r
      BY <2>1 DEF UserMessage
    <2>3. newRow[r] = NoRow
      BY <1>6, <1>a DEF InsertUser, StagedByStage
    <2> QED BY <2>1, <2>2, <2>3
  <1>7. CASE InsertBot(r)
    <2>1. /\ pc[r] = "reply" /\ pc'[r] = "update" /\ UNCHANGED <<seen, newRow>>
          /\ staged'[r] = staged[r] \cup {BotMessage(r)}
      BY <1>7, <1>b DEF InsertBot
    <2>2. staged[r] = {UserMessage(r)} /\ newRow[r] = NoRow
      BY <2>1, <1>a DEF StagedByStage
    <2>3. /\ UserMessage(r)' = UserMessage(r) /\ UserMessage(r).req = r
          /\ BotMessage(r)' = BotMessage(r) /\ BotMessage(r).req = r
      BY <2>1 DEF UserMessage, BotMessage
    <2> QED BY <2>1, <2>2, <2>3
  <1>8. CASE UpdateRow(r)
    <2>1. /\ pc[r] = "update" /\ pc'[r] = "commit" /\ UNCHANGED <<seen, staged, conv>>
          /\ newRow'[r] = Updated(conv[Conv(r)])
      BY <1>8, <1>b DEF UpdateRow
    <2>2. staged[r] = {UserMessage(r), BotMessage(r)}
      BY <2>1, <1>a DEF StagedByStage
    <2>3. UserMessage(r)' = UserMessage(r) /\ BotMessage(r)' = BotMessage(r)
      BY <2>1 DEF UserMessage, BotMessage
    <2>4. conv[Conv(r)] # NoRow
      BY <2>1, <1>a DEF CountIsCurrent, Locked
    <2>5. conv[Conv(r)] \in Row
      BY <2>4, <1>a, <1>b
    <2>6. Updated(conv[Conv(r)]) \in Row
      BY <2>4, <2>5 DEF Updated, Row
    <2>7. \A m \in staged[r] : m.req = r
      BY <1>a DEF StagedByStage
    <2> QED BY <2>1, <2>2, <2>3, <2>6, <2>7, NullAssumption
  <1>9. CASE InsertUserDuplicate(r) \/ Rollback(r) \/ OrphanAbort(r)
    <2>1. staged'[r] = {} /\ newRow'[r] = NoRow
      BY <1>9, <1>b DEF InsertUserDuplicate, Rollback, OrphanAbort, Abort
    <2>2. pc'[r] \in {"rollback", "err", "unsure"}
      BY <1>9, <1>b DEF InsertUserDuplicate, Rollback, OrphanAbort
    <2> QED BY <2>1, <2>2
  <1>10. CASE Commit(r) \/ OrphanCommit(r)
    <2>1. staged'[r] = {} /\ newRow'[r] = NoRow
      BY <1>10, <1>b DEF Commit, OrphanCommit, Apply
    <2>2. pc'[r] \in {"committed", "unsure"}
      BY <1>10, <1>b DEF Commit, OrphanCommit
    <2> QED BY <2>1, <2>2
  <1> QED
    BY <1>0, <1>1, <1>2, <1>3, <1>4, <1>5, <1>6, <1>7, <1>8, <1>9, <1>10, <1>11, <1>c
       DEF Next, Work

-----------------------------------------------------------------------------
(* Idempotency keys                                                        *)

LEMMA SameKeySymmetric ==
    ASSUME NEW m, NEW n, SameKey(m, n)
    PROVE  SameKey(n, m)
  BY DEF SameKey

\* Rows that go away leave the keys free.
LEMMA KeysShrink ==
    ASSUME StagedKeysFree, KeyCommittedOnce,
           \A r \in Request : staged'[r] \subseteq staged[r],
           messages' \subseteq messages
    PROVE  StagedKeysFree' /\ KeyCommittedOnce'
  BY DEF StagedKeysFree, KeyCommittedOnce

LEMMA KeyStep == Inductive /\ [Next]_vars => StagedKeysFree' /\ KeyCommittedOnce'
  <1> SUFFICES ASSUME Inductive, [Next]_vars
               PROVE  StagedKeysFree' /\ KeyCommittedOnce'
    OBVIOUS
  <1> USE DEF tx, store
  <1>a. /\ StagedKeysFree /\ KeyCommittedOnce /\ StagedByStage
        /\ staged \in [Request -> SUBSET Message]
    BY DEF Inductive, TypeOK
  <1>0. CASE UNCHANGED vars
    BY <1>0, <1>a, KeysShrink DEF vars
  <1>1. ASSUME NEW q \in Request,
               \/ Arrive(q) \/ AcquireMutex(q) \/ Connect(q) \/ ConnectTimeout(q)
               \/ LockRow(q) \/ LockForeign(q) \/ LockMissing(q) \/ BotCached(q)
               \/ BotMiss(q) \/ RulesConnect(q) \/ RulesTimeout(q) \/ RulesAnswer(q)
               \/ UpdateRow(q) \/ ReplySent(q) \/ StatementMiss(q) \/ StatementOk(q)
               \/ NotFound(q) \/ BotFail(q) \/ ConnectionLost(q)
        PROVE  StagedKeysFree' /\ KeyCommittedOnce'
    <2>1. UNCHANGED <<staged, messages>>
      BY <1>1 DEF Arrive, AcquireMutex, Connect, ConnectTimeout, LockRow, LockForeign,
           LockMissing, BotCached, BotMiss, RulesConnect, RulesTimeout, RulesAnswer,
           UpdateRow, ReplySent, StatementMiss, StatementOk, NotFound, BotFail,
           ConnectionLost
    <2> QED BY <2>1, <1>a, KeysShrink
  <1>2. ASSUME NEW i \in Instance, Crash(i) PROVE StagedKeysFree' /\ KeyCommittedOnce'
    <2>1. UNCHANGED <<staged, messages>>
      BY <1>2 DEF Crash
    <2> QED BY <2>1, <1>a, KeysShrink
  <1>3. ASSUME NEW q \in Request,
               InsertUserDuplicate(q) \/ Rollback(q) \/ OrphanAbort(q)
        PROVE  StagedKeysFree' /\ KeyCommittedOnce'
    <2>1. messages' = messages /\ staged' = [staged EXCEPT ![q] = {}]
      BY <1>3 DEF InsertUserDuplicate, Rollback, OrphanAbort, Abort
    <2> QED BY <2>1, <1>a, KeysShrink
  <1>4. ASSUME NEW q \in Request, Statement(q) \/ OrphanStatement(q)
        PROVE  StagedKeysFree' /\ KeyCommittedOnce'
    <2>1. staged' = staged /\ messages' \subseteq messages
      BY <1>4 DEF Statement, OrphanStatement, Execute, Create, Rename, Delete
    <2> QED BY <2>1, <1>a, KeysShrink
  <1>5. ASSUME NEW q \in Request, InsertUser(q)
        PROVE  StagedKeysFree' /\ KeyCommittedOnce'
    <2> DEFINE u == UserMessage(q)
    <2>1. messages' = messages /\ staged' = [staged EXCEPT ![q] = {u}]
      BY <1>5 DEF InsertUser
    <2>2. \A p \in Request \ {q} : \A m \in staged[p] : ~SameKey(m, u) /\ ~SameKey(u, m)
      BY <1>5, SameKeySymmetric DEF InsertUser, KeyIdle
    <2>3. \A m \in messages : ~SameKey(m, u) /\ ~SameKey(u, m)
      BY <1>5, SameKeySymmetric DEF InsertUser, KeyStored
    <2> HIDE DEF u
    <2>4. StagedKeysFree'
      BY <2>1, <2>2, <2>3, <1>a DEF StagedKeysFree
    <2>5. KeyCommittedOnce'
      BY <2>1, <1>a DEF KeyCommittedOnce
    <2> QED BY <2>4, <2>5
  <1>6. ASSUME NEW q \in Request, InsertBot(q)
        PROVE  StagedKeysFree' /\ KeyCommittedOnce'
    <2> DEFINE b == BotMessage(q)
    <2>1. messages' = messages /\ staged' = [staged EXCEPT ![q] = staged[q] \cup {b}]
      BY <1>6 DEF InsertBot
    <2>2. \A m : ~SameKey(m, b) /\ ~SameKey(b, m)
      BY DEF SameKey, BotMessage
    <2> HIDE DEF b
    <2>3. StagedKeysFree'
      BY <2>1, <2>2, <1>a DEF StagedKeysFree
    <2>4. KeyCommittedOnce'
      BY <2>1, <1>a DEF KeyCommittedOnce
    <2> QED BY <2>3, <2>4
  \* The committed rows take over the keys of the applied transaction.
  <1>7. ASSUME NEW q \in Request, Commit(q) \/ OrphanCommit(q)
        PROVE  StagedKeysFree' /\ KeyCommittedOnce'
    <2>1. /\ messages' = messages \cup staged[q]
          /\ staged' = [staged EXCEPT ![q] = {}]
      BY <1>7 DEF Commit, OrphanCommit, Apply
    <2>2. StagedKeysFree'
      <3> SUFFICES ASSUME NEW r \in Request, NEW m \in staged'[r]
                   PROVE  /\ \A p \in Request \ {r} : \A n \in staged'[p] : ~SameKey(m, n)
                          /\ \A n \in messages' : ~SameKey(m, n)
        BY DEF StagedKeysFree
      <3>1. r # q /\ m \in staged[r]
        BY <2>1, <1>a
      <3>2. \A p \in Request : staged'[p] \subseteq staged[p]
        BY <2>1, <1>a
      <3> QED BY <3>1, <3>2, <2>1, <1>a DEF StagedKeysFree
    <2>3. KeyCommittedOnce'
      <3> SUFFICES ASSUME NEW m \in messages', NEW n \in messages', SameKey(m, n)
                   PROVE  m.req = n.req
        BY DEF KeyCommittedOnce
      <3>1. CASE m \in messages /\ n \in messages
        BY <3>1, <1>a DEF KeyCommittedOnce
      <3>2. CASE m \in staged[q] /\ n \in staged[q]
        BY <3>2, <1>a DEF StagedByStage
      <3>3. CASE m \in staged[q] /\ n \in messages
        BY <3>3, <1>a DEF StagedKeysFree
      <3>4. CASE m \in messages /\ n \in staged[q]
        BY <3>4, <1>a, SameKeySymmetric DEF StagedKeysFree
      <3> QED BY <2>1, <3>1, <3>2, <3>3, <3>4
    <2> QED BY <2>2, <2>3
  <1> QED BY <1>0, <1>1, <1>2, <1>3, <1>4, <1>5, <1>6, <1>7 DEF Next, Work

-----------------------------------------------------------------------------
(* The invariant and what follows from it                                  *)

LEMMA InductiveInit == Init => Inductive
  <1> SUFFICES ASSUME Init PROVE Inductive
    OBVIOUS
  <1>1. TypeOK
    <2>1. ASSUME NEW c \in Conversation
          PROVE  [owner |-> Owner[c], count |-> 0, version |-> 1] \in Row
      BY OwnerAssumption DEF Row
    <2> QED BY <2>1, BoundAssumption DEF Init, TypeOK, Stage
  <1>2. CountIsCurrent /\ StagedByStage
    BY DEF Init, CountIsCurrent, StagedByStage, Locked
  <1>3. SeqComplete
    <2>1. \A c \in Conversation : conv[c] # NoRow => conv[c].count = 0
      BY DEF Init
    <2> QED BY <2>1 DEF SeqComplete
  <1>4. SeqInRange /\ SeqUnique /\ SeqPaired /\ StagedKeysFree /\ KeyCommittedOnce
    BY DEF Init, SeqInRange, SeqUnique, SeqPaired, StagedKeysFree, KeyCommittedOnce
  <1> QED BY <1>1, <1>2, <1>3, <1>4 DEF Inductive, SequenceExact

\* The conjunction of types, locks, uncommitted writes, numbering and keys is
\* inductive: none of its parts is so alone.
THEOREM InductiveInvariant == Spec => []Inductive
  <1>1. Inductive /\ [Next]_vars => Inductive'
    BY TypeStep, CountStep, StagedStep, SequenceStep, KeyStep DEF Inductive
  <1> QED BY InductiveInit, <1>1, PTL DEF Spec

\* Whatever is committed of a conversation is whole exchanges numbered
\* 1 .. message_count.
THEOREM SequencesStayExact == Spec => []SequenceExact
  <1>1. Inductive => SequenceExact
    BY DEF Inductive
  <1> QED BY InductiveInvariant, <1>1, PTL

\* An idempotency key is committed for at most one request.
THEOREM KeysStayUnique == Spec => []KeyCommittedOnce
  <1>1. Inductive => KeyCommittedOnce
    BY DEF Inductive
  <1> QED BY InductiveInvariant, <1>1, PTL

\* No committed write to a conversation row is overwritten.
THEOREM NoUpdateIsLost == Spec => NoLostUpdate
  <1> DEFINE Kept(c) ==
        conv[c] # NoRow /\ conv'[c] # NoRow /\ conv'[c] # conv[c] =>
           /\ conv'[c].version = conv[c].version + 1
           /\ conv'[c].count \in {conv[c].count, conv[c].count + 2}
           /\ conv'[c].owner = conv[c].owner
  <1>1. ASSUME Inductive, [Next]_vars, NEW c \in Conversation
        PROVE  Kept(c)
    <2>a. conv \in [Conversation -> Row \cup {NoRow}]
      BY <1>1 DEF Inductive, TypeOK
    <2>1. CASE UNCHANGED vars
      BY <2>1 DEF vars
    <2>2. ASSUME NEW r \in Request, newRow[r] # NoRow, Apply(r) PROVE Kept(c)
      <3>1. conv' = [conv EXCEPT ![Conv(r)] = newRow[r]]
        BY <2>2 DEF Apply
      <3>2. newRow[r] = [owner |-> conv[Conv(r)].owner, count |-> conv[Conv(r)].count + 2,
                         version |-> conv[Conv(r)].version + 1]
        BY <1>1, <2>2, Prepared
      <3>3. CASE c = Conv(r)
        BY <3>1, <3>2, <3>3, <2>a
      <3> QED BY <3>1, <3>3, <2>a
    <2>3. ASSUME NEW r \in Request, Execute(r) PROVE Kept(c)
      <3>1. CASE Create(r) \/ Delete(r)
        BY <3>1, <2>a DEF Create, Delete
      <3>2. CASE Rename(r)
        <4>1. CASE c = Conv(r)
          <5>1. conv'[c] = [conv[c] EXCEPT !.version = conv[c].version + 1]
            BY <3>2, <4>1, <2>a DEF Rename
          <5>2. CASE conv[c] # NoRow
            <6>1. conv[c] \in Row
              BY <5>2, <2>a
            <6> QED BY <5>1, <6>1 DEF Row
          <5> QED BY <5>2
        <4> QED BY <3>2, <4>1, <2>a DEF Rename
      <3> QED BY <2>3, <3>1, <3>2 DEF Execute
    <2> QED BY <1>1, <2>1, <2>2, <2>3, TableChange
  <1>2. Inductive /\ [Next]_vars => [\A c \in Conversation : Kept(c)]_vars
    BY <1>1
  <1> QED BY InductiveInvariant, <1>2, PTL DEF Spec, NoLostUpdate

-----------------------------------------------------------------------------
(* What callers are told, whose messages are stored, and what an answered  *)
(* request may still hold: a second invariant ties locks, clients and      *)
(* messages to the stage of the request they belong to.                    *)

\* The stages between taking a place in the promise queue and leaving it.
Queued == {"connect", "lock", "rollback", "committed"} \cup Locked

\* Only sends go through a transaction, and only they leave uncommitted rows.
StageFitsKind ==
    \A r \in Request :
        /\ pc[r] \in {"mutex", "lock", "rollback", "committed"} \cup Locked => Kind(r) = "send"
        /\ pc[r] \in {"stmt", "missed", "done"} => Kind(r) # "send"
        /\ staged[r] # {} => Kind(r) = "send"

\* A row lock is held by a send to that row whose transaction is open.
RowLockByStage ==
    \A r \in Request, c \in Conversation : rowLock[c] = r =>
        /\ Conv(r) = c /\ Kind(r) = "send"
        /\ pc[r] \in {"rollback", "orphan"} \cup Locked

\* A client is held while it has, or is about to have, something on the wire.
ClientByStage ==
    \A r \in Request :
        /\ <<r, "main">> \in clients => pc[r] \in OnWire \cup Locked
        /\ <<r, "rules">> \in clients => pc[r] = "query"

\* A send has its place in the queue in these stages and in no other.
QueueByStage ==
    \A r \in Request :
        activeLocks[At(r)][Conv(r)] = r <=> Kind(r) = "send" /\ pc[r] \in Queued

\* Whoever numbers messages, or is about to commit, owns the conversation; and
\* with an updated row it has been reported to the audit log.
WriterIsOwner ==
    \A r \in Request :
        /\ pc[r] \in Locked \/ newRow[r] # NoRow => conv[Conv(r)].owner = Call[r].user
        /\ newRow[r] # NoRow => r \in audited

\* Who has a stored message.
MessageByStage ==
    \A m \in messages :
        /\ m.convo = Conv(m.req)
        /\ pc[m.req] \in {"committed", "ok", "unsure"}
        /\ m.req \in audited
        /\ conv[m.convo].owner = Call[m.req].user

\* What COMMIT has confirmed is stored for as long as the conversation is.
ConfirmedIsStored ==
    \A r \in Request :
        Kind(r) = "send" /\ pc[r] \in {"committed", "ok"} /\ conv[Conv(r)] # NoRow =>
            \A s \in {"user", "bot"} : \E m \in messages : m.req = r /\ m.sender = s

\* Before its INSERT, a conversation does not exist and no send to it has been
\* confirmed: a deleted one does not come back.
CreatedOnce ==
    \A q \in Request :
        Kind(q) = "create" /\ pc[q] \in {"idle", "connect", "stmt", "orphan"} =>
            /\ conv[Conv(q)] = NoRow
            /\ \A r \in Request : Kind(r) = "send" /\ Conv(r) = Conv(q) =>
                  pc[r] \notin {"committed", "ok"}

Accounted ==
    /\ Inductive
    /\ StageFitsKind /\ RowLockByStage /\ ClientByStage /\ QueueByStage
    /\ WriterIsOwner /\ MessageByStage /\ ConfirmedIsStored /\ CreatedOnce

-----------------------------------------------------------------------------
(* The parts of the step                                                   *)

\* Two facts in the form in which the steps below use them.
LEMMA Typed ==
    ASSUME TypeOK
    PROVE  /\ pc \in [Request -> Stage] /\ staged \in [Request -> SUBSET Message]
           /\ newRow \in [Request -> Row \cup {NoRow}]
           /\ conv \in [Conversation -> Row \cup {NoRow}]
           /\ messages \subseteq Message
           /\ rowLock \in [Conversation -> Request \cup {Nobody}]
           /\ activeLocks \in [Instance -> [Conversation -> Request \cup {Nobody}]]
           /\ clients \subseteq Request \X {"main", "rules"}
           /\ audited \subseteq Request
           /\ \A q \in Request : Conv(q) \in Conversation /\ At(q) \in Instance /\ q # Nobody
  BY CallType, NullAssumption DEF TypeOK

\* What a crash does to a request: nothing, when it is another instance's or
\* has been answered or not made.
LEMMA CrashStage ==
    ASSUME TypeOK, NEW i \in Instance, Crash(i), NEW r \in Request
    PROVE  \/ pc'[r] = pc[r] /\ (At(r) # i \/ pc[r] \in Answered \cup {"idle"})
           \/ /\ At(r) = i /\ pc'[r] = "unsure"
              /\ pc[r] \in {"mutex", "connect"} \cup Settled
           \/ /\ At(r) = i /\ pc'[r] = "orphan"
              /\ pc[r] \notin {"idle", "mutex", "connect"} \cup Settled \cup Answered
  BY Typed DEF Crash, Answered, Settled

LEMMA KindStep == Accounted /\ [Next]_vars => StageFitsKind'
  <1> SUFFICES ASSUME Accounted, [Next]_vars, NEW r \in Request
               PROVE  /\ pc'[r] \in {"mutex", "lock", "rollback", "committed"} \cup Locked =>
                            Kind(r) = "send"
                      /\ pc'[r] \in {"stmt", "missed", "done"} => Kind(r) # "send"
                      /\ staged'[r] # {} => Kind(r) = "send"
    BY DEF StageFitsKind, Kind
  <1> DEFINE Fits == /\ pc'[r] \in {"mutex", "lock", "rollback", "committed"} \cup Locked =>
                            Kind(r) = "send"
                     /\ pc'[r] \in {"stmt", "missed", "done"} => Kind(r) # "send"
                     /\ staged'[r] # {} => Kind(r) = "send"
  <1> USE DEF Goto, tx, store, Locked
  <1>a. TypeOK /\ StageFitsKind
    BY DEF Accounted, Inductive
  <1>b. /\ pc \in [Request -> Stage] /\ staged \in [Request -> SUBSET Message]
    BY <1>a, Typed
  <1>0. CASE UNCHANGED vars
    BY <1>0, <1>a DEF vars, StageFitsKind
  <1>1. ASSUME NEW q \in Request,
               \/ Arrive(q) \/ AcquireMutex(q) \/ Connect(q) \/ ConnectTimeout(q)
               \/ LockRow(q) \/ LockForeign(q) \/ LockMissing(q) \/ BotCached(q)
               \/ BotMiss(q) \/ RulesConnect(q) \/ RulesTimeout(q) \/ RulesAnswer(q)
               \/ UpdateRow(q) \/ ReplySent(q) \/ Statement(q) \/ StatementMiss(q)
               \/ StatementOk(q) \/ NotFound(q) \/ BotFail(q)
        PROVE  Fits
    BY <1>1, <1>a, <1>b DEF StageFitsKind, Arrive, AcquireMutex, Connect, ConnectTimeout,
         LockRow, LockForeign, LockMissing, BotCached, BotMiss, RulesConnect,
         RulesTimeout, RulesAnswer, UpdateRow, ReplySent, Statement, StatementMiss,
         StatementOk, NotFound, BotFail, Execute, Create, Rename, Delete
  <1>2. ASSUME NEW q \in Request,
               \/ InsertUser(q) \/ InsertBot(q) \/ InsertUserDuplicate(q) \/ Commit(q)
               \/ Rollback(q) \/ OrphanCommit(q) \/ OrphanStatement(q) \/ OrphanAbort(q)
        PROVE  Fits
    BY <1>2, <1>a, <1>b DEF StageFitsKind, InsertUser, InsertBot, InsertUserDuplicate,
         Commit, Rollback, OrphanCommit, OrphanStatement, OrphanAbort, Abort, Apply
  <1>3. ASSUME NEW q \in Request, ConnectionLost(q) PROVE Fits
    BY <1>3, <1>a, <1>b DEF StageFitsKind, ConnectionLost
  <1>4. ASSUME NEW i \in Instance, Crash(i) PROVE Fits
    BY <1>4, <1>a, <1>b DEF StageFitsKind, Crash
  <1> QED BY <1>0, <1>1, <1>2, <1>3, <1>4 DEF Next, Work

LEMMA RowLockStep == Accounted /\ [Next]_vars => RowLockByStage'
  <1> SUFFICES ASSUME Accounted, [Next]_vars, NEW r \in Request, NEW c \in Conversation,
                      rowLock'[c] = r
               PROVE  /\ Conv(r) = c /\ Kind(r) = "send"
                      /\ pc'[r] \in {"rollback", "orphan"} \cup Locked
    BY DEF RowLockByStage, Conv, Kind
  <1> DEFINE Fits == /\ Conv(r) = c /\ Kind(r) = "send"
                     /\ pc'[r] \in {"rollback", "orphan"} \cup Locked
  <1> USE DEF Goto, tx, store, Locked
  <1>a. TypeOK /\ StageFitsKind /\ RowLockByStage
    BY DEF Accounted, Inductive
  <1>b. /\ pc \in [Request -> Stage]
        /\ rowLock \in [Conversation -> Request \cup {Nobody}]
        /\ \A q \in Request : Conv(q) \in Conversation /\ q # Nobody
    BY <1>a, Typed
  <1>0. CASE UNCHANGED vars
    BY <1>0, <1>a DEF vars, RowLockByStage
  <1>1. ASSUME NEW q \in Request,
               \/ Arrive(q) \/ AcquireMutex(q) \/ Connect(q) \/ ConnectTimeout(q)
               \/ LockMissing(q) \/ BotCached(q) \/ InsertUser(q) \/ InsertBot(q)
               \/ BotMiss(q) \/ RulesConnect(q) \/ RulesTimeout(q) \/ RulesAnswer(q)
               \/ UpdateRow(q) \/ ReplySent(q) \/ Statement(q) \/ StatementMiss(q)
               \/ StatementOk(q) \/ NotFound(q) \/ BotFail(q)
        PROVE  Fits
    BY <1>1, <1>a, <1>b DEF RowLockByStage, Arrive, AcquireMutex, Connect, ConnectTimeout,
         LockMissing, BotCached, InsertUser, InsertBot, BotMiss, RulesConnect,
         RulesTimeout, RulesAnswer, UpdateRow, ReplySent, Statement, StatementMiss,
         StatementOk, NotFound, BotFail
  <1>2. ASSUME NEW q \in Request, LockRow(q) \/ LockForeign(q) PROVE Fits
    BY <1>2, <1>a, <1>b DEF StageFitsKind, RowLockByStage, LockRow, LockForeign
  \* The end of a transaction frees the only row it can have locked.
  <1>3. ASSUME NEW q \in Request,
               InsertUserDuplicate(q) \/ Rollback(q) \/ OrphanAbort(q)
        PROVE  Fits
    BY <1>3, <1>a, <1>b DEF RowLockByStage, InsertUserDuplicate, Rollback, OrphanAbort, Abort
  <1>4. ASSUME NEW q \in Request, Commit(q) \/ OrphanCommit(q) PROVE Fits
    BY <1>4, <1>a, <1>b DEF RowLockByStage, Commit, OrphanCommit, Apply
  <1>5. ASSUME NEW q \in Request, OrphanStatement(q) PROVE Fits
    BY <1>5, <1>a, <1>b DEF RowLockByStage, OrphanStatement, Execute, Create, Rename, Delete
  <1>6. ASSUME NEW q \in Request, ConnectionLost(q) PROVE Fits
    BY <1>6, <1>a, <1>b DEF RowLockByStage, ConnectionLost, Settled
  <1>7. ASSUME NEW i \in Instance, Crash(i) PROVE Fits
    BY <1>7, <1>a, <1>b DEF RowLockByStage, Crash, Settled, Answered
  <1> QED BY <1>0, <1>1, <1>2, <1>3, <1>4, <1>5, <1>6, <1>7 DEF Next, Work

LEMMA ClientStep == Accounted /\ [Next]_vars => ClientByStage'
  <1> SUFFICES ASSUME Accounted, [Next]_vars, NEW r \in Request
               PROVE  /\ <<r, "main">> \in clients' => pc'[r] \in OnWire \cup Locked
                      /\ <<r, "rules">> \in clients' => pc'[r] = "query"
    BY DEF ClientByStage
  <1> DEFINE Fits == /\ <<r, "main">> \in clients' => pc'[r] \in OnWire \cup Locked
                     /\ <<r, "rules">> \in clients' => pc'[r] = "query"
  <1> USE DEF Goto, tx, store, Locked, OnWire
  <1>a. TypeOK /\ ClientByStage
    BY DEF Accounted, Inductive
  <1>b. /\ pc \in [Request -> Stage]
        /\ clients \subseteq Request \X {"main", "rules"}
        /\ <<r, "main">> # <<r, "rules">>
    BY <1>a, Typed
  <1>0. CASE UNCHANGED vars
    BY <1>0, <1>a DEF vars, ClientByStage
  <1>1. ASSUME NEW q \in Request,
               \/ Arrive(q) \/ AcquireMutex(q) \/ LockRow(q) \/ LockForeign(q)
               \/ LockMissing(q) \/ BotCached(q) \/ InsertUser(q) \/ InsertBot(q)
               \/ InsertUserDuplicate(q) \/ BotMiss(q) \/ RulesTimeout(q)
               \/ UpdateRow(q) \/ Commit(q) \/ Statement(q) \/ StatementMiss(q)
               \/ OrphanCommit(q) \/ OrphanStatement(q) \/ OrphanAbort(q)
        PROVE  Fits
    <2>1. UNCHANGED clients
      BY <1>1 DEF process, Arrive, AcquireMutex, LockRow, LockForeign, LockMissing, BotCached,
           InsertUser, InsertBot, InsertUserDuplicate, BotMiss, RulesTimeout, UpdateRow, Commit,
           Statement, StatementMiss, OrphanCommit, OrphanStatement, OrphanAbort
    <2>2. \/ pc'[r] = pc[r]
          \/ pc[r] \in {"idle", "mutex", "orphan"}
          \/ pc[r] \in (OnWire \cup Locked) \ {"query"} /\ pc'[r] \in OnWire \cup Locked
      BY <1>1, <1>b DEF Arrive, AcquireMutex, LockRow, LockForeign, LockMissing, BotCached,
           InsertUser, InsertBot, InsertUserDuplicate, BotMiss, RulesTimeout, UpdateRow, Commit,
           Statement, StatementMiss, OrphanCommit, OrphanStatement, OrphanAbort
    <2> QED BY <2>1, <2>2, <1>a DEF ClientByStage
  <1>2. ASSUME NEW q \in Request, Connect(q) PROVE Fits
    BY <1>2, <1>a, <1>b DEF ClientByStage, Connect
  <1>3. ASSUME NEW q \in Request, RulesConnect(q) \/ RulesAnswer(q) \/ BotFail(q) PROVE Fits
    BY <1>3, <1>a, <1>b DEF ClientByStage, RulesConnect, RulesAnswer, BotFail
  \* Every answer releases all clients of its request.
  <1>4. ASSUME NEW q \in Request,
               \/ ConnectTimeout(q) \/ Rollback(q) \/ ReplySent(q) \/ StatementOk(q)
               \/ NotFound(q) \/ ConnectionLost(q)
        PROVE  Fits
    <2>1. clients' = {x \in clients : x[1] # q}
      BY <1>4 DEF ConnectTimeout, Rollback, ReplySent, StatementOk, NotFound, ConnectionLost,
           ReleaseAll
    <2>2. r # q => pc'[r] = pc[r]
      BY <1>4, <1>b DEF ConnectTimeout, Rollback, ReplySent, StatementOk, NotFound,
           ConnectionLost
    <2> QED BY <2>1, <2>2, <1>a DEF ClientByStage
  <1>5. ASSUME NEW i \in Instance, Crash(i) PROVE Fits
    <2>1. clients' = {x \in clients : At(x[1]) # i}
      BY <1>5 DEF Crash
    <2>2. At(r) # i => pc'[r] = pc[r]
      BY <1>5, <1>a, CrashStage
    <2>3. At(<<r, "main">>[1]) = At(r) /\ At(<<r, "rules">>[1]) = At(r)
      OBVIOUS
    <2> QED BY <2>1, <2>2, <2>3, <1>a DEF ClientByStage
  <1> QED BY <1>0, <1>1, <1>2, <1>3, <1>4, <1>5 DEF Next, Work

LEMMA QueueStep == Accounted /\ [Next]_vars => QueueByStage'
  <1> DEFINE Mine(r) == activeLocks[At(r)][Conv(r)] = r
             Waits(r) == Kind(r) = "send" /\ pc[r] \in Queued
  <1> SUFFICES ASSUME Accounted, [Next]_vars, NEW r \in Request
               PROVE  Mine(r)' <=> Waits(r)'
    BY DEF QueueByStage, At, Conv, Kind
  <1> USE DEF Goto, tx, store, Locked, Queued
  <1>a. TypeOK /\ StageFitsKind /\ QueueByStage
    BY DEF Accounted, Inductive
  <1>b. /\ pc \in [Request -> Stage]
        /\ activeLocks \in [Instance -> [Conversation -> Request \cup {Nobody}]]
        /\ \A q \in Request : Conv(q) \in Conversation /\ At(q) \in Instance /\ q # Nobody
    BY <1>a, Typed
  <1>c. Mine(r) <=> Waits(r)
    BY <1>a DEF QueueByStage
  <1>0. CASE UNCHANGED vars
    BY <1>0, <1>c DEF vars, At, Conv, Kind
  <1>1. ASSUME NEW q \in Request,
               \/ Arrive(q) \/ Connect(q) \/ LockRow(q) \/ LockForeign(q)
               \/ LockMissing(q) \/ BotCached(q) \/ InsertUser(q) \/ InsertBot(q)
               \/ InsertUserDuplicate(q) \/ BotMiss(q) \/ RulesConnect(q) \/ RulesTimeout(q)
               \/ RulesAnswer(q) \/ BotFail(q) \/ UpdateRow(q) \/ Commit(q)
               \/ Statement(q) \/ StatementMiss(q)
               \/ OrphanCommit(q) \/ OrphanStatement(q) \/ OrphanAbort(q)
        PROVE  Mine(r)' <=> Waits(r)'
    <2>1. activeLocks' = activeLocks
      BY <1>1 DEF process, Arrive, Connect, LockRow, LockForeign, LockMissing, BotCached,
           InsertUser, InsertBot, InsertUserDuplicate, BotMiss, RulesConnect, RulesTimeout,
           RulesAnswer, BotFail, UpdateRow, Commit, Statement, StatementMiss,
           OrphanCommit, OrphanStatement, OrphanAbort
    <2>2. Kind(r) = "send" => (pc'[r] \in Queued <=> pc[r] \in Queued)
      BY <1>1, <1>a, <1>b DEF StageFitsKind, Arrive, Connect, LockRow, LockForeign, LockMissing,
           BotCached, InsertUser, InsertBot, InsertUserDuplicate, BotMiss, RulesConnect,
           RulesTimeout, RulesAnswer, BotFail, UpdateRow, Commit, Statement, StatementMiss,
           OrphanCommit, OrphanStatement, OrphanAbort
    <2> QED BY <2>1, <2>2, <1>c DEF At, Conv, Kind
  <1>2. ASSUME NEW q \in Request, AcquireMutex(q) PROVE Mine(r)' <=> Waits(r)'
    <2>1. /\ activeLocks[At(q)][Conv(q)] = Nobody
          /\ activeLocks' = [activeLocks EXCEPT ![At(q)][Conv(q)] = q]
          /\ pc[q] = "mutex" /\ pc' = [pc EXCEPT ![q] = "connect"]
      BY <1>2 DEF AcquireMutex
    <2>2. CASE r = q
      <3>1. Kind(r) = "send"
        BY <2>1, <2>2, <1>a DEF StageFitsKind
      <3>2. activeLocks'[At(r)][Conv(r)] = r /\ pc'[r] = "connect"
        BY <2>1, <2>2, <1>b
      <3> QED BY <3>1, <3>2 DEF At, Conv, Kind
    <2>3. CASE r # q
      <3>1. pc'[r] = pc[r]
        BY <2>1, <2>3, <1>b
      <3>2. CASE At(r) = At(q) /\ Conv(r) = Conv(q)
        <4>1. ~Mine(r) /\ activeLocks'[At(r)][Conv(r)] = q
          BY <2>1, <3>2, <1>b
        <4> QED BY <4>1, <3>1, <2>3, <1>c DEF At, Conv, Kind
      <3>3. CASE ~(At(r) = At(q) /\ Conv(r) = Conv(q))
        <4>1. activeLocks'[At(r)][Conv(r)] = activeLocks[At(r)][Conv(r)]
          BY <2>1, <3>3, <1>b
        <4> QED BY <4>1, <3>1, <1>c DEF At, Conv, Kind
      <3> QED BY <3>2, <3>3
    <2> QED BY <2>2, <2>3
  \* An answer gives up the place, if the request has it, and no other's.
  <1>3. ASSUME NEW q \in Request,
               \/ ConnectTimeout(q) \/ Rollback(q) \/ ReplySent(q) \/ StatementOk(q)
               \/ NotFound(q) \/ ConnectionLost(q)
        PROVE  Mine(r)' <=> Waits(r)'
    <2>1. activeLocks' = [activeLocks EXCEPT ![At(q)][Conv(q)] = IF @ = q THEN Nobody ELSE @]
      BY <1>3 DEF ConnectTimeout, Rollback, ReplySent, StatementOk, NotFound, ConnectionLost,
           ReleaseAll
    <2>2. /\ r # q => pc'[r] = pc[r]
          /\ r = q => pc'[r] \in Answered
      BY <1>3, <1>b DEF ConnectTimeout, Rollback, ReplySent, StatementOk, NotFound,
           ConnectionLost, Answered
    <2>3. activeLocks'[At(r)][Conv(r)] = r <=> activeLocks[At(r)][Conv(r)] = r /\ r # q
      BY <2>1, <1>b
    <2> QED BY <2>2, <2>3, <1>c DEF Answered, At, Conv, Kind
  <1>4. ASSUME NEW i \in Instance, Crash(i) PROVE Mine(r)' <=> Waits(r)'
    <2>1. activeLocks' = [activeLocks EXCEPT ![i] = [c \in Conversation |-> Nobody]]
      BY <1>4 DEF Crash
    <2>2. CASE At(r) = i
      <3>1. activeLocks'[At(r)][Conv(r)] = Nobody
        BY <2>1, <2>2, <1>b
      <3>2. pc'[r] \in Answered \cup {"idle"}
        BY <1>4, <2>2, <1>a, CrashStage DEF Answered
      <3> QED BY <3>1, <3>2, <1>b DEF Answered, At, Conv, Kind
    <2>3. CASE At(r) # i
      <3>1. activeLocks'[At(r)][Conv(r)] = activeLocks[At(r)][Conv(r)]
        BY <2>1, <2>3, <1>b
      <3>2. pc'[r] = pc[r]
        BY <1>4, <2>3, <1>a, CrashStage
      <3> QED BY <3>1, <3>2, <1>c DEF At, Conv, Kind
    <2> QED BY <2>2, <2>3
  <1> QED BY <1>0, <1>1, <1>2, <1>3, <1>4 DEF Next, Work

\* While r holds its row lock in these stages, the owner of the row cannot change.
LEMMA WriterStep == Accounted /\ [Next]_vars => WriterIsOwner'
  <1> SUFFICES ASSUME Accounted, [Next]_vars, NEW r \in Request
               PROVE  /\ pc'[r] \in Locked \/ newRow'[r] # NoRow =>
                            conv'[Conv(r)].owner = Call[r].user
                      /\ newRow'[r] # NoRow => r \in audited'
    BY DEF WriterIsOwner, Conv
  <1> DEFINE Enters == /\ pc'[r] \in Locked \/ newRow'[r] # NoRow =>
                            pc[r] \in Locked \/ newRow[r] # NoRow
                       /\ newRow'[r] # NoRow => r \in audited'
  <1> USE DEF Goto, tx, store, Locked
  <1>a. TypeOK /\ WriterIsOwner /\ CountIsCurrent /\ CountIsCurrent' /\ Inductive
    BY CountStep DEF Accounted, Inductive
  <1>b. /\ pc \in [Request -> Stage] /\ newRow \in [Request -> Row \cup {NoRow}]
        /\ conv \in [Conversation -> Row \cup {NoRow}]
        /\ \A q \in Request : Conv(q) \in Conversation
    BY <1>a, Typed
  <1>0. CASE UNCHANGED vars
    BY <1>0, <1>a DEF vars, WriterIsOwner
  <1>1. CASE LockRow(r)
    <2>1. conv' = conv /\ newRow' = newRow /\ conv[Conv(r)].owner = Call[r].user
          /\ audited' = audited
      BY <1>1 DEF LockRow
    <2> QED BY <2>1, <1>a DEF WriterIsOwner
  <1>2. ASSUME NEW q \in Request,
               \/ Arrive(q) \/ AcquireMutex(q) \/ Connect(q) \/ ConnectTimeout(q)
               \/ LockForeign(q) \/ LockMissing(q) \/ BotCached(q) \/ InsertUser(q)
               \/ BotMiss(q) \/ RulesConnect(q) \/ RulesTimeout(q) \/ RulesAnswer(q)
               \/ BotFail(q) \/ InsertBot(q) \/ UpdateRow(q) \/ ReplySent(q)
               \/ Statement(q) \/ StatementMiss(q) \/ StatementOk(q) \/ NotFound(q)
               \/ OrphanStatement(q) \/ ConnectionLost(q) \/ (LockRow(q) /\ q # r)
        PROVE  Enters
    BY <1>2, <1>a, <1>b DEF WriterIsOwner, Arrive, AcquireMutex, Connect, ConnectTimeout,
         LockRow, LockForeign, LockMissing, BotCached, InsertUser, BotMiss, RulesConnect,
         RulesTimeout, RulesAnswer, BotFail, InsertBot, UpdateRow, ReplySent, Statement,
         StatementMiss, StatementOk, NotFound, OrphanStatement, ConnectionLost
  <1>3. ASSUME NEW q \in Request,
               \/ InsertUserDuplicate(q) \/ Rollback(q) \/ OrphanAbort(q)
               \/ Commit(q) \/ OrphanCommit(q)
        PROVE  Enters
    BY <1>3, <1>a, <1>b DEF WriterIsOwner, InsertUserDuplicate, Rollback, OrphanAbort,
         Commit, OrphanCommit, Abort, Apply
  <1>4. ASSUME NEW i \in Instance, Crash(i) PROVE Enters
    BY <1>4, <1>a, <1>b DEF WriterIsOwner, Crash
  <1>5. Next /\ ~LockRow(r) => Enters
    BY <1>2, <1>3, <1>4 DEF Next, Work
  <1>6. ASSUME Next, Enters
        PROVE  pc'[r] \in Locked \/ newRow'[r] # NoRow =>
                  conv'[Conv(r)].owner = Call[r].user
    BY <1>6, <1>a, LockRespected DEF WriterIsOwner, CountIsCurrent
  <1> QED BY <1>0, <1>1, <1>5, <1>6

\* How the stage of a request with a stored or confirmed message can go on,
\* and how it gets there.
LEMMA StageMoves ==
    ASSUME Accounted, [Next]_vars, NEW r \in Request
    PROVE  /\ pc[r] \in {"committed", "ok", "unsure"} =>
                 pc'[r] \in {"committed", "ok", "unsure"} /\ (pc[r] = "unsure" => pc'[r] = "unsure")
           /\ Kind(r) = "send" /\ pc'[r] \in {"committed", "ok"} =>
                 pc[r] \in {"committed", "ok"} \/ Commit(r)
           /\ Kind(r) = "create" /\ pc'[r] \in {"idle", "connect", "stmt", "orphan"} =>
                 pc[r] \in {"idle", "connect", "stmt", "orphan"}
  <1> DEFINE Fits ==
        /\ pc[r] \in {"committed", "ok", "unsure"} =>
              pc'[r] \in {"committed", "ok", "unsure"} /\ (pc[r] = "unsure" => pc'[r] = "unsure")
        /\ Kind(r) = "send" /\ pc'[r] \in {"committed", "ok"} =>
              pc[r] \in {"committed", "ok"} \/ Commit(r)
        /\ Kind(r) = "create" /\ pc'[r] \in {"idle", "connect", "stmt", "orphan"} =>
              pc[r] \in {"idle", "connect", "stmt", "orphan"}
  <1> USE DEF Goto, tx, store, Locked
  <1>a. TypeOK /\ StageFitsKind
    BY DEF Accounted, Inductive
  <1>b. pc \in [Request -> Stage]
    BY <1>a, Typed
  <1>0. CASE UNCHANGED vars
    BY <1>0 DEF vars
  <1>1. ASSUME NEW q \in Request,
               \/ Arrive(q) \/ AcquireMutex(q) \/ Connect(q) \/ ConnectTimeout(q) \/ LockRow(q)
               \/ LockForeign(q) \/ LockMissing(q) \/ BotCached(q) \/ InsertUser(q)
               \/ InsertUserDuplicate(q)
               \/ BotMiss(q) \/ RulesConnect(q) \/ RulesTimeout(q) \/ RulesAnswer(q)
               \/ BotFail(q) \/ InsertBot(q) \/ UpdateRow(q) \/ ReplySent(q)
               \/ Statement(q) \/ StatementMiss(q) \/ StatementOk(q) \/ NotFound(q)
               \/ OrphanStatement(q) \/ OrphanCommit(q) \/ OrphanAbort(q) \/ Rollback(q)
               \/ ConnectionLost(q)
        PROVE  Fits
    BY <1>1, <1>a, <1>b DEF StageFitsKind, Arrive, AcquireMutex, Connect, ConnectTimeout, LockRow,
         LockForeign, LockMissing, BotCached, InsertUser, InsertUserDuplicate, BotMiss,
         RulesConnect, RulesTimeout, RulesAnswer, BotFail, InsertBot, UpdateRow, ReplySent,
         Statement, StatementMiss, StatementOk, NotFound, OrphanStatement, OrphanCommit,
         OrphanAbort, Rollback, ConnectionLost, OnWire, Settled
  <1>2. ASSUME NEW q \in Request, Commit(q) PROVE Fits
    BY <1>2, <1>a, <1>b DEF StageFitsKind, Commit
  <1>3. ASSUME NEW i \in Instance, Crash(i) PROVE Fits
    BY <1>3, <1>a, <1>b, CrashStage DEF StageFitsKind, Answered, Settled, Stage, OnWire
  <1> QED BY <1>0, <1>1, <1>2, <1>3 DEF Next, Work

LEMMA AuditedGrows == [Next]_vars => audited \subseteq audited'
  <1> SUFFICES ASSUME [Next]_vars PROVE audited \subseteq audited'
    OBVIOUS
  <1>0. CASE UNCHANGED vars
    BY <1>0 DEF vars
  <1>1. ASSUME NEW r \in Request, Arrive(r) \/ Work(r) \/ BotFail(r) \/ ConnectionLost(r)
        PROVE  audited \subseteq audited'
    BY <1>1 DEF Work, Arrive, AcquireMutex, Connect, ConnectTimeout, LockRow, LockForeign,
         LockMissing, BotCached, InsertUser, InsertUserDuplicate, BotMiss, RulesConnect,
         RulesTimeout, RulesAnswer, BotFail, InsertBot, UpdateRow, Commit, ReplySent,
         Statement, StatementMiss, StatementOk, NotFound, OrphanStatement, OrphanCommit,
         OrphanAbort, Rollback, ConnectionLost
  <1>2. ASSUME NEW i \in Instance, Crash(i) PROVE audited \subseteq audited'
    BY <1>2 DEF Crash
  <1> QED BY <1>0, <1>1, <1>2 DEF Next

\* Who commits has an answer to await, or nobody who awaits it; and a statement
\* is executed when it was sent.
LEMMA AppliedStage ==
    ASSUME TypeOK, NEW r \in Request
    PROVE  /\ Commit(r) \/ OrphanCommit(r) => pc'[r] \in {"committed", "unsure"}
           /\ Statement(r) \/ OrphanStatement(r) =>
                 pc[r] \in {"stmt", "orphan"} /\ pc'[r] \in {"done", "unsure"}
  BY DEF TypeOK, Commit, OrphanCommit, Statement, OrphanStatement, Goto

\* The table of messages gains the exchange of a request that commits, or loses
\* those of a conversation that goes away.
LEMMA MessageStep == Accounted /\ [Next]_vars => MessageByStage'
  <1> SUFFICES ASSUME Accounted, [Next]_vars, NEW m \in messages'
               PROVE  /\ m.convo = Conv(m.req)
                      /\ pc'[m.req] \in {"committed", "ok", "unsure"}
                      /\ m.req \in audited'
                      /\ conv'[m.convo].owner = Call[m.req].user
    BY DEF MessageByStage, Conv
  <1> DEFINE Fits == /\ m.convo = Conv(m.req)
                     /\ pc'[m.req] \in {"committed", "ok", "unsure"}
                     /\ m.req \in audited'
                     /\ conv'[m.convo].owner = Call[m.req].user
  <1>a. TypeOK /\ MessageByStage /\ WriterIsOwner /\ Inductive /\ SeqInRange
    BY DEF Accounted, Inductive, SequenceExact
  <1>b. /\ messages \subseteq Message /\ pc \in [Request -> Stage]
        /\ conv \in [Conversation -> Row \cup {NoRow}]
        /\ \A q \in Request : Conv(q) \in Conversation
    BY <1>a, Typed
  <1>c. audited \subseteq audited'
    BY AuditedGrows
  <1>d. ASSUME m \in messages
        PROVE  /\ m.req \in Request /\ m.convo \in Conversation /\ m.convo = Conv(m.req)
               /\ pc'[m.req] \in {"committed", "ok", "unsure"} /\ m.req \in audited'
    <2>1. m.req \in Request /\ m.convo \in Conversation
      BY <1>b, <1>d DEF Message
    <2> QED BY <2>1, <1>a, <1>c, <1>d, StageMoves DEF MessageByStage
  <1>0. CASE UNCHANGED <<conv, messages>>
    BY <1>0, <1>a, <1>d DEF MessageByStage
  <1>1. ASSUME NEW r \in Request, newRow[r] # NoRow, Apply(r), Commit(r) \/ OrphanCommit(r)
        PROVE  Fits
    <2>1. /\ messages' = messages \cup staged[r]
          /\ conv' = [conv EXCEPT ![Conv(r)] = newRow[r]]
      BY <1>1 DEF Apply
    <2>2. newRow[r].owner = conv[Conv(r)].owner
      <3>1. newRow[r] = [owner |-> conv[Conv(r)].owner, count |-> conv[Conv(r)].count + 2,
                         version |-> conv[Conv(r)].version + 1]
        BY <1>1, <1>a, Prepared
      <3> QED BY <3>1
    <2>3. staged[r] = {UserMessage(r), BotMessage(r)}
      BY <1>1, <1>a DEF Inductive, StagedByStage
    <2>4. CASE m \in messages
      <3>1. conv'[m.convo].owner = conv[m.convo].owner
        BY <2>1, <2>4, <2>2, <1>b, <1>d
      <3> QED BY <3>1, <2>4, <1>a, <1>d DEF MessageByStage
    <2>5. CASE m \in staged[r]
      <3>1. m.req = r /\ m.convo = Conv(r)
        BY <2>5, <2>3 DEF UserMessage, BotMessage
      <3>2. r \in audited /\ conv[Conv(r)].owner = Call[r].user
        BY <1>1, <1>a DEF WriterIsOwner
      <3>3. conv'[Conv(r)].owner = Call[r].user
        BY <2>1, <2>2, <3>2, <1>b
      <3>4. pc'[r] \in {"committed", "ok", "unsure"}
        BY <1>1, <1>a, AppliedStage
      <3> QED BY <3>1, <3>2, <3>3, <3>4, <1>c
    <2> QED BY <2>1, <2>4, <2>5
  <1>2. ASSUME NEW r \in Request, Execute(r) PROVE Fits
    <2>1. m \in messages
      BY <1>2 DEF Execute, Create, Rename, Delete
    <2>2. conv[m.convo] # NoRow
      BY <2>1, <1>a DEF SeqInRange
    <2>3. CASE Create(r)
      <3>1. conv'[m.convo] = conv[m.convo]
        BY <2>2, <2>3, <2>1, <1>b, <1>d DEF Create
      <3> QED BY <2>1, <3>1, <1>a, <1>d DEF MessageByStage
    <2>4. CASE Rename(r)
      <3>1. conv[m.convo] \in Row
        BY <2>1, <2>2, <1>b, <1>d
      <3>2. conv'[m.convo].owner = conv[m.convo].owner
        BY <2>4, <3>1, <2>1, <1>b, <1>d DEF Rename, Row
      <3> QED BY <2>1, <3>2, <1>a, <1>d DEF MessageByStage
    <2>5. CASE Delete(r)
      <3>1. conv'[m.convo] = conv[m.convo]
        BY <2>5, <2>1, <1>b, <1>d DEF Delete
      <3> QED BY <2>1, <3>1, <1>a, <1>d DEF MessageByStage
    <2> QED BY <1>2, <2>3, <2>4, <2>5 DEF Execute
  <1>3. CASE UNCHANGED vars
    BY <1>0, <1>3 DEF vars
  <1> QED BY <1>0, <1>1, <1>2, <1>3, <1>a, TableChange

LEMMA ConfirmedStep == Accounted /\ [Next]_vars => ConfirmedIsStored'
  <1> SUFFICES ASSUME Accounted, [Next]_vars, NEW r \in Request, NEW s \in {"user", "bot"},
                      Kind(r) = "send", pc'[r] \in {"committed", "ok"},
                      conv'[Conv(r)] # NoRow
               PROVE  \E m \in messages' : m.req = r /\ m.sender = s
    BY DEF ConfirmedIsStored, Kind, Conv
  <1> DEFINE Stored == \E m \in messages : m.req = r /\ m.sender = s
  <1>a. /\ TypeOK /\ ConfirmedIsStored /\ MessageByStage /\ Inductive /\ CreatedOnce
        /\ StagedByStage
    BY DEF Accounted, Inductive
  <1>b. /\ messages \subseteq Message /\ pc \in [Request -> Stage]
        /\ conv \in [Conversation -> Row \cup {NoRow}]
        /\ \A q \in Request : Conv(q) \in Conversation
    BY <1>a, Typed
  <1>1. CASE Commit(r)
    <2>1. BotMessage(r) \in messages' /\ UserMessage(r) \in messages'
      BY <1>1, <1>a DEF Commit, Goto, Apply, StagedByStage
    <2>2. /\ BotMessage(r).req = r /\ BotMessage(r).sender = "bot"
          /\ UserMessage(r).req = r /\ UserMessage(r).sender = "user"
      BY DEF UserMessage, BotMessage
    <2> QED BY <2>1, <2>2
  <1>2. ASSUME ~Commit(r)
        PROVE  pc[r] \in {"committed", "ok"} /\ (conv[Conv(r)] # NoRow => Stored)
    BY <1>2, <1>a, StageMoves DEF ConfirmedIsStored
  <1>3. CASE UNCHANGED <<conv, messages>>
    BY <1>1, <1>2, <1>3
  <1>4. ASSUME NEW q \in Request, newRow[q] # NoRow, Apply(q), ~Commit(r)
        PROVE  \E m \in messages' : m.req = r /\ m.sender = s
    <2>1. conv[Conv(q)] # NoRow /\ conv' = [conv EXCEPT ![Conv(q)] = newRow[q]]
      BY <1>4, <1>a DEF Apply, Inductive, CountIsCurrent
    <2>2. conv[Conv(r)] # NoRow
      BY <2>1, <1>b
    <2> QED BY <2>2, <1>2, <1>4 DEF Apply
  <1>5. ASSUME NEW q \in Request, Execute(q), Statement(q) \/ OrphanStatement(q), ~Commit(r)
        PROVE  \E m \in messages' : m.req = r /\ m.sender = s
    <2>1. CASE Create(q)
      <3>1. pc[q] \in {"stmt", "orphan"} /\ Kind(q) = "create"
        BY <1>5, <2>1, <1>a, AppliedStage DEF Create
      <3>2. Conv(q) # Conv(r)
        BY <3>1, <1>2, <1>5, <1>a DEF CreatedOnce
      <3>3. conv[Conv(r)] # NoRow /\ messages' = messages
        BY <2>1, <3>2, <1>b DEF Create
      <3> QED BY <3>3, <1>2, <1>5
    <2>2. CASE Rename(q)
      BY <2>2, <1>2, <1>5, <1>b DEF Rename, Matches
    <2>3. CASE Delete(q)
      <3>1. Conv(q) # Conv(r) /\ conv[Conv(r)] # NoRow
        BY <2>3, <1>b DEF Delete
      <3>2. PICK m \in messages : m.req = r /\ m.sender = s
        BY <3>1, <1>2, <1>5
      <3>3. m.convo = Conv(r)
        BY <3>2, <1>a DEF MessageByStage
      <3> QED BY <2>3, <3>1, <3>2, <3>3 DEF Delete
    <2> QED BY <1>5, <2>1, <2>2, <2>3 DEF Execute
  <1>6. CASE UNCHANGED vars
    BY <1>3, <1>6 DEF vars
  <1> QED BY <1>1, <1>3, <1>4, <1>5, <1>6, <1>a, TableChange

LEMMA CreatedStep == Accounted /\ [Next]_vars => CreatedOnce'
  <1> DEFINE Before == {"idle", "connect", "stmt", "orphan"}
  <1> SUFFICES ASSUME Accounted, [Next]_vars, NEW q \in Request,
                      Kind(q) = "create", pc'[q] \in Before
               PROVE  /\ conv'[Conv(q)] = NoRow
                      /\ \A r \in Request : Kind(r) = "send" /\ Conv(r) = Conv(q) =>
                            pc'[r] \notin {"committed", "ok"}
    BY DEF CreatedOnce, Kind, Conv
  <1>a. TypeOK /\ CreatedOnce /\ Inductive /\ StagedByStage /\ CountIsCurrent
    BY DEF Accounted, Inductive
  <1>b. /\ conv \in [Conversation -> Row \cup {NoRow}]
        /\ \A r \in Request : Conv(r) \in Conversation
    BY <1>a, Typed
  <1>1. pc[q] \in Before
    BY StageMoves
  <1>2. /\ conv[Conv(q)] = NoRow
        /\ \A r \in Request : Kind(r) = "send" /\ Conv(r) = Conv(q) =>
              pc[r] \notin {"committed", "ok"}
    BY <1>1, <1>a DEF CreatedOnce
  <1>3. ASSUME NEW r \in Request, Kind(r) = "send", Conv(r) = Conv(q)
        PROVE  pc'[r] \notin {"committed", "ok"}
    <2>1. ~Commit(r)
      BY <1>2, <1>3, <1>a DEF Commit, Goto, StagedByStage, CountIsCurrent
    <2> QED BY <2>1, <1>2, <1>3, StageMoves
  <1>4. conv'[Conv(q)] = NoRow
    <2>1. ASSUME NEW r \in Request, newRow[r] # NoRow, Apply(r) PROVE conv'[Conv(q)] = NoRow
      BY <2>1, <1>2, <1>a, <1>b DEF Apply, CountIsCurrent
    <2>2. ASSUME NEW r \in Request, Execute(r), Statement(r) \/ OrphanStatement(r)
          PROVE  conv'[Conv(q)] = NoRow
      <3>1. CASE Create(r)
        <4>1. Kind(r) = "create" /\ pc'[r] \notin Before
          BY <3>1, <2>2, <1>a, AppliedStage DEF Create
        <4>2. r # q
          BY <4>1
        <4>3. Conv(r) # Conv(q)
          BY <4>1, <4>2, FreshIdAssumption DEF Kind, Conv
        <4> QED BY <3>1, <4>3, <1>2, <1>b DEF Create
      <3>2. CASE Rename(r)
        BY <3>2, <1>2, <1>b DEF Rename, Matches
      <3>3. CASE Delete(r)
        BY <3>3, <1>2, <1>b DEF Delete
      <3> QED BY <2>2, <3>1, <3>2, <3>3 DEF Execute
    <2>3. CASE UNCHANGED <<conv, messages>>
      BY <2>3, <1>2
    <2>4. CASE UNCHANGED vars
      BY <2>3, <2>4 DEF vars
    <2> QED BY <2>1, <2>2, <2>3, <2>4, <1>a, TableChange
  <1> QED BY <1>3, <1>4

-----------------------------------------------------------------------------
(* The invariant and what follows from it                                  *)

LEMMA AccountedInit == Init => Accounted
  <1> SUFFICES ASSUME Init PROVE Accounted
    OBVIOUS
  <1>1. Inductive /\ TypeOK
    BY InductiveInit DEF Inductive
  <1>2. \A r \in Request : pc[r] = "idle" /\ staged[r] = {} /\ newRow[r] = NoRow
    BY DEF Init
  <1>3. StageFitsKind /\ WriterIsOwner
    BY <1>2 DEF StageFitsKind, WriterIsOwner, Locked
  <1>4. RowLockByStage
    BY NullAssumption DEF Init, RowLockByStage
  <1>5. ClientByStage /\ MessageByStage
    BY DEF Init, ClientByStage, MessageByStage
  <1>6. QueueByStage
    <2>1. \A r \in Request : activeLocks[At(r)][Conv(r)] = Nobody
      BY CallType DEF Init
    <2> QED BY <1>2, <2>1, NullAssumption DEF QueueByStage, Queued, Locked
  <1>7. ConfirmedIsStored
    BY <1>2 DEF ConfirmedIsStored
  <1>8. CreatedOnce
    <2>1. \A q \in Request : Kind(q) = "create" => conv[Conv(q)] = NoRow
      BY CallType DEF Init
    <2> QED BY <1>2, <2>1 DEF CreatedOnce
  <1> QED BY <1>1, <1>3, <1>4, <1>5, <1>6, <1>7, <1>8 DEF Accounted

LEMMA AccountedStep == Accounted /\ [Next]_vars => Accounted'
  <1>1. Accounted /\ [Next]_vars => Inductive'
    BY TypeStep, CountStep, StagedStep, SequenceStep, KeyStep DEF Accounted, Inductive
  <1> QED BY <1>1, KindStep, RowLockStep, ClientStep, QueueStep, WriterStep, MessageStep,
       ConfirmedStep, CreatedStep DEF Accounted

\* Everything a request holds or has stored is accounted for by its stage.
THEOREM AccountedInvariant == Spec => []Accounted
  BY AccountedInit, AccountedStep, PTL DEF Spec

\* A success means stored, until the conversation is deleted; an error means
\* that nothing of the send is stored.
THEOREM AnswersAreTruthful == Spec => []AnswerTruthful
  <1>1. Accounted => AnswerTruthful
    <2> SUFFICES ASSUME Accounted, NEW r \in Request, Kind(r) = "send"
                 PROVE  /\ pc[r] = "ok" /\ conv[Conv(r)] # NoRow =>
                             \A s \in {"user", "bot"} :
                                \E m \in messages : m.req = r /\ m.sender = s
                        /\ pc[r] = "err" => \A m \in messages : m.req # r
      BY DEF AnswerTruthful
    <2>1. ConfirmedIsStored /\ MessageByStage
      BY DEF Accounted
    <2> QED BY <2>1 DEF ConfirmedIsStored, MessageByStage
  <1> QED BY AccountedInvariant, <1>1, PTL

\* An answered request holds no client, no place in the promise queue and,
\* unless its session is still open in the server, no row lock.
THEOREM NothingLeaks == Spec => []AnsweredHoldsNothing
  <1>1. Accounted => AnsweredHoldsNothing
    <2> SUFFICES ASSUME Accounted, NEW r \in Request, pc[r] \in Answered
                 PROVE  /\ \A x \in clients : x[1] # r
                        /\ activeLocks[At(r)][Conv(r)] # r
                        /\ pc[r] # "orphan" => \A c \in Conversation : rowLock[c] # r
      BY DEF AnsweredHoldsNothing
    <2>1. ClientByStage /\ QueueByStage /\ RowLockByStage /\ TypeOK
      BY DEF Accounted, Inductive
    <2>2. ASSUME NEW x \in clients PROVE x[1] # r
      <3>1. x = <<x[1], "main">> \/ x = <<x[1], "rules">>
        BY <2>1, Typed
      <3> QED BY <2>1, <3>1 DEF ClientByStage, OnWire, Locked, Answered
    <2>3. activeLocks[At(r)][Conv(r)] # r
      BY <2>1 DEF QueueByStage, Queued, Locked, Answered
    <2>4. pc[r] # "orphan" => \A c \in Conversation : rowLock[c] # r
      BY <2>1 DEF RowLockByStage, Locked, Answered
    <2> QED BY <2>2, <2>3, <2>4
  <1> QED BY AccountedInvariant, <1>1, PTL

\* The promise queue lets one send of a conversation at a time have a client
\* of its instance.
LEMMA OneSender == Accounted => OneSenderPerConversation
  <1> SUFFICES ASSUME Accounted, NEW x \in clients, NEW y \in clients,
                      x[2] = "main", y[2] = "main",
                      Kind(x[1]) = "send", Kind(y[1]) = "send",
                      At(x[1]) = At(y[1]), Conv(x[1]) = Conv(y[1])
               PROVE  x = y
    BY DEF OneSenderPerConversation
  <1>1. ClientByStage /\ QueueByStage /\ StageFitsKind /\ TypeOK
    BY DEF Accounted, Inductive
  <1>2. /\ x[1] \in Request /\ x = <<x[1], "main">>
        /\ y[1] \in Request /\ y = <<y[1], "main">>
    BY <1>1, Typed
  <1>3. ASSUME NEW z \in clients, z = <<z[1], "main">>, z[1] \in Request, Kind(z[1]) = "send"
        PROVE  activeLocks[At(z[1])][Conv(z[1])] = z[1]
    <2>1. pc[z[1]] \in OnWire \cup Locked
      BY <1>1, <1>3 DEF ClientByStage
    <2>2. pc[z[1]] \in Queued
      BY <1>1, <1>3, <2>1 DEF StageFitsKind, OnWire, Locked, Queued
    <2> QED BY <1>1, <1>3, <2>2 DEF QueueByStage
  <1>4. x[1] = y[1]
    BY <1>2, <1>3
  <1> QED BY <1>2, <1>4

THEOREM OneSenderAtATime == Spec => []OneSenderPerConversation
  BY AccountedInvariant, OneSender, PTL

\* Every message in a conversation was sent by its owner.
THEOREM MessagesAreTheOwners == Spec => []OwnerOnly
  <1>1. Accounted => OwnerOnly
    BY DEF Accounted, MessageByStage, OwnerOnly
  <1> QED BY AccountedInvariant, <1>1, PTL

\* Every stored message was reported to the audit log.
THEOREM StoredMeansAudited == Spec => []StoredIsAudited
  <1>1. Accounted => StoredIsAudited
    BY DEF Accounted, MessageByStage, StoredIsAudited
  <1> QED BY AccountedInvariant, <1>1, PTL

\* A pool with more clients than there are conversations is never full of
\* transactions that wait for another client or for a row.  (The statements of
\* renames and deletes that wait for a row count as clients that are not stuck.)
THEOREM PoolsDoNotGridlock ==
    ASSUME IsFiniteSet(Conversation), Cardinality(Conversation) < PoolMax
    PROVE  Spec => []NoPoolGridlock
  <1>1. ASSUME Accounted PROVE NoPoolGridlock
    <2> SUFFICES ASSUME NEW i \in Instance, PoolFull(i), \A x \in InUse(i) : Stuck(x[1])
                 PROVE  FALSE
      BY DEF NoPoolGridlock
    <2>1. ClientByStage /\ StageFitsKind /\ OneSenderPerConversation /\ TypeOK
      BY <1>1, OneSender DEF Accounted, Inductive
    \* Each of these clients runs the transaction of a send.
    <2>2. ASSUME NEW x \in InUse(i)
          PROVE  /\ x \in clients /\ x[1] \in Request /\ x[2] = "main"
                 /\ Kind(x[1]) = "send" /\ At(x[1]) = i /\ Conv(x[1]) \in Conversation
      <3>1. x \in clients /\ At(x[1]) = i
        BY DEF InUse
      <3>2. x[1] \in Request /\ (x = <<x[1], "main">> \/ x = <<x[1], "rules">>)
        BY <3>1, <2>1, Typed
      <3>3. pc[x[1]] \in {"rules", "lock"}
        BY <2>2 DEF Stuck
      <3>4. x = <<x[1], "main">>
        BY <3>1, <3>2, <3>3, <2>1 DEF ClientByStage
      <3>5. Kind(x[1]) = "send"
        BY <3>2, <3>3, <2>1 DEF StageFitsKind, Locked
      <3>6. x[2] = "main"
        BY <3>4
      <3> QED BY <3>1, <3>2, <3>5, <3>6, CallType
    \* So no two of them are in the same conversation.
    <2> DEFINE f == [x \in InUse(i) |-> Conv(x[1])]
    <2>3. f \in Injection(InUse(i), Conversation)
      <3>1. f \in [InUse(i) -> Conversation]
        BY <2>2
      <3>2. ASSUME NEW x \in InUse(i), NEW y \in InUse(i), f[x] = f[y] PROVE x = y
        <4>1. Conv(x[1]) = Conv(y[1])
          BY <3>2
        <4> QED BY <4>1, <2>1, <2>2 DEF OneSenderPerConversation
      <3> QED BY <3>1, <3>2 DEF Injection, IsInjective
    <2>4. Cardinality(InUse(i)) <= Cardinality(Conversation)
      BY <2>3, FS_Injection
    <2>5. Cardinality(InUse(i)) \in Nat /\ Cardinality(Conversation) \in Nat
      BY <2>3, FS_Injection, FS_CardinalityType
    <2> QED BY <2>4, <2>5, BoundAssumption DEF PoolFull
  <1>2. Accounted => NoPoolGridlock
    BY <1>1
  <1> QED BY AccountedInvariant, <1>2, PTL

-----------------------------------------------------------------------------
(* Every behaviour of ConversationService, seen through the mapping of     *)
(* ConversationRefinement, is a behaviour of ConversationLog.              *)

\* Two more facts of the committed rows: exchanges have two messages, and the
\* owner of a conversation never changes.
EvenCount ==
    \A c \in Conversation : conv[c] # NoRow => conv[c].count = 2 * (conv[c].count \div 2)
OwnerStays ==
    \A c \in Conversation : conv[c] # NoRow => conv[c].owner = Log!OwnerOf(c)

Mapped == Accounted /\ EvenCount /\ OwnerStays

-----------------------------------------------------------------------------
(* The invariant                                                           *)

\* A conversation that is created belongs to its one creator.
LEMMA OwnerOfCreated ==
    ASSUME NEW q \in Request, Kind(q) = "create"
    PROVE  Log!OwnerOf(Conv(q)) = Call[q].user
  <1>1. Log!Creator(Conv(q)) = {q}
    BY FreshIdAssumption DEF Log!Creator, Kind, Conv
  <1> QED BY <1>1 DEF Log!OwnerOf

LEMMA OwnerOfOld ==
    ASSUME NEW c \in Conversation, \A r \in Request : ~(Kind(r) = "create" /\ Conv(r) = c)
    PROVE  Log!OwnerOf(c) = Owner[c]
  <1>1. Log!Creator(c) = {}
    BY DEF Log!Creator, Kind, Conv
  <1> QED BY <1>1 DEF Log!OwnerOf

LEMMA MappedInit == Init => Mapped
  <1> SUFFICES ASSUME Init PROVE Mapped
    OBVIOUS
  <1>1. ASSUME NEW c \in Conversation, conv[c] # NoRow
        PROVE  conv[c].count = 0 /\ conv[c].owner = Owner[c] /\ Log!OwnerOf(c) = Owner[c]
    <2>1. conv[c] = [owner |-> Owner[c], count |-> 0, version |-> 1]
      BY <1>1 DEF Init
    <2>2. \A r \in Request : ~(Kind(r) = "create" /\ Conv(r) = c)
      BY <1>1 DEF Init
    <2>3. Log!OwnerOf(c) = Owner[c]
      BY <2>2, OwnerOfOld
    <2> QED BY <2>1, <2>3
  <1>2. EvenCount
    <2>1. 0 = 2 * (0 \div 2)
      OBVIOUS
    <2> QED BY <2>1, <1>1 DEF EvenCount
  <1>3. OwnerStays
    BY <1>1 DEF OwnerStays
  <1> QED BY AccountedInit, <1>2, <1>3 DEF Mapped

LEMMA MappedStep == Mapped /\ [Next]_vars => Mapped'
  <1> SUFFICES ASSUME Mapped, [Next]_vars PROVE EvenCount' /\ OwnerStays'
    BY AccountedStep DEF Mapped
  <1>a. /\ Inductive /\ TypeOK /\ EvenCount /\ OwnerStays
        /\ conv \in [Conversation -> Row \cup {NoRow}]
        /\ \A q \in Request : Conv(q) \in Conversation
    BY Typed DEF Mapped, Accounted, Inductive
  <1> DEFINE Fits(c) == conv'[c] # NoRow => /\ conv'[c].count = 2 * (conv'[c].count \div 2)
                                            /\ conv'[c].owner = Log!OwnerOf(c)
  <1>1. SUFFICES ASSUME NEW c \in Conversation PROVE Fits(c)
    BY DEF EvenCount, OwnerStays, Log!OwnerOf, Log!Creator
  <1>2. conv[c] # NoRow =>
           /\ conv[c].count \in Nat /\ conv[c].count = 2 * (conv[c].count \div 2)
           /\ conv[c].owner = Log!OwnerOf(c)
    BY <1>a DEF EvenCount, OwnerStays, Row
  <1>3. CASE conv'[c] = conv[c]
    BY <1>2, <1>3
  <1>4. ASSUME NEW r \in Request, newRow[r] # NoRow, Apply(r) PROVE Fits(c)
    <2>1. conv' = [conv EXCEPT ![Conv(r)] = newRow[r]]
      BY <1>4 DEF Apply
    <2>2. newRow[r] = [owner |-> conv[Conv(r)].owner, count |-> conv[Conv(r)].count + 2,
                       version |-> conv[Conv(r)].version + 1]
      BY <1>4, <1>a, Prepared
    <2>3. conv[Conv(r)] # NoRow
      BY <1>4, <1>a DEF Inductive, CountIsCurrent
    <2>4. CASE c = Conv(r)
      <3>1. conv'[c].count = conv[c].count + 2 /\ conv'[c].owner = conv[c].owner
        BY <2>1, <2>2, <2>4, <1>a
      <3> QED BY <3>1, <2>3, <2>4, <1>2
    <2> QED BY <2>1, <2>4, <1>3, <1>a
  <1>5. ASSUME NEW r \in Request, Execute(r) PROVE Fits(c)
    <2>1. CASE c # Conv(r)
      BY <2>1, <1>3, <1>5, <1>a DEF Execute, Create, Rename, Delete
    <2>2. CASE c = Conv(r) /\ Create(r)
      <3>1. conv'[c] = [owner |-> Call[r].user, count |-> 0, version |-> 1] /\ Kind(r) = "create"
        BY <2>2, <1>a DEF Create
      <3> QED BY <3>1, <2>2, OwnerOfCreated
    <2>3. CASE c = Conv(r) /\ Rename(r)
      <3>1. conv[c] # NoRow /\ conv'[c] = [conv[c] EXCEPT !.version = conv[c].version + 1]
        BY <2>3, <1>a DEF Rename, Matches
      <3>2. conv'[c].count = conv[c].count /\ conv'[c].owner = conv[c].owner
        BY <3>1, <1>a DEF Row
      <3> QED BY <3>1, <3>2, <1>2
    <2>4. CASE c = Conv(r) /\ Delete(r)
      BY <2>4, <1>a DEF Delete
    <2> QED BY <1>5, <2>1, <2>2, <2>3, <2>4 DEF Execute
  <1>6. CASE UNCHANGED vars
    BY <1>3, <1>6 DEF vars
  <1> QED BY <1>3, <1>4, <1>5, <1>6, <1>a, TableChange

-----------------------------------------------------------------------------
(* The log of a conversation                                               *)

\* A number names one row.
LEMMA SendIs ==
    ASSUME NEW rows, NEW m \in rows,
           \A x, y \in rows : x.convo = y.convo /\ x.seq = y.seq => x = y
    PROVE  SendAt(rows, m.convo, m.seq) = m.req
  BY DEF SendAt

\* Every number up to message_count names a row, and the log a request.
LEMMA SendFound ==
    ASSUME SequenceExact, NEW c \in Conversation, conv[c] # NoRow,
           NEW k \in 1 .. conv[c].count
    PROVE  \E m \in messages : m.convo = c /\ m.seq = k /\ SendAt(messages, c, k) = m.req
  <1>1. PICK m \in messages : m.convo = c /\ m.seq = k
    BY DEF SequenceExact, SeqComplete
  <1>2. SendAt(messages, m.convo, m.seq) = m.req
    BY SendIs DEF SequenceExact, SeqUnique
  <1> QED BY <1>1, <1>2

\* A step that keeps the rows of a conversation keeps what their numbers name.
LEMMA SendKept ==
    ASSUME SequenceExact, SequenceExact', NEW c \in Conversation, conv[c] # NoRow,
           NEW k \in 1 .. conv[c].count,
           \A m \in messages : m.convo = c => m \in messages'
    PROVE  SendAt(messages', c, k) = SendAt(messages, c, k)
  <1>1. PICK m \in messages : m.convo = c /\ m.seq = k /\ SendAt(messages, c, k) = m.req
    BY SendFound
  <1>2. m \in messages'
    BY <1>1
  <1>3. SendAt(messages', m.convo, m.seq) = m.req
    BY <1>2, SendIs DEF SequenceExact, SeqUnique
  <1> QED BY <1>1, <1>3

\* The odd numbers up to an even count.
LEMMA OddNumbers ==
    ASSUME NEW count \in Nat, NEW n \in 1 .. count \div 2
    PROVE  n \in Nat /\ 2 * n - 1 \in 1 .. count
  OBVIOUS

LEMMA LogShape ==
    ASSUME TypeOK, SequenceExact, NEW c \in Conversation, conv[c] # NoRow
    PROVE  /\ conv[c].count \in Nat
           /\ LogOf(c) \in [1 .. conv[c].count \div 2 -> Request]
           /\ LogOf(c) \in Seq(Request)
           /\ Len(LogOf(c)) = conv[c].count \div 2
           /\ LogOf(c) # NoRow
  <1>1. conv[c].count \in Nat /\ messages \subseteq Message
    BY Typed DEF Row
  <1>2. conv[c].count \div 2 \in Nat
    BY <1>1
  <1>3. ASSUME NEW n \in 1 .. conv[c].count \div 2
        PROVE  SendAt(messages, c, 2 * n - 1) \in Request
    <2>1. 2 * n - 1 \in 1 .. conv[c].count
      BY <1>1, OddNumbers
    <2>2. PICK m \in messages : SendAt(messages, c, 2 * n - 1) = m.req
      BY <2>1, SendFound
    <2> QED BY <2>2, <1>1 DEF Message
  <1>4. LogOf(c) \in [1 .. conv[c].count \div 2 -> Request]
    BY <1>3 DEF LogOf
  <1>5. LogOf(c) \in Seq(Request) /\ Len(LogOf(c)) = conv[c].count \div 2
    BY <1>2, <1>4
  <1> QED BY <1>1, <1>4, <1>5, GoneAssumption

LEMMA AppendIs ==
    ASSUME NEW S, NEW s \in Seq(S), NEW e \in S
    PROVE  Append(s, e) = [k \in 1 .. Len(s) + 1 |-> IF k = Len(s) + 1 THEN e ELSE s[k]]
  <1>1. Append(s, e) \in Seq(S) /\ Len(Append(s, e)) = Len(s) + 1
    BY AppendProperties
  <1>2. Append(s, e) \in [1 .. Len(s) + 1 -> S] /\ Len(s) \in Nat
    BY <1>1, LenProperties
  <1>3. ASSUME NEW k \in 1 .. Len(s) + 1
        PROVE  Append(s, e)[k] = IF k = Len(s) + 1 THEN e ELSE s[k]
    <2>1. CASE k = Len(s) + 1
      BY <2>1, AppendProperties
    <2>2. CASE k # Len(s) + 1
      <3>1. k \in 1 .. Len(s)
        BY <2>2, <1>2
      <3> QED BY <2>2, <3>1, AppendProperties
    <2> QED BY <2>1, <2>2
  <1> QED BY <1>2, <1>3

\* A conversation that a step leaves alone has the same log.
LEMMA LogKept ==
    ASSUME TypeOK, SequenceExact, SequenceExact', NEW c \in Conversation,
           conv'[c] = conv[c] \/ (conv'[c] # NoRow /\ conv[c] # NoRow /\ conv'[c].count = conv[c].count),
           \A m \in messages : m.convo = c => m \in messages'
    PROVE  LogOf(c)' = LogOf(c)
  <1>1. CASE conv[c] = NoRow
    BY <1>1 DEF LogOf
  <1>2. CASE conv[c] # NoRow
    <2>1. ASSUME NEW n \in 1 .. conv[c].count \div 2
          PROVE  SendAt(messages', c, 2 * n - 1) = SendAt(messages, c, 2 * n - 1)
      <3>1. 2 * n - 1 \in 1 .. conv[c].count
        BY <1>2, LogShape, OddNumbers
      <3> QED BY <3>1, <1>2, SendKept
    <2>2. conv'[c] # NoRow /\ conv'[c].count = conv[c].count
      BY <1>2
    <2>3. [n \in 1 .. conv[c].count \div 2 |-> SendAt(messages', c, 2 * n - 1)]
             = [n \in 1 .. conv[c].count \div 2 |-> SendAt(messages, c, 2 * n - 1)]
      BY <2>1
    <2> QED BY <1>2, <2>2, <2>3 DEF LogOf
  <1> QED BY <1>1, <1>2

\* An exchange that is committed is the next entry of the log.
LEMMA LogGrows ==
    ASSUME Mapped, Mapped', NEW r \in Request, newRow[r] # NoRow, Apply(r)
    PROVE  /\ committedLog[Conv(r)] # NoRow
           /\ committedLog' = [committedLog EXCEPT ![Conv(r)] = Append(@, r)]
  <1> DEFINE c == Conv(r)
             n == conv[c].count
             h == n \div 2
             u == UserMessage(r)
  <1>a. /\ Inductive /\ TypeOK /\ SequenceExact /\ TypeOK' /\ SequenceExact'
        /\ conv \in [Conversation -> Row \cup {NoRow}] /\ c \in Conversation
        /\ conv[c] # NoRow
    BY Typed DEF Mapped, Accounted, Inductive, CountIsCurrent
  <1>1. n \in Nat /\ h \in Nat /\ n = 2 * h
    <2>1. n \in Nat
      BY <1>a, LogShape
    <2> QED BY <2>1, <1>a DEF Mapped, EvenCount
  <1>2. /\ conv' = [conv EXCEPT ![c] = newRow[r]]
        /\ messages' = messages \cup staged[r]
    BY DEF Apply
  <1>3. newRow[r] = [owner |-> conv[c].owner, count |-> n + 2,
                     version |-> conv[c].version + 1]
    BY <1>a, Prepared
  <1>4. u \in messages'
    BY <1>2, <1>a DEF Inductive, StagedByStage
  <1>5. u = [convo |-> c, seq |-> n + 1, sender |-> "user", req |-> r]
    BY <1>a, Prepared
  <1>6. SendAt(messages', c, 2 * (h + 1) - 1) = r
    <2>1. SendAt(messages', u.convo, u.seq) = u.req
      BY <1>4, <1>a, SendIs DEF SequenceExact, SeqUnique
    <2>2. u.convo = c /\ u.seq = n + 1 /\ u.req = r
      BY <1>5
    <2>3. n + 1 = 2 * (h + 1) - 1
      BY <1>1
    <2> QED BY <2>1, <2>2, <2>3
  <1>7. conv'[c] # NoRow /\ conv'[c].count = n + 2
    <2>1. conv'[c].count = n + 2
      BY <1>2, <1>3, <1>a
    <2>2. newRow[r] \in Row \cup {NoRow} /\ conv'[c] = newRow[r]
      BY <1>2, <1>a, Typed
    <2> QED BY <2>1, <2>2
  <1>8. (n + 2) \div 2 = h + 1
    BY <1>1
  <1>9. LogOf(c)' = [k \in 1 .. h + 1 |-> SendAt(messages', c, 2 * k - 1)]
    BY <1>7, <1>8 DEF LogOf
  <1>10. ASSUME NEW k \in 1 .. h
         PROVE  SendAt(messages', c, 2 * k - 1) = LogOf(c)[k]
    <2>1. 2 * k - 1 \in 1 .. n
      BY <1>1, OddNumbers
    <2>2. SendAt(messages', c, 2 * k - 1) = SendAt(messages, c, 2 * k - 1)
      BY <2>1, <1>2, <1>a, SendKept
    <2> QED BY <2>2, <1>a DEF LogOf
  <1>11. LogOf(c) \in Seq(Request) /\ Len(LogOf(c)) = h /\ LogOf(c) # NoRow
    BY <1>a, LogShape
  <1>12. LogOf(c)' = Append(LogOf(c), r)
    <2> DEFINE old == LogOf(c)
               at(k) == SendAt(messages', c, 2 * k - 1)
    <2>1. ASSUME NEW k \in 1 .. h + 1 PROVE at(k) = IF k = h + 1 THEN r ELSE old[k]
      <3>1. CASE k = h + 1
        BY <3>1, <1>6
      <3>2. CASE k # h + 1
        <4>1. k \in 1 .. h
          BY <3>2, <1>1
        <4> QED BY <3>2, <4>1, <1>10
      <3> QED BY <3>1, <3>2
    <2>2. old \in Seq(Request) /\ Len(old) = h
      BY <1>11
    <2>3. LogOf(c)' = [k \in 1 .. h + 1 |-> at(k)]
      BY <1>9
    <2> HIDE DEF old, at
    <2>4. [k \in 1 .. h + 1 |-> at(k)] = [k \in 1 .. h + 1 |-> IF k = h + 1 THEN r ELSE old[k]]
      BY <2>1
    <2>5. Append(old, r) = [k \in 1 .. h + 1 |-> IF k = h + 1 THEN r ELSE old[k]]
      BY <2>2, AppendIs
    <2> QED BY <2>3, <2>4, <2>5 DEF old
  <1>13. ASSUME NEW d \in Conversation, d # c PROVE LogOf(d)' = LogOf(d)
    <2>1. conv'[d] = conv[d]
      BY <1>2, <1>13, <1>a
    <2> QED BY <2>1, <1>2, <1>a, LogKept
  <1> QED BY <1>11, <1>12, <1>13, <1>a DEF committedLog

\* A single statement that is executed does to the log what the call asks for.
LEMMA LogExecuted ==
    ASSUME Mapped, Mapped', NEW r \in Request, Execute(r)
    PROVE  \/ /\ Kind(r) = "create" /\ committedLog[Conv(r)] = NoRow
              /\ committedLog' = [committedLog EXCEPT ![Conv(r)] = <<>>]
           \/ /\ Kind(r) = "rename" /\ Matches(r)
              /\ committedLog' = committedLog
           \/ /\ Kind(r) = "delete" /\ Matches(r)
              /\ committedLog' = [committedLog EXCEPT ![Conv(r)] = NoRow]
  <1> DEFINE c == Conv(r)
  <1>a. /\ TypeOK /\ SequenceExact /\ TypeOK' /\ SequenceExact'
        /\ conv \in [Conversation -> Row \cup {NoRow}] /\ c \in Conversation
        /\ messages \subseteq Message
    BY Typed DEF Mapped, Accounted, Inductive
  <1>1. ASSUME NEW d \in Conversation, d # c PROVE LogOf(d)' = LogOf(d)
    <2>1. conv'[d] = conv[d]
      BY <1>1, <1>a DEF Execute, Create, Rename, Delete
    <2>2. \A m \in messages : m.convo = d => m \in messages'
      BY <1>1, <1>a DEF Execute, Create, Rename, Delete
    <2> QED BY <2>1, <2>2, <1>a, LogKept
  <1>2. CASE Create(r)
    <2>1. LogOf(c) = NoRow
      BY <1>2 DEF Create, LogOf
    <2>2. conv'[c] # NoRow /\ conv'[c].count = 0
      <3>1. conv'[c] = [owner |-> Call[r].user, count |-> 0, version |-> 1]
        BY <1>2, <1>a DEF Create
      <3>2. conv'[c] \in Row
        BY <3>1, CallType DEF Row
      <3> QED BY <3>1, <3>2, NullAssumption
    <2>3. LogOf(c)' = <<>>
      <3>1. 1 .. 0 \div 2 = {}
        OBVIOUS
      <3>2. LogOf(c)' = [n \in {} |-> SendAt(messages', c, 2 * n - 1)]
        BY <2>2, <3>1 DEF LogOf
      <3> QED BY <3>2
    <2> QED BY <2>1, <2>3, <1>1, <1>2, <1>a DEF committedLog, Create
  <1>3. CASE Rename(r)
    <2>1. conv[c] # NoRow /\ conv[c] \in Row /\ messages' = messages
      BY <1>3, <1>a DEF Rename, Matches
    <2>2. conv'[c] = [conv[c] EXCEPT !.version = conv[c].version + 1]
      BY <1>3, <1>a DEF Rename
    <2>3. conv'[c].count = conv[c].count /\ conv'[c] \in Row
      BY <2>1, <2>2 DEF Row
    <2>4. LogOf(c)' = LogOf(c)
      BY <2>1, <2>3, <1>a, LogKept, NullAssumption
    <2> QED BY <2>4, <1>1, <1>3 DEF committedLog, Rename
  <1>4. CASE Delete(r)
    <2>1. LogOf(c)' = NoRow
      BY <1>4, <1>a DEF Delete, LogOf
    <2> QED BY <2>1, <1>1, <1>4, <1>a DEF committedLog, Delete
  <1> QED BY <1>2, <1>3, <1>4 DEF Execute

\* A key that a transaction is about to commit is in no log.
LEMMA KeyUnused ==
    ASSUME Mapped, NEW r \in Request, newRow[r] # NoRow, Call[r].key # NoKey
    PROVE  ~Log!KeyUsed(Call[r].key)
  <1>a. TypeOK /\ SequenceExact /\ StagedByStage /\ StagedKeysFree
    BY DEF Mapped, Accounted, Inductive
  <1> SUFFICES ASSUME NEW c \in Conversation, committedLog[c] # NoRow,
                      NEW n \in 1 .. Len(committedLog[c]),
                      Call[committedLog[c][n]].key = Call[r].key
               PROVE  FALSE
    BY DEF Log!KeyUsed
  <1>1. committedLog[c] = LogOf(c) /\ conv[c] # NoRow
    BY DEF committedLog, LogOf
  <1>2. n \in 1 .. conv[c].count \div 2 /\ 2 * n - 1 \in 1 .. conv[c].count
    <2>1. conv[c].count \in Nat /\ Len(LogOf(c)) = conv[c].count \div 2
      BY <1>1, <1>a, LogShape
    <2> QED BY <1>1, <2>1, OddNumbers
  <1>3. PICK m \in messages : committedLog[c][n] = m.req
    BY <1>1, <1>2, <1>a, SendFound DEF LogOf
  <1>4. PICK u \in messages : u.req = m.req /\ u.sender = "user"
    <2>1. PICK k \in messages :
             /\ k.req = m.req
             /\ \/ m.sender = "user" /\ k.sender = "bot" /\ k.seq = m.seq + 1
                \/ m.sender = "bot" /\ k.sender = "user" /\ m.seq = k.seq + 1
      BY <1>a DEF SequenceExact, SeqPaired
    <2> QED BY <2>1
  <1>5. UserMessage(r) \in staged[r]
    BY <1>a DEF StagedByStage
  <1>6. UserMessage(r).sender = "user" /\ UserMessage(r).req = r
    BY DEF UserMessage
  <1>7. ~SameKey(UserMessage(r), u)
    BY <1>5, <1>a DEF StagedKeysFree
  <1> QED BY <1>3, <1>4, <1>6, <1>7 DEF SameKey

-----------------------------------------------------------------------------
(* Steps                                                                   *)

Final == {"ok", "err", "unsure", "orphan"}

LEMMA Outcomes ==
    /\ OutcomeOf("done") = "applied" /\ OutcomeOf("committed") = "applied"
    /\ OutcomeOf("ok") = "ok" /\ OutcomeOf("err") = "err"
    /\ OutcomeOf("unsure") = "unsure" /\ OutcomeOf("orphan") = "orphan"
    /\ \A stage \in Stage \ (Final \cup {"done", "committed"}) : OutcomeOf(stage) = "open"
    /\ \A stage \in Stage : OutcomeOf(stage) \in {"open", "applied"} \cup Final
  BY DEF OutcomeOf, Answered, Final

\* The outcomes change with the stages.
LEMMA OutcomeMoves ==
    ASSUME TypeOK, NEW r \in Request, NEW to, pc' = [pc EXCEPT ![r] = to],
           NEW out, OutcomeOf(to) = out
    PROVE  outcomes' = [outcomes EXCEPT ![r] = out]
  BY Typed DEF outcomes

\* What a call does before it takes effect or is refused cannot be seen.
LEMMA Unseen ==
    ASSUME Mapped, NEW r \in Request,
           \/ Arrive(r) \/ AcquireMutex(r) \/ Connect(r) \/ LockRow(r) \/ LockMissing(r)
           \/ LockForeign(r) \/ InsertUser(r) \/ InsertUserDuplicate(r) \/ BotCached(r)
           \/ BotMiss(r) \/ RulesConnect(r) \/ RulesTimeout(r) \/ RulesAnswer(r)
           \/ BotFail(r) \/ InsertBot(r) \/ UpdateRow(r) \/ StatementMiss(r)
    PROVE  UNCHANGED <<committedLog, outcomes>>
  <1> DEFINE Early == {"idle", "mutex", "connect", "lock", "stmt", "missed", "rollback"} \cup Locked
  <1>a. TypeOK
    BY DEF Mapped, Accounted, Inductive
  <1>1. UNCHANGED <<conv, messages>>
    BY DEF store, Arrive, AcquireMutex, Connect, LockRow, LockMissing, LockForeign, InsertUser,
       InsertUserDuplicate, BotCached, BotMiss, RulesConnect, RulesTimeout, RulesAnswer,
       BotFail, InsertBot, UpdateRow, StatementMiss, Abort
  <1>2. PICK to \in Early : pc[r] \in Early /\ pc' = [pc EXCEPT ![r] = to]
    BY DEF Goto, Locked, Arrive, AcquireMutex, Connect, LockRow, LockMissing, LockForeign,
       InsertUser, InsertUserDuplicate, BotCached, BotMiss, RulesConnect, RulesTimeout,
       RulesAnswer, BotFail, InsertBot, UpdateRow, StatementMiss
  <1>3. \A stage \in Early : OutcomeOf(stage) = "open"
    BY Outcomes DEF Final, Stage, OnWire, Locked
  <1>4. outcomes' = outcomes
    <2>1. outcomes' = [outcomes EXCEPT ![r] = "open"]
      BY <1>a, <1>2, <1>3, OutcomeMoves
    <2>2. outcomes[r] = "open"
      BY <1>2, <1>3 DEF outcomes
    <2> QED BY <2>1, <2>2 DEF outcomes
  <1> QED BY <1>1, <1>4 DEF committedLog, LogOf

\* Answers, and sessions that are rolled back after their caller has gone.
LEMMA Closing ==
    ASSUME Mapped, NEW r \in Request
    PROVE  /\ ConnectTimeout(r) \/ Rollback(r) \/ NotFound(r) => Log!Refuse(r)
           /\ ReplySent(r) \/ StatementOk(r) => Log!Succeed(r)
           /\ OrphanAbort(r) => Log!LateRefusal(r)
  <1>a. TypeOK
    BY DEF Mapped, Accounted, Inductive
  <1> USE DEF Goto
  <1>1. ASSUME \/ ConnectTimeout(r) \/ Rollback(r) \/ NotFound(r)
               \/ ReplySent(r) \/ StatementOk(r) \/ OrphanAbort(r)
        PROVE  UNCHANGED committedLog
    <2>1. UNCHANGED <<conv, messages>>
      BY <1>1 DEF store, ConnectTimeout, Rollback, NotFound, ReplySent, StatementOk, OrphanAbort,
         Abort
    <2> QED BY <2>1 DEF committedLog, LogOf
  <1>2. ASSUME ConnectTimeout(r) \/ Rollback(r) \/ NotFound(r) PROVE Log!Refuse(r)
    <2>1. pc[r] \in {"connect", "rollback", "missed"} /\ pc' = [pc EXCEPT ![r] = "err"]
      BY <1>2 DEF ConnectTimeout, Rollback, NotFound
    <2>2. outcomes[r] = "open"
      BY <2>1, Outcomes DEF outcomes, Final, Stage, OnWire
    <2>3. outcomes' = [outcomes EXCEPT ![r] = "err"]
      <3>1. OutcomeOf("err") = "err"
        BY Outcomes
      <3> QED BY <2>1, <3>1, <1>a, OutcomeMoves
    <2> QED BY <2>2, <2>3, <1>1, <1>2 DEF Log!Refuse, Log!Becomes
  <1>3. ASSUME ReplySent(r) \/ StatementOk(r) PROVE Log!Succeed(r)
    <2>1. pc[r] \in {"committed", "done"} /\ pc' = [pc EXCEPT ![r] = "ok"]
      BY <1>3 DEF ReplySent, StatementOk
    <2>2. outcomes[r] = "applied"
      BY <2>1, Outcomes DEF outcomes
    <2>3. outcomes' = [outcomes EXCEPT ![r] = "ok"]
      <3>1. OutcomeOf("ok") = "ok"
        BY Outcomes
      <3> QED BY <2>1, <3>1, <1>a, OutcomeMoves
    <2> QED BY <2>2, <2>3, <1>1, <1>3 DEF Log!Succeed, Log!Becomes
  <1>4. ASSUME OrphanAbort(r) PROVE Log!LateRefusal(r)
    <2>1. pc[r] = "orphan" /\ pc' = [pc EXCEPT ![r] = "unsure"]
      BY <1>4 DEF OrphanAbort
    <2>2. outcomes[r] = "orphan"
      BY <2>1, Outcomes DEF outcomes
    <2>3. outcomes' = [outcomes EXCEPT ![r] = "unsure"]
      <3>1. OutcomeOf("unsure") = "unsure"
        BY Outcomes
      <3> QED BY <2>1, <3>1, <1>a, OutcomeMoves
    <2> QED BY <2>2, <2>3, <1>1, <1>4 DEF Log!LateRefusal, Log!Becomes
  <1> QED BY <1>2, <1>3, <1>4

\* The one instant at which a call takes effect.
LEMMA Effects ==
    ASSUME Mapped, Mapped', NEW r \in Request
    PROVE  /\ Commit(r) \/ Statement(r) => Log!TakeEffect(r)
           /\ OrphanCommit(r) \/ OrphanStatement(r) => Log!LateEffect(r)
  <1>a. TypeOK /\ StagedByStage /\ CountIsCurrent /\ StageFitsKind /\ WriterIsOwner
    BY DEF Mapped, Accounted, Inductive
  <1>b. Kind(r) = Call[r].kind /\ Conv(r) = Call[r].convo /\ Conv(r) \in Conversation
    BY CallType DEF Kind, Conv
  <1> USE DEF Goto
  <1>1. ASSUME Commit(r) \/ OrphanCommit(r) PROVE Log!Effect(r)
    <2>1. newRow[r] # NoRow /\ Apply(r)
      BY <1>1, <1>a DEF Commit, OrphanCommit, StagedByStage
    <2>2. Kind(r) = "send"
      <3>1. UserMessage(r) \in staged[r]
        BY <2>1, <1>a DEF StagedByStage
      <3> QED BY <3>1, <1>a DEF StageFitsKind
    <2>3. Log!OwnerOf(Conv(r)) = Call[r].user
      BY <2>1, <1>a, <1>b DEF Mapped, OwnerStays, CountIsCurrent, WriterIsOwner
    <2>4. Call[r].key # NoKey => ~Log!KeyUsed(Call[r].key)
      BY <2>1, KeyUnused
    <2>5. /\ committedLog[Conv(r)] # NoRow
          /\ committedLog' = [committedLog EXCEPT ![Conv(r)] = Append(@, r)]
      BY <2>1, LogGrows
    <2> QED BY <2>2, <2>3, <2>4, <2>5, <1>b DEF Log!Effect
  <1>2. ASSUME Statement(r) \/ OrphanStatement(r) PROVE Log!Effect(r)
    <2>1. Execute(r)
      BY <1>2 DEF Statement, OrphanStatement
    <2>2. ASSUME Matches(r)
          PROVE  committedLog[Conv(r)] # NoRow /\ Log!OwnerOf(Conv(r)) = Call[r].user
      <3>1. conv[Conv(r)] # NoRow /\ conv[Conv(r)].owner = Call[r].user
        BY <2>2 DEF Matches
      <3>2. LogOf(Conv(r)) # NoRow
        BY <3>1, <1>a, <1>b, LogShape DEF Mapped, Accounted, Inductive
      <3> QED BY <3>1, <3>2, <1>b DEF committedLog, Mapped, OwnerStays
    <2> QED BY <2>1, <2>2, <1>b, LogExecuted DEF Log!Effect
  <1>3. ASSUME Commit(r) \/ Statement(r) PROVE Log!TakeEffect(r)
    <2>1. PICK to \in {"committed", "done"} :
             pc[r] \in {"commit", "stmt"} /\ pc' = [pc EXCEPT ![r] = to]
      BY <1>3 DEF Commit, Statement
    <2>2. outcomes[r] = "open"
      BY <2>1, Outcomes DEF outcomes, Final, Stage, OnWire
    <2>3. outcomes' = [outcomes EXCEPT ![r] = "applied"]
      <3>1. OutcomeOf(to) = "applied"
        BY Outcomes
      <3> QED BY <2>1, <3>1, <1>a, OutcomeMoves
    <2> QED BY <2>2, <2>3, <1>1, <1>2, <1>3 DEF Log!TakeEffect, Log!Becomes
  <1>4. ASSUME OrphanCommit(r) \/ OrphanStatement(r) PROVE Log!LateEffect(r)
    <2>1. pc[r] = "orphan" /\ pc' = [pc EXCEPT ![r] = "unsure"]
      BY <1>4 DEF OrphanCommit, OrphanStatement
    <2>2. outcomes[r] = "orphan"
      BY <2>1, Outcomes DEF outcomes
    <2>3. outcomes' = [outcomes EXCEPT ![r] = "unsure"]
      <3>1. OutcomeOf("unsure") = "unsure"
        BY Outcomes
      <3> QED BY <2>1, <3>1, <1>a, OutcomeMoves
    <2> QED BY <2>2, <2>3, <1>1, <1>2, <1>4 DEF Log!LateEffect, Log!Becomes
  <1> QED BY <1>3, <1>4

\* A lost connection cuts off one caller, a crash those of an instance.
LEMMA Failures ==
    ASSUME Mapped, TypeOK',
           (\E r \in Request : ConnectionLost(r)) \/ (\E i \in Instance : Crash(i))
    PROVE  Log!CutOff
  <1>a. TypeOK
    BY DEF Mapped, Accounted, Inductive
  <1>1. UNCHANGED committedLog
    <2>1. UNCHANGED <<conv, messages>>
      BY DEF ConnectionLost, Crash, store
    <2> QED BY <2>1 DEF committedLog, LogOf
  <1>2. outcomes' \in [Request -> {"open", "applied", "ok", "err", "orphan", "unsure"}]
    BY Outcomes DEF TypeOK, outcomes, Final
  <1>3. ASSUME NEW q \in Request
        PROVE  \/ outcomes'[q] = outcomes[q]
               \/ outcomes[q] = "open" /\ outcomes'[q] \in {"orphan", "unsure"}
               \/ outcomes[q] = "applied" /\ outcomes'[q] = "unsure"
    <2>1. \/ pc'[q] = pc[q]
          \/ pc[q] \in {"mutex", "connect", "missed", "done", "committed"} /\ pc'[q] = "unsure"
          \/ /\ pc[q] \in Stage \ ({"missed", "done", "committed"} \cup Final)
             /\ pc'[q] = "orphan"
      <3>1. ASSUME NEW r \in Request, ConnectionLost(r)
            PROVE  \/ pc'[q] = pc[q]
                   \/ pc[q] \in Settled /\ pc'[q] = "unsure"
                   \/ pc[q] \in OnWire \ Settled /\ pc'[q] = "orphan"
        BY <3>1, <1>a DEF ConnectionLost, TypeOK
      <3>2. ASSUME NEW i \in Instance, Crash(i)
            PROVE  \/ pc'[q] = pc[q]
                   \/ pc[q] \in {"mutex", "connect"} \cup Settled /\ pc'[q] = "unsure"
                   \/ pc[q] \in Stage \ (Settled \cup Answered) /\ pc'[q] = "orphan"
        BY <3>2, <1>a, CrashStage DEF TypeOK
      <3> QED BY <3>1, <3>2 DEF Settled, OnWire, Stage, Answered, Final
    <2>2. outcomes[q] = OutcomeOf(pc[q]) /\ outcomes'[q] = OutcomeOf(pc'[q])
      BY DEF outcomes
    <2>3. CASE pc'[q] = pc[q]
      BY <2>2, <2>3
    <2>4. CASE pc[q] \in {"done", "committed"} /\ pc'[q] = "unsure"
      BY <2>2, <2>4, Outcomes
    <2>5. CASE pc[q] \in {"mutex", "connect", "missed"} /\ pc'[q] = "unsure"
      BY <2>2, <2>5, Outcomes DEF Stage, OnWire, Final
    <2>6. CASE pc[q] \in Stage \ ({"missed", "done", "committed"} \cup Final) /\ pc'[q] = "orphan"
      BY <2>2, <2>6, Outcomes
    <2> QED BY <2>1, <2>3, <2>4, <2>5, <2>6
  <1> QED BY <1>1, <1>2, <1>3 DEF Log!CutOff

LEMMA RefinementInit == Init => Log!Init
  <1> SUFFICES ASSUME Init PROVE Log!Init
    OBVIOUS
  <1>1. ASSUME NEW c \in Conversation
        PROVE  LogOf(c) = IF Log!Creator(c) = {} THEN <<>> ELSE NoRow
    <2>1. Log!Creator(c) = {} <=> ~\E r \in Request : Kind(r) = "create" /\ Conv(r) = c
      BY DEF Log!Creator, Kind, Conv
    <2>2. CASE Log!Creator(c) # {}
      BY <2>1, <2>2 DEF Init, LogOf
    <2>3. CASE Log!Creator(c) = {}
      <3>1. conv[c] = [owner |-> Owner[c], count |-> 0, version |-> 1]
        BY <2>1, <2>3 DEF Init
      <3>2. conv[c] \in Row
        BY <3>1, OwnerAssumption DEF Row
      <3>3. 1 .. 0 \div 2 = {} /\ conv[c].count = 0
        BY <3>1
      <3>4. LogOf(c) = [n \in {} |-> SendAt(messages, c, 2 * n - 1)]
        BY <3>2, <3>3, NullAssumption DEF LogOf
      <3> QED BY <3>4, <2>3
    <2> QED BY <2>2, <2>3
  <1>2. outcomes = [r \in Request |-> "open"]
    <2>1. OutcomeOf("idle") = "open"
      BY Outcomes DEF Final, Stage
    <2> QED BY <2>1 DEF outcomes, Init
  <1> QED BY <1>1, <1>2 DEF Log!Init, committedLog

LEMMA RefinementStep ==
    Mapped /\ Mapped' /\ [Next]_vars => [Log!Next]_<<committedLog, outcomes>>
  <1> SUFFICES ASSUME Mapped, Mapped', [Next]_vars
               PROVE  Log!Next \/ UNCHANGED <<committedLog, outcomes>>
    OBVIOUS
  <1>a. TypeOK'
    BY DEF Mapped, Accounted, Inductive
  <1>1. CASE UNCHANGED vars
    BY <1>1 DEF vars, committedLog, outcomes, LogOf
  <1>2. ASSUME NEW r \in Request,
               \/ Log!TakeEffect(r) \/ Log!Succeed(r) \/ Log!Refuse(r)
               \/ Log!LateEffect(r) \/ Log!LateRefusal(r)
        PROVE  Log!Next
    BY <1>2 DEF Log!Next
  <1>3. ASSUME (\E r \in Request : ConnectionLost(r)) \/ (\E i \in Instance : Crash(i))
        PROVE  Log!Next
    BY <1>3, <1>a, Failures DEF Log!Next
  <1> QED BY <1>1, <1>2, <1>3, Unseen, Closing, Effects DEF Next, Work

\* ConversationService implements ConversationLog.
THEOREM ServiceImplementsLog == Spec => ImplementsLog
  <1>1. Spec => []Mapped
    BY MappedInit, MappedStep, PTL DEF Spec
  <1> QED BY <1>1, RefinementInit, RefinementStep, PTL DEF Spec, ImplementsLog, Log!Spec
=============================================================================
