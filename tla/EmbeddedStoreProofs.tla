------------------------- MODULE EmbeddedStoreProofs --------------------------
(***************************************************************************)
(* Theorems about EmbeddedStore for any number of requests about one       *)
(* conversation: the restore in one conversation's transaction undoes the  *)
(* work of another's, so with two there is nothing to prove.               *)
(***************************************************************************)
EXTENDS EmbeddedStore, TLAPS

-----------------------------------------------------------------------------
(* The invariant                                                           *)

\* There is one conversation.
Sole == \A c, d \in Conversation : c = d

\* Whoever runs a transaction is a send that holds the conversation's queue.
Locked ==
    \A r \in Request :
        /\ pc[r] \in {"mutex", "connect"} \cup InTransaction => Kind(r) = "send"
        /\ pc[r] \in {"connect"} \cup InTransaction => activeLocks[Conv(r)] = r

\* Until a creation is answered, its conversation has no row and no callers.
NotYet ==
    \A r \in Request : Kind(r) = "create" /\ pc[r] # "ok" =>
        /\ conv[Conv(r)] = NoRow
        /\ \A q \in Request \ {r} : Conv(q) = Conv(r) => pc[q] = "idle"

\* The messages that a running send has inserted by now.
Added(r) ==
    IF pc[r] \in {"bot", "reply"} THEN {UserMessage(r)}
    ELSE IF pc[r] = "update" THEN {UserMessage(r), BotMessage(r)} ELSE {}

\* Every other message was acknowledged, also in the backup of who runs.
Origin ==
    /\ \A m \in messages : \/ pc[m.req] \in {"ok", "restore"}
                           \/ pc[m.req] \in InTransaction /\ m \in Added(m.req)
    /\ \A r \in Request : pc[r] \in InTransaction =>
         \A m \in backup[r].messages : pc[m.req] = "ok"

\* A row and the messages that belong to it.
Exact(row, m) ==
    IF row = NoRow THEN m = {}
    ELSE /\ \A x \in m : x.seq \in 1 .. row.count
         /\ \A k \in 1 .. row.count : \E x \in m : x.seq = k
         /\ \A x, y \in m : x.seq = y.seq => x = y
         /\ \A x, y \in m :
              x.req = y.req /\ x.sender = "user" /\ y.sender = "bot" => y.seq = x.seq + 1

\* A send works on the row as it read it, or the row is gone with all messages.
Whole(c) == Exact(conv[c], messages)
Working(r) ==
    \/ conv[Conv(r)] = NoRow /\ messages = {}
    \/ /\ conv[Conv(r)] # NoRow /\ seen[r] = conv[Conv(r)].count
       /\ Added(r) \subseteq messages
       /\ Exact(conv[Conv(r)], messages \ Added(r))
Fine(r) ==
    /\ Exact(backup[r].conv[Conv(r)], backup[r].messages)
    /\ pc[r] = "select" => Whole(Conv(r))
    /\ pc[r] \in {"user", "bot", "reply", "update"} => Working(r)
Consistent ==
    /\ \A c \in Conversation : AtRest(c) => Whole(c)
    /\ \A r \in Request : pc[r] \in InTransaction => Fine(r)

Inductive == TypeOK /\ Locked /\ NotYet /\ Origin /\ Consistent

-----------------------------------------------------------------------------
(* Types                                                                   *)

LEMMA CallType ==
    ASSUME NEW r \in Request
    PROVE  /\ Kind(r) \in Kinds /\ Conv(r) \in Conversation /\ Call[r].user \in User
BY EmbeddedCallAssumption DEF Kind, Conv

\* Where every variable lies.
LEMMA Typed ==
    TypeOK <=>
      /\ pc \in [Request -> Stage]
      /\ seen \in [Request -> Nat]
      /\ conv \in [Conversation -> Row \cup {NoRow}]
      /\ messages \subseteq Message
      /\ backup \in [Request -> Database]
      /\ activeLocks \in [Conversation -> Request \cup {Nobody}]
<1>1. db \in Database <=>
        conv \in [Conversation -> Row \cup {NoRow}] /\ messages \subseteq Message
    BY DEF db, Database
<1> QED BY <1>1 DEF TypeOK

LEMMA BackupType ==
    ASSUME TypeOK, NEW r \in Request
    PROVE  /\ backup[r].conv \in [Conversation -> Row \cup {NoRow}]
           /\ backup[r].messages \subseteq Message
<1>1. backup[r] \in Database
    BY DEF TypeOK
<1> QED BY <1>1 DEF Database

\* What a send inserts.
LEMMA MessageType ==
    ASSUME TypeOK, NEW r \in Request
    PROVE  /\ UserMessage(r) \in Message /\ BotMessage(r) \in Message
           /\ UserMessage(r).req = r /\ BotMessage(r).req = r
           /\ UserMessage(r).seq = seen[r] + 1 /\ BotMessage(r).seq = seen[r] + 2
           /\ UserMessage(r).sender = "user" /\ BotMessage(r).sender = "bot"
<1>1. seen[r] \in Nat /\ Conv(r) \in Conversation
    BY CallType DEF TypeOK
<1>2. UserMessage(r) \in Message /\ BotMessage(r) \in Message
    BY <1>1 DEF UserMessage, BotMessage, Message
<1> QED BY <1>2 DEF UserMessage, BotMessage

\* What an exchange and a renaming make of a row.
LEMMA RowType ==
    ASSUME NEW row \in Row
    PROVE  /\ Counted(row) \in Row /\ Counted(row).count = row.count + 2
           /\ [row EXCEPT !.version = @ + 1] \in Row
           /\ [row EXCEPT !.version = @ + 1].count = row.count
           /\ row.count \in Nat /\ row # NoRow
<1>1. row \in [owner : User, count : Nat, version : Nat] /\ row # NoRow
    BY EmbeddedNullAssumption DEF Row
<1>2. Counted(row) = [owner |-> row.owner, count |-> row.count + 2, version |-> row.version + 1]
    BY <1>1 DEF Counted
<1> QED BY <1>1, <1>2 DEF Row

LEMMA TypeInit == Init => TypeOK
<1> SUFFICES ASSUME Init PROVE TypeOK
    OBVIOUS
<1>1. \A c \in Conversation : [owner |-> Owner[c], count |-> 0, version |-> 1] \in Row
    BY EmbeddedOwnerAssumption DEF Row
<1>2. conv \in [Conversation -> Row \cup {NoRow}]
    BY <1>1 DEF Init
<1>3. db \in Database
    BY <1>2 DEF db, Database, Init
<1> QED BY <1>3 DEF Init, TypeOK, Stage

LEMMA TypeStep == TypeOK /\ [Next]_vars => TypeOK'
<1> SUFFICES ASSUME TypeOK, [Next]_vars PROVE TypeOK'
    OBVIOUS
<1> DEFINE Fits ==
      /\ pc' \in [Request -> Stage]
      /\ seen' \in [Request -> Nat]
      /\ conv' \in [Conversation -> Row \cup {NoRow}]
      /\ messages' \subseteq Message
      /\ backup' \in [Request -> Database]
      /\ activeLocks' \in [Conversation -> Request \cup {Nobody}]
<1>0. Fits => TypeOK'
  <2>1. db' \in Database <=>
          conv' \in [Conversation -> Row \cup {NoRow}] /\ messages' \subseteq Message
      BY DEF db, Database
  <2> QED BY <2>1 DEF TypeOK, Stage, InTransaction, Database, Row, Message
<1>1. /\ pc \in [Request -> Stage]
      /\ seen \in [Request -> Nat]
      /\ conv \in [Conversation -> Row \cup {NoRow}]
      /\ messages \subseteq Message
      /\ backup \in [Request -> Database]
      /\ activeLocks \in [Conversation -> Request \cup {Nobody}]
    BY Typed
<1>2. ASSUME NEW r \in Request, NEW from, NEW to \in Stage, Goto(r, from, to)
      PROVE  pc' \in [Request -> Stage]
    BY <1>1, <1>2 DEF Goto
<1>3. \A stage \in {"mutex", "stmt", "connect", "select", "user", "bot", "reply", "update",
                    "restore", "ok", "err"} : stage \in Stage
    BY DEF Stage, InTransaction
<1>4. ASSUME NEW r \in Request,
             \/ Arrive(r) \/ Reject(r) \/ InsertUserRefused(r) \/ BotAnswer(r) \/ BotFail(r)
             \/ InsertBotRefused(r) \/ NotFound(r)
      PROVE  Fits
  <2>1. UNCHANGED <<seen, conv, messages, backup, activeLocks>>
      BY <1>4 DEF Arrive, Reject, InsertUserRefused, BotAnswer, BotFail, InsertBotRefused, NotFound
  <2>2. \E from, to : to \in Stage /\ Goto(r, from, to)
      BY <1>3, <1>4 DEF Arrive, Reject, InsertUserRefused, BotAnswer, BotFail, InsertBotRefused, NotFound
  <2> QED BY <1>1, <1>2, <2>1, <2>2
<1>5. ASSUME NEW r \in Request, AcquireMutex(r) PROVE Fits
    BY <1>1, <1>2, <1>3, <1>5 DEF AcquireMutex
<1>6. ASSUME NEW r \in Request, Begin(r) PROVE Fits
  <2>1. db \in Database
      BY DEF TypeOK
  <2> QED BY <1>1, <1>2, <1>3, <1>6, <2>1 DEF Begin
<1>7. ASSUME NEW r \in Request, SelectRow(r) PROVE Fits
  <2>1. conv[Conv(r)].count \in Nat
      BY <1>1, <1>7, CallType DEF SelectRow, Matches, Row
  <2> QED BY <1>1, <1>2, <1>3, <1>7, <2>1 DEF SelectRow
<1>8. ASSUME NEW r \in Request, InsertUser(r) \/ InsertBot(r) PROVE Fits
  <2>1. UserMessage(r) \in Message /\ BotMessage(r) \in Message
      BY MessageType
  <2>2. messages' \subseteq Message
      BY <1>1, <1>8, <2>1 DEF InsertUser, InsertBot
  <2>3. UNCHANGED <<seen, conv, backup, activeLocks>>
      BY <1>8 DEF InsertUser, InsertBot
  <2>4. \E from, to : to \in Stage /\ Goto(r, from, to)
      BY <1>3, <1>8 DEF InsertUser, InsertBot
  <2> QED BY <1>1, <1>2, <2>2, <2>3, <2>4
<1>9. ASSUME NEW r \in Request, UpdateRow(r) PROVE Fits
  <2>1. Counted(conv[Conv(r)]) \in Row \cup {NoRow}
      BY <1>1, CallType, RowType DEF Counted
  <2>2. conv' = [conv EXCEPT ![Conv(r)] = Counted(conv[Conv(r)])]
      BY <1>9 DEF UpdateRow
  <2>3. conv' \in [Conversation -> Row \cup {NoRow}]
      BY <1>1, <2>1, <2>2
  <2> QED BY <1>1, <1>2, <1>3, <1>9, <2>3 DEF UpdateRow, ReleaseLock
<1>10. ASSUME NEW r \in Request, Restore(r) PROVE Fits
    BY <1>1, <1>2, <1>3, <1>10, BackupType DEF Restore, ReleaseLock
<1>11. ASSUME NEW r \in Request, Create(r) PROVE Fits
  <2>1. [owner |-> Call[r].user, count |-> 0, version |-> 1] \in Row
      BY CallType DEF Row
  <2> QED BY <1>1, <1>2, <1>3, <1>11, <2>1 DEF Create
<1>12. ASSUME NEW r \in Request, Rename(r) PROVE Fits
  <2>1. [conv[Conv(r)] EXCEPT !.version = @ + 1] \in Row
      BY <1>1, <1>12, CallType DEF Rename, Matches, Row
  <2>2. conv' = [conv EXCEPT ![Conv(r)] = [conv[Conv(r)] EXCEPT !.version = @ + 1]]
      BY <1>12 DEF Rename
  <2> QED BY <1>1, <1>2, <1>3, <1>12, <2>1, <2>2 DEF Rename
<1>13. ASSUME NEW r \in Request, Delete(r) PROVE Fits
    BY <1>1, <1>2, <1>3, <1>13 DEF Delete
<1>14. ASSUME UNCHANGED vars PROVE Fits
    BY <1>1, <1>14 DEF vars
<1> HIDE DEF Fits
<1> QED BY <1>0, <1>4, <1>5, <1>6, <1>7, <1>8, <1>9, <1>10, <1>11, <1>12, <1>13, <1>14 DEF Next

-----------------------------------------------------------------------------
(* Who runs                                                                *)

\* A step moves one request and leaves the stages of the others.
LEMMA Moves ==
    ASSUME TypeOK, NEW p \in Request, NEW from, NEW to, Goto(p, from, to)
    PROVE  /\ pc[p] = from /\ pc'[p] = to
           /\ \A r \in Request \ {p} : pc'[r] = pc[r]
BY DEF Goto, TypeOK

\* The queue admits a send when nobody holds it, and its holder returns it.
LEMMA LockedStep == TypeOK /\ Locked /\ [Next]_vars => Locked'
<1> SUFFICES ASSUME TypeOK, Locked, [Next]_vars, NEW r \in Request
             PROVE  /\ pc'[r] \in {"mutex", "connect"} \cup InTransaction => Kind(r) = "send"
                    /\ pc'[r] \in {"connect"} \cup InTransaction => activeLocks'[Conv(r)] = r
    BY DEF Locked, Kind, Conv, InTransaction
<1> DEFINE Fits == /\ pc'[r] \in {"mutex", "connect"} \cup InTransaction => Kind(r) = "send"
                   /\ pc'[r] \in {"connect"} \cup InTransaction => activeLocks'[Conv(r)] = r
<1>0. /\ pc[r] \in {"mutex", "connect"} \cup InTransaction => Kind(r) = "send"
      /\ pc[r] \in {"connect"} \cup InTransaction => activeLocks[Conv(r)] = r
      /\ activeLocks \in [Conversation -> Request \cup {Nobody}]
      /\ Conv(r) \in Conversation
    BY Typed, CallType DEF Locked
<1> USE DEF InTransaction
<1>1. ASSUME NEW p \in Request,
             \/ Begin(p) \/ SelectRow(p) \/ Reject(p) \/ InsertUser(p) \/ InsertUserRefused(p)
             \/ BotAnswer(p) \/ BotFail(p) \/ InsertBot(p) \/ InsertBotRefused(p)
      PROVE  Fits
  <2>1. UNCHANGED activeLocks
      BY <1>1 DEF Begin, SelectRow, Reject, InsertUser, InsertUserRefused, BotAnswer, BotFail,
         InsertBot, InsertBotRefused
  <2>2. \E from \in {"connect"} \cup InTransaction : \E to \in InTransaction : Goto(p, from, to)
      BY <1>1 DEF Begin, SelectRow, Reject, InsertUser, InsertUserRefused, BotAnswer, BotFail,
         InsertBot, InsertBotRefused
  <2> QED BY <1>0, <2>1, <2>2, Moves
<1>2. ASSUME NEW p \in Request, Create(p) \/ Rename(p) \/ Delete(p) \/ NotFound(p)
      PROVE  Fits
  <2>1. UNCHANGED activeLocks
      BY <1>2 DEF Create, Rename, Delete, NotFound
  <2>2. \E from : \E to \in {"ok", "err"} : Goto(p, from, to)
      BY <1>2 DEF Create, Rename, Delete, NotFound
  <2> QED BY <1>0, <2>1, <2>2, Moves
<1>3. ASSUME NEW p \in Request, Arrive(p) PROVE Fits
    BY <1>0, <1>3, Moves DEF Arrive
<1>4. ASSUME NEW p \in Request, AcquireMutex(p) PROVE Fits
  <2>1. /\ Goto(p, "mutex", "connect") /\ activeLocks[Conv(p)] = Nobody
        /\ activeLocks' = [activeLocks EXCEPT ![Conv(p)] = p]
      BY <1>4 DEF AcquireMutex
  <2>2. CASE p = r
      BY <1>0, <2>1, <2>2, Moves
  <2>3. CASE p # r
      BY <1>0, <2>1, <2>3, Moves, EmbeddedNullAssumption
  <2> QED BY <2>2, <2>3
<1>5. ASSUME NEW p \in Request, UpdateRow(p) \/ Restore(p) PROVE Fits
  <2>1. /\ activeLocks' = [activeLocks EXCEPT ![Conv(p)] = Nobody]
        /\ \E from \in InTransaction : \E to \in {"ok", "err"} : Goto(p, from, to)
      BY <1>5 DEF UpdateRow, Restore, ReleaseLock
  <2>2. activeLocks[Conv(p)] = p
      BY <2>1, Moves DEF Locked
  <2>3. CASE p = r
      BY <2>1, <2>3, Moves
  <2>4. CASE p # r
      BY <1>0, <2>1, <2>2, <2>4, Moves
  <2> QED BY <2>3, <2>4
<1>6. ASSUME UNCHANGED vars PROVE Fits
    BY <1>0, <1>6 DEF vars
<1> HIDE DEF Fits
<1>7. Fits
    BY <1>1, <1>2, <1>3, <1>4, <1>5, <1>6 DEF Next
<1> QED BY <1>7 DEF Fits

\* All requests are about the one conversation.
LEMMA OneConversation ==
    ASSUME Sole, NEW r \in Request, NEW c \in Conversation
    PROVE  Conv(r) = c
BY CallType DEF Sole

\* So one request at a time is beyond its queue.
LEMMA OneRunner ==
    ASSUME Sole, Locked,
           NEW r \in Request, pc[r] \in {"connect"} \cup InTransaction,
           NEW q \in Request, pc[q] \in {"connect"} \cup InTransaction
    PROVE  r = q
<1>1. Conv(r) = Conv(q)
    BY OneConversation, CallType
<1> QED BY <1>1 DEF Locked

\* What request p does in a step.
Act(p) ==
    \/ Arrive(p) \/ AcquireMutex(p) \/ Begin(p) \/ SelectRow(p) \/ Reject(p)
    \/ InsertUser(p) \/ InsertUserRefused(p) \/ BotAnswer(p) \/ BotFail(p)
    \/ InsertBot(p) \/ InsertBotRefused(p) \/ UpdateRow(p) \/ Restore(p)
    \/ Create(p) \/ Rename(p) \/ Delete(p) \/ NotFound(p)

\* A request that has been answered does nothing more.
LEMMA Ended ==
    ASSUME TypeOK, NEW p \in Request, Act(p)
    PROVE  /\ pc[p] \notin {"ok", "err"}
           /\ \A r \in Request \ {p} : pc'[r] = pc[r]
<1>1. \E from \in Stage \ {"ok", "err"} : \E to \in Stage : Goto(p, from, to)
    BY DEF Act, Stage, InTransaction, Arrive, AcquireMutex, Begin, SelectRow, Reject, InsertUser,
       InsertUserRefused, BotAnswer, BotFail, InsertBot, InsertBotRefused, UpdateRow, Restore,
       Create, Rename, Delete, NotFound
<1> QED BY <1>1, Moves

\* Only an arriving request was idle.
LEMMA Begun ==
    ASSUME TypeOK, NEW p \in Request, Act(p), pc[p] = "idle"
    PROVE  Arrive(p)
<1>1. \/ Arrive(p)
      \/ \E from \in Stage \ {"idle"} : \E to \in Stage : Goto(p, from, to)
    BY DEF Act, Stage, InTransaction, AcquireMutex, Begin, SelectRow, Reject, InsertUser,
       InsertUserRefused, BotAnswer, BotFail, InsertBot, InsertBotRefused, UpdateRow, Restore,
       Create, Rename, Delete, NotFound
<1> QED BY <1>1, Moves

\* All that a creation does.
LEMMA Creates ==
    ASSUME TypeOK, Locked, NEW p \in Request, Act(p), Kind(p) = "create"
    PROVE  Arrive(p) \/ Create(p)
<1>1. \/ Arrive(p) \/ Create(p) \/ Rename(p) \/ Delete(p) \/ NotFound(p)
      \/ \E from \in {"mutex", "connect"} \cup InTransaction : \E to \in Stage : Goto(p, from, to)
    BY DEF Act, Stage, InTransaction, AcquireMutex, Begin, SelectRow, Reject, InsertUser,
       InsertUserRefused, BotAnswer, BotFail, InsertBot, InsertBotRefused, UpdateRow, Restore
<1>2. pc[p] \notin {"mutex", "connect"} \cup InTransaction
    BY DEF Locked
<1>3. Arrive(p) \/ Create(p) \/ Rename(p) \/ Delete(p) \/ NotFound(p)
    BY <1>1, <1>2, Moves
<1> QED BY <1>3 DEF Rename, Delete, NotFound

\* While a creation is unanswered, nobody else does anything.
LEMMA Alone ==
    ASSUME Sole, NotYet, TypeOK, NEW p \in Request, Act(p),
           NEW r \in Request, Kind(r) = "create", pc[r] # "ok"
    PROVE  p = r
<1> SUFFICES ASSUME p # r PROVE FALSE
    OBVIOUS
<1>1. Conv(p) = Conv(r)
    BY OneConversation, CallType
<1>2. pc[p] = "idle"
    BY <1>1 DEF NotYet
<1>3. Known(p)
    BY <1>2, Begun DEF Arrive
<1> QED BY <1>1, <1>3 DEF Known

\* A creation that was not answered is alone.
LEMMA NotYetStep == Sole /\ TypeOK /\ Locked /\ NotYet /\ [Next]_vars => NotYet'
<1> SUFFICES ASSUME Sole, TypeOK, Locked, NotYet, [Next]_vars,
                    NEW r \in Request, Kind(r) = "create", pc'[r] # "ok"
             PROVE  /\ conv'[Conv(r)] = NoRow
                    /\ \A q \in Request \ {r} : Conv(q) = Conv(r) => pc'[q] = "idle"
    BY DEF NotYet, Kind, Conv
<1>1. CASE UNCHANGED vars
    BY <1>1 DEF vars, NotYet
<1>2. CASE \E p \in Request : Act(p)
  <2>1. PICK p \in Request : Act(p)
      BY <1>2
  <2>2. pc[r] # "ok"
      BY <2>1, Ended
  <2>3. p = r
      BY <2>1, <2>2, Alone
  <2>4. Arrive(r)
      BY <2>1, <2>3, Creates, Moves DEF Create
  <2>5. /\ conv[Conv(r)] = NoRow
        /\ \A q \in Request \ {r} : Conv(q) = Conv(r) => pc[q] = "idle"
      BY <2>2 DEF NotYet
  <2>6. UNCHANGED conv /\ \A q \in Request \ {r} : pc'[q] = pc[q]
      BY <2>1, <2>3, <2>4, Ended DEF Arrive
  <2> QED BY <2>5, <2>6
<1> QED BY <1>1, <1>2 DEF Next, Act

-----------------------------------------------------------------------------
(* Where messages come from                                                *)

\* A step changes nothing that belongs to other requests.
LEMMA Own ==
    ASSUME TypeOK, NEW p \in Request, Act(p), NEW r \in Request \ {p}
    PROVE  /\ pc'[r] = pc[r] /\ seen'[r] = seen[r] /\ backup'[r] = backup[r]
           /\ Added(r)' = Added(r)
<1>1. pc'[r] = pc[r]
    BY Ended
<1>2. seen'[r] = seen[r]
  <2>1. SelectRow(p) \/ UNCHANGED seen
      BY DEF Act, Arrive, AcquireMutex, Begin, Reject, InsertUser, InsertUserRefused, BotAnswer,
         BotFail, InsertBot, InsertBotRefused, UpdateRow, Restore, Create, Rename, Delete, NotFound
  <2> QED BY <2>1, Typed DEF SelectRow
<1>3. backup'[r] = backup[r]
  <2>1. Begin(p) \/ UNCHANGED backup
      BY DEF Act, Arrive, AcquireMutex, SelectRow, Reject, InsertUser, InsertUserRefused, BotAnswer,
         BotFail, InsertBot, InsertBotRefused, UpdateRow, Restore, Create, Rename, Delete, NotFound
  <2> QED BY <2>1, Typed DEF Begin
<1>4. UserMessage(r)' = UserMessage(r) /\ BotMessage(r)' = BotMessage(r)
    BY <1>2 DEF UserMessage, BotMessage, Conv
<1> QED BY <1>1, <1>2, <1>3, <1>4 DEF Added

\* A message that stays keeps its excuse.
LEMMA Kept ==
    ASSUME TypeOK, Origin, NEW p \in Request, Act(p), NEW m \in messages, ~Restore(p)
    PROVE  \/ pc'[m.req] \in {"ok", "restore"}
           \/ pc'[m.req] \in InTransaction /\ m \in Added(m.req)'
<1>1. m.req \in Request
    BY Typed DEF Message
<1>2. \/ pc[m.req] \in {"ok", "restore"}
      \/ pc[m.req] \in InTransaction /\ m \in Added(m.req)
    BY DEF Origin
<1>3. CASE m.req # p
    BY <1>1, <1>2, <1>3, Own
<1>4. CASE m.req = p
  <2>1. pc[p] \in {"restore", "bot", "reply", "update"}
      BY <1>2, <1>4, Ended DEF Added
  <2>2. \/ BotAnswer(p) \/ BotFail(p) \/ InsertBot(p) \/ InsertBotRefused(p) \/ UpdateRow(p)
        \/ \E from \in Stage \ {"restore", "bot", "reply", "update"} : \E to \in Stage :
              Goto(p, from, to)
      BY DEF Act, Stage, InTransaction, Arrive, AcquireMutex, Begin, SelectRow, Reject, InsertUser,
         InsertUserRefused, Create, Rename, Delete, NotFound
  <2>3. BotAnswer(p) \/ BotFail(p) \/ InsertBot(p) \/ InsertBotRefused(p) \/ UpdateRow(p)
      BY <2>1, <2>2, Moves
  <2>4. UserMessage(p)' = UserMessage(p) /\ BotMessage(p)' = BotMessage(p)
      BY <2>3 DEF UserMessage, BotMessage, Conv, BotAnswer, BotFail, InsertBot, InsertBotRefused,
         UpdateRow
  <2>5. CASE BotFail(p) \/ InsertBotRefused(p) \/ UpdateRow(p)
      BY <1>4, <2>5, Moves DEF BotFail, InsertBotRefused, UpdateRow
  <2>6. CASE BotAnswer(p)
    <3>1. pc[p] = "bot" /\ pc'[p] = "reply"
        BY <2>6, Moves DEF BotAnswer
    <3> QED BY <1>2, <1>4, <2>4, <3>1 DEF Added, InTransaction
  <2>7. CASE InsertBot(p)
    <3>1. pc[p] = "reply" /\ pc'[p] = "update"
        BY <2>7, Moves DEF InsertBot
    <3> QED BY <1>2, <1>4, <2>4, <3>1 DEF Added, InTransaction
  <2> QED BY <2>3, <2>5, <2>6, <2>7
<1> QED BY <1>3, <1>4

LEMMA OriginStep == Sole /\ TypeOK /\ Locked /\ Origin /\ [Next]_vars => Origin'
<1> SUFFICES ASSUME Sole, TypeOK, Locked, Origin, [Next]_vars PROVE Origin'
    OBVIOUS
<1>1. CASE UNCHANGED vars
  <2>1. \A r : Added(r)' = Added(r)
      BY <1>1 DEF vars, Added, UserMessage, BotMessage, Conv
  <2> QED BY <1>1, <2>1 DEF vars, Origin, InTransaction
<1>2. CASE \E p \in Request : Act(p)
  <2>1. PICK p \in Request : Act(p)
      BY <1>2
  <2>2. ASSUME NEW m \in messages'
        PROVE  \/ pc'[m.req] \in {"ok", "restore"}
               \/ pc'[m.req] \in InTransaction /\ m \in Added(m.req)'
    <3>1. CASE Restore(p)
      <4>1. pc[p] = "restore" /\ m \in backup[p].messages
          BY <3>1, Moves DEF Restore
      <4>2. pc[m.req] = "ok" /\ m.req \in Request
          BY <4>1, BackupType DEF Origin, InTransaction, Message
      <4> QED BY <2>1, <4>1, <4>2, Own
    <3>2. CASE InsertUser(p)
      <4>1. UserMessage(p)' = UserMessage(p) /\ pc'[p] = "bot"
          BY <3>2, Moves DEF InsertUser, UserMessage, Conv
      <4>2. m \in messages \/ m = UserMessage(p)
          BY <3>2 DEF InsertUser
      <4>3. CASE m = UserMessage(p)
          BY <4>1, <4>3, MessageType DEF Added, InTransaction
      <4>4. ~Restore(p)
          BY <3>2, Moves DEF Restore, InsertUser
      <4> QED BY <2>1, <4>2, <4>3, <4>4, Kept
    <3>3. CASE InsertBot(p)
      <4>1. BotMessage(p)' = BotMessage(p) /\ pc'[p] = "update"
          BY <3>3, Moves DEF InsertBot, BotMessage, Conv
      <4>2. m \in messages \/ m = BotMessage(p)
          BY <3>3 DEF InsertBot
      <4>3. CASE m = BotMessage(p)
          BY <4>1, <4>3, MessageType DEF Added, InTransaction
      <4>4. ~Restore(p)
          BY <3>3, Moves DEF Restore, InsertBot
      <4> QED BY <2>1, <4>2, <4>3, <4>4, Kept
    <3>4. CASE ~(Restore(p) \/ InsertUser(p) \/ InsertBot(p))
      <4>1. messages' \subseteq messages
          BY <2>1, <3>4 DEF Act, Arrive, AcquireMutex, Begin, SelectRow, Reject, InsertUserRefused,
             BotAnswer, BotFail, InsertBotRefused, UpdateRow, Create, Rename, Delete, NotFound
      <4> QED BY <2>1, <3>4, <4>1, Kept
    <3> QED BY <3>1, <3>2, <3>3, <3>4
  <2>3. ASSUME NEW r \in Request, pc'[r] \in InTransaction, NEW m \in backup'[r].messages
        PROVE  pc'[m.req] = "ok"
    <3>1. ASSUME pc[m.req] = "ok", m.req \in Request PROVE pc'[m.req] = "ok"
        BY <2>1, <3>1, Ended
    <3>2. CASE Begin(p) /\ r = p
      <4>1. pc[p] = "connect" /\ m \in messages
        <5>1. backup' = [backup EXCEPT ![p] = db]
            BY <3>2 DEF Begin
        <5>2. backup'[p].messages = messages
            BY <5>1, Typed DEF db
        <5> QED BY <2>3, <3>2, <5>2, Moves DEF Begin
      <4>2. m.req \in Request
          BY <4>1, Typed DEF Message
      <4>3. pc[m.req] \in InTransaction => m.req = p
          BY <4>1, <4>2, OneRunner
      <4>4. pc[m.req] \in {"ok", "restore"} \/ pc[m.req] \in InTransaction
          BY <4>1 DEF Origin
      <4>5. pc[m.req] = "ok"
          BY <4>1, <4>3, <4>4 DEF InTransaction
      <4> QED BY <3>1, <4>2, <4>5
    <3>3. CASE ~(Begin(p) /\ r = p)
      <4>1. pc[r] \in InTransaction /\ backup'[r] = backup[r]
        <5>1. CASE r # p
            BY <2>1, <2>3, <5>1, Own
        <5>2. CASE r = p
          <6>1. UNCHANGED backup
              BY <2>1, <3>3, <5>2 DEF Act, Arrive, AcquireMutex, SelectRow, Reject, InsertUser,
                 InsertUserRefused, BotAnswer, BotFail, InsertBot, InsertBotRefused, UpdateRow,
                 Restore, Create, Rename, Delete, NotFound
          <6>2. \/ \E from \in InTransaction : \E to \in Stage : Goto(p, from, to)
                \/ \E to \in {"mutex", "stmt", "connect", "ok", "err"} : \E from \in Stage :
                      Goto(p, from, to)
              BY <2>1, <3>3, <5>2 DEF Stage, InTransaction, Act, Arrive, AcquireMutex, SelectRow,
                 Reject, InsertUser, InsertUserRefused, BotAnswer, BotFail, InsertBot,
                 InsertBotRefused, UpdateRow, Restore, Create, Rename, Delete, NotFound
          <6>3. pc[p] \in InTransaction
              BY <2>3, <5>2, <6>2, Moves DEF InTransaction
          <6> QED BY <5>2, <6>1, <6>3
        <5> QED BY <5>1, <5>2
      <4>2. pc[m.req] = "ok" /\ m.req \in Request
          BY <2>3, <4>1, BackupType DEF Origin, Message
      <4> QED BY <3>1, <4>2
    <3> QED BY <3>2, <3>3
  <2> QED BY <2>2, <2>3 DEF Origin, InTransaction
<1> QED BY <1>1, <1>2 DEF Next, Act

-----------------------------------------------------------------------------
(* The conversation and its row                                            *)

\* An exchange numbered after the row's count is what the row then counts.
LEMMA ExactGrows ==
    ASSUME TypeOK, NEW p \in Request, NEW row \in Row, row.count = seen[p],
           NEW rest \in SUBSET Message, Exact(row, rest), \A m \in rest : m.req # p
    PROVE  Exact(Counted(row), rest \cup {UserMessage(p), BotMessage(p)})
<1> DEFINE u == UserMessage(p)
           b == BotMessage(p)
           all == rest \cup {u, b}
           n == row.count
<1>1. n \in Nat /\ Counted(row) # NoRow /\ row # NoRow /\ Counted(row).count = n + 2
    BY RowType
<1>2. /\ u.seq = n + 1 /\ b.seq = n + 2 /\ u.req = p /\ b.req = p
      /\ u.sender = "user" /\ b.sender = "bot" /\ u # b
    BY MessageType
<1>3. /\ \A x \in rest : x.seq \in 1 .. n
      /\ \A k \in 1 .. n : \E x \in rest : x.seq = k
      /\ \A x, y \in rest : x.seq = y.seq => x = y
      /\ \A x, y \in rest :
           x.req = y.req /\ x.sender = "user" /\ y.sender = "bot" => y.seq = x.seq + 1
    BY <1>1 DEF Exact
<1> HIDE DEF u, b, n
<1>4. \A x \in all : x.seq \in 1 .. n + 2
    BY <1>1, <1>2, <1>3
<1>5. \A k \in 1 .. n + 2 : \E x \in all : x.seq = k
  <2> SUFFICES ASSUME NEW k \in 1 .. n + 2 PROVE \E x \in all : x.seq = k
      OBVIOUS
  <2>1. k \in 1 .. n \/ k = n + 1 \/ k = n + 2
      BY <1>1
  <2> QED BY <1>2, <1>3, <2>1
<1>6. \A x, y \in all : x.seq = y.seq => x = y
    BY <1>1, <1>2, <1>3
<1>7. ASSUME NEW x \in all, NEW y \in all, x.req = y.req, x.sender = "user", y.sender = "bot"
      PROVE  y.seq = x.seq + 1
  <2>1. CASE x \in rest
      BY <1>2, <1>3, <1>7, <2>1
  <2>2. CASE x = u
      BY <1>1, <1>2, <1>7, <2>2
  <2>3. CASE x = b
      BY <1>2, <1>7, <2>3
  <2> QED BY <2>1, <2>2, <2>3
<1>8. Exact(Counted(row), all)
    BY <1>1, <1>4, <1>5, <1>6, <1>7 DEF Exact
<1> QED BY <1>8 DEF u, b

\* Exact looks at nothing of a row but its count.
LEMMA ExactCounts ==
    ASSUME NEW row, NEW other, row # NoRow, other # NoRow, row.count = other.count, NEW m,
           Exact(row, m)
    PROVE  Exact(other, m)
BY DEF Exact

\* The messages of a running send are the ones it has added.
LEMMA OwnMessages ==
    ASSUME TypeOK, Origin, NEW p \in Request, pc[p] \in InTransaction, pc[p] # "restore",
           NEW m \in messages, m.req = p
    PROVE  m \in Added(p)
BY DEF Origin, InTransaction

\* A step of a transaction's runner, who has no rival.
LEMMA RunnerStep ==
    ASSUME Sole, TypeOK, Locked, Origin, Consistent, NEW p \in Request, Act(p),
           pc[p] \in InTransaction, pc'[p] \in InTransaction
    PROVE  /\ UNCHANGED backup
           /\ pc'[p] # "select"
           /\ pc'[p] # "restore" => Working(p)'
<1>1. \/ SelectRow(p) \/ InsertUser(p) \/ BotAnswer(p) \/ InsertBot(p)
      \/ Reject(p) \/ InsertUserRefused(p) \/ BotFail(p) \/ InsertBotRefused(p)
      \/ \E from \in Stage \ InTransaction : \E to \in Stage : Goto(p, from, to)
      \/ \E from \in Stage : \E to \in Stage \ InTransaction : Goto(p, from, to)
    BY DEF Act, Stage, InTransaction, Arrive, AcquireMutex, Begin, UpdateRow, Restore, Create,
       Rename, Delete, NotFound
<1>2. \/ SelectRow(p) \/ InsertUser(p) \/ BotAnswer(p) \/ InsertBot(p)
      \/ Reject(p) \/ InsertUserRefused(p) \/ BotFail(p) \/ InsertBotRefused(p)
    BY <1>1, Moves
<1>3. UNCHANGED backup
    BY <1>2 DEF SelectRow, InsertUser, BotAnswer, InsertBot, Reject, InsertUserRefused, BotFail,
       InsertBotRefused
<1>4. UNCHANGED conv
    BY <1>2 DEF SelectRow, InsertUser, BotAnswer, InsertBot, Reject, InsertUserRefused, BotFail,
       InsertBotRefused
<1> DEFINE row == conv[Conv(p)]
<1>5. ASSUME row # NoRow, seen'[p] = row.count, Added(p)' \subseteq messages',
             Exact(row, messages' \ Added(p)')
      PROVE  Working(p)'
    BY <1>4, <1>5 DEF Working, Exact, Conv
<1>6. ASSUME row = NoRow, messages' = {} PROVE Working(p)'
    BY <1>4, <1>6 DEF Working, Conv
<1>7. CASE Reject(p) \/ InsertUserRefused(p) \/ BotFail(p) \/ InsertBotRefused(p)
    BY <1>3, <1>7, Moves DEF Reject, InsertUserRefused, BotFail, InsertBotRefused
<1>8. CASE SelectRow(p)
  <2>1. pc[p] = "select" /\ pc'[p] = "user" /\ UNCHANGED messages /\ row # NoRow
      BY <1>8, Moves DEF SelectRow, Matches
  <2>2. seen'[p] = row.count
      BY <1>8, Typed DEF SelectRow
  <2>3. Added(p)' = {}
      BY <2>1 DEF Added
  <2>4. Exact(row, messages)
      BY <2>1 DEF Consistent, Fine, Whole, InTransaction
  <2>5. messages' \ Added(p)' = messages
      BY <2>1, <2>3
  <2> QED BY <1>3, <1>5, <2>1, <2>2, <2>3, <2>4, <2>5
<1>9. CASE InsertUser(p) \/ InsertBot(p) \/ BotAnswer(p)
  <2>1. UNCHANGED seen
      BY <1>9 DEF InsertUser, InsertBot, BotAnswer
  <2>2. UserMessage(p)' = UserMessage(p) /\ BotMessage(p)' = BotMessage(p)
      BY <2>1 DEF UserMessage, BotMessage, Conv
  <2>3. pc[p] \in {"user", "bot", "reply"} /\ pc'[p] \in {"bot", "reply", "update"}
      BY <1>9, Moves DEF InsertUser, InsertBot, BotAnswer
  <2>4. Working(p)
      BY <2>3 DEF Consistent, Fine, InTransaction
  <2>5. UserMessage(p) # BotMessage(p)
      BY MessageType
  <2>6. CASE row = NoRow
    <3>1. BotAnswer(p)
        BY <1>9, <2>6 DEF InsertUser, InsertBot
    <3>2. messages' = {}
        BY <2>4, <2>6, <3>1 DEF Working, BotAnswer
    <3> QED BY <1>3, <1>6, <2>3, <2>6, <3>2
  <2>7. CASE row # NoRow
    <3>1. seen[p] = row.count /\ Added(p) \subseteq messages /\ Exact(row, messages \ Added(p))
        BY <2>4, <2>7 DEF Working
    <3>2. Added(p)' \subseteq messages' /\ messages' \ Added(p)' = messages \ Added(p)
      <4>1. CASE InsertUser(p)
        <5>1. pc[p] = "user" /\ pc'[p] = "bot" /\ messages' = messages \cup {UserMessage(p)}
            BY <4>1, Moves DEF InsertUser
        <5>2. Added(p) = {} /\ Added(p)' = {UserMessage(p)}
            BY <2>2, <5>1 DEF Added
        <5>3. UserMessage(p) \notin messages
            BY <5>1, <5>2, MessageType, OwnMessages DEF InTransaction
        <5> QED BY <5>1, <5>2, <5>3
      <4>2. CASE InsertBot(p)
        <5>1. pc[p] = "reply" /\ pc'[p] = "update" /\ messages' = messages \cup {BotMessage(p)}
            BY <4>2, Moves DEF InsertBot
        <5>2. Added(p) = {UserMessage(p)} /\ Added(p)' = {UserMessage(p), BotMessage(p)}
            BY <2>2, <5>1 DEF Added
        <5>3. BotMessage(p) \notin messages
            BY <2>5, <5>1, <5>2, MessageType, OwnMessages DEF InTransaction
        <5> QED BY <3>1, <5>1, <5>2, <5>3
      <4>3. CASE BotAnswer(p)
        <5>1. pc[p] = "bot" /\ pc'[p] = "reply" /\ UNCHANGED messages
            BY <4>3, Moves DEF BotAnswer
        <5>2. Added(p)' = Added(p)
            BY <2>2, <5>1 DEF Added
        <5> QED BY <3>1, <5>1, <5>2
      <4> QED BY <1>9, <4>1, <4>2, <4>3
    <3> QED BY <1>3, <1>5, <2>1, <2>3, <2>7, <3>1, <3>2
  <2> QED BY <2>6, <2>7
<1> QED BY <1>2, <1>7, <1>8, <1>9

\* With one conversation, either somebody runs or the conversation is at rest.
LEMMA RestOrRun ==
    ASSUME Sole, NEW c \in Conversation
    PROVE  AtRest(c) <=> \A r \in Request : pc[r] \notin InTransaction
BY OneConversation DEF AtRest

\* The rules of Consistent, for the state a step leads to.
LEMMA ConsistentNext ==
    ASSUME Sole,
           (\A r \in Request : pc'[r] \notin InTransaction) =>
              \A c \in Conversation : Exact(conv'[c], messages'),
           \A r \in Request : pc'[r] \in InTransaction =>
              /\ Exact(backup'[r].conv[Conv(r)], backup'[r].messages)
              /\ pc'[r] = "select" => Exact(conv'[Conv(r)], messages')
              /\ pc'[r] \in {"user", "bot", "reply", "update"} => Working(r)'
    PROVE  Consistent'
<1>1. ASSUME NEW c \in Conversation, AtRest(c)' PROVE Whole(c)'
  <2>1. \A r \in Request : pc'[r] \notin InTransaction
      BY <1>1, OneConversation DEF AtRest, Conv, InTransaction
  <2> QED BY <2>1 DEF Whole, Exact
<1>2. ASSUME NEW r \in Request, pc'[r] \in InTransaction PROVE Fine(r)'
    BY <1>2 DEF Fine, Whole, Exact, Conv
<1> QED BY <1>1, <1>2 DEF Consistent, InTransaction

LEMMA ConsistentStep ==
    Sole /\ TypeOK /\ Locked /\ NotYet /\ Origin /\ Consistent /\ [Next]_vars => Consistent'
<1> SUFFICES ASSUME Sole, TypeOK, Locked, NotYet, Origin, Consistent, [Next]_vars
             PROVE  Consistent'
    OBVIOUS
<1>1. (\A r \in Request : pc[r] \notin InTransaction) =>
         \A c \in Conversation : Exact(conv[c], messages)
    BY RestOrRun DEF Consistent, Whole
<1>2. \A r \in Request : pc[r] \in InTransaction =>
         /\ Exact(backup[r].conv[Conv(r)], backup[r].messages)
         /\ pc[r] = "select" => Exact(conv[Conv(r)], messages)
         /\ pc[r] \in {"user", "bot", "reply", "update"} => Working(r)
    BY DEF Consistent, Fine, Whole
<1>3. CASE UNCHANGED vars
  <2>1. \A r \in Request : Working(r)' <=> Working(r)
      BY <1>3 DEF vars, Working, Added, UserMessage, BotMessage, Exact, Conv
  <2> QED BY <1>1, <1>2, <1>3, <2>1, ConsistentNext DEF vars
<1>4. CASE \E p \in Request : Act(p)
  <2>1. PICK p \in Request : Act(p)
      BY <1>4
  <2> DEFINE c == Conv(p)
  <2>2. c \in Conversation /\ \A r \in Request : Conv(r) = c
      BY CallType, OneConversation
  <2>3. \A d \in Conversation : d = c
      BY <2>2 DEF Sole
  <2>4. \A r \in Request \ {p} :
          pc'[r] = pc[r] /\ seen'[r] = seen[r] /\ backup'[r] = backup[r] /\ Added(r)' = Added(r)
      BY <2>1, Own
  <2> HIDE DEF c
  \* The runner goes on.
  <2>5. CASE pc[p] \in InTransaction /\ pc'[p] \in InTransaction
    <3>1. \A r \in Request \ {p} : pc'[r] \notin InTransaction
        BY <2>4, <2>5, OneRunner
    <3>2. UNCHANGED backup /\ pc'[p] # "select" /\ (pc'[p] # "restore" => Working(p)')
        BY <2>1, <2>5, RunnerStep
    <3> QED BY <1>2, <2>5, <3>1, <3>2, ConsistentNext
  \* The runner ends.
  <2>6. CASE pc[p] \in InTransaction /\ pc'[p] \notin InTransaction
    <3>1. \A r \in Request : pc'[r] \notin InTransaction
        BY <2>4, <2>6, OneRunner
    <3>2. UpdateRow(p) \/ Restore(p)
      <4>1. \/ UpdateRow(p) \/ Restore(p)
            \/ \E from \in Stage : \E to \in InTransaction : Goto(p, from, to)
            \/ \E from \in Stage \ InTransaction : \E to \in Stage : Goto(p, from, to)
          BY <2>1 DEF Act, Stage, InTransaction, Arrive, AcquireMutex, Begin, SelectRow, Reject,
             InsertUser, InsertUserRefused, BotAnswer, BotFail, InsertBot, InsertBotRefused, Create,
             Rename, Delete, NotFound
      <4> QED BY <2>6, <4>1, Moves
    <3>3. Exact(conv'[c], messages')
      <4>1. CASE Restore(p)
          BY <1>2, <2>6, <4>1 DEF Restore, c
      <4>2. CASE UpdateRow(p)
        <5>1. pc[p] = "update" /\ UNCHANGED messages
            BY <4>2, Moves DEF UpdateRow
        <5>2. conv'[c] = Counted(conv[c])
          <6>1. conv' = [conv EXCEPT ![c] = Counted(conv[c])]
              BY <4>2 DEF UpdateRow, c
          <6> QED BY <2>2, <6>1, Typed
        <5>3. Added(p) = {UserMessage(p), BotMessage(p)}
            BY <5>1 DEF Added
        <5>4. Working(p)
            BY <1>2, <2>6, <5>1
        <5>5. CASE conv[c] = NoRow
            BY <5>1, <5>2, <5>4, <5>5 DEF Working, Counted, Exact, c
        <5>6. CASE conv[c] # NoRow
          <6>1. /\ seen[p] = conv[c].count /\ Added(p) \subseteq messages
                /\ Exact(conv[c], messages \ Added(p))
              BY <5>4, <5>6 DEF Working, c
          <6>2. conv[c] \in Row /\ messages \subseteq Message
              BY <2>2, <5>6, Typed
          <6>3. \A m \in messages \ Added(p) : m.req # p
              BY <2>6, <5>1, OwnMessages
          <6>4. messages = (messages \ Added(p)) \cup {UserMessage(p), BotMessage(p)}
              BY <5>3, <6>1
          <6>5. Exact(Counted(conv[c]), (messages \ Added(p)) \cup {UserMessage(p), BotMessage(p)})
              BY <6>1, <6>2, <6>3, ExactGrows
          <6> QED BY <5>1, <5>2, <6>4, <6>5
        <5> QED BY <5>5, <5>6
      <4> QED BY <3>2, <4>1, <4>2
    <3> QED BY <2>3, <3>1, <3>3, ConsistentNext
  \* A runner begins.
  <2>7. CASE Begin(p)
    <3>1. pc[p] = "connect" /\ pc'[p] = "select" /\ UNCHANGED <<conv, messages>>
        BY <2>7, Moves DEF Begin
    <3>2. \A r \in Request : pc[r] \notin InTransaction
        BY <3>1, OneRunner DEF InTransaction
    <3>3. Exact(conv[c], messages)
        BY <1>1, <2>2, <3>2
    <3>4. backup'[p].conv = conv /\ backup'[p].messages = messages
      <4>1. backup' = [backup EXCEPT ![p] = db]
          BY <2>7 DEF Begin
      <4> QED BY <4>1, Typed DEF db
    <3>5. \A r \in Request \ {p} : pc'[r] \notin InTransaction
        BY <2>4, <3>2
    <3>6. pc'[p] \in InTransaction
        BY <3>1 DEF InTransaction
    <3> QED BY <3>1, <3>3, <3>4, <3>5, <3>6, ConsistentNext DEF c
  \* Somebody else does something.
  <2>8. CASE pc[p] \notin InTransaction /\ ~Begin(p)
    <3>1. /\ \/ Arrive(p) \/ AcquireMutex(p) \/ NotFound(p)
             \/ Create(p) \/ Rename(p) \/ Delete(p)
          /\ pc'[p] \notin InTransaction
      <4>1. \/ Arrive(p) \/ AcquireMutex(p) \/ NotFound(p)
            \/ Create(p) \/ Rename(p) \/ Delete(p)
            \/ \E from \in InTransaction : \E to \in Stage : Goto(p, from, to)
          BY <2>1, <2>8 DEF Act, Stage, InTransaction, SelectRow, Reject, InsertUser,
             InsertUserRefused, BotAnswer, BotFail, InsertBot, InsertBotRefused, UpdateRow, Restore
      <4>2. Arrive(p) \/ AcquireMutex(p) \/ NotFound(p) \/ Create(p) \/ Rename(p) \/ Delete(p)
          BY <2>8, <4>1, Moves
      <4>3. \E from \in Stage : \E to \in Stage \ InTransaction : Goto(p, from, to)
          BY <4>2 DEF Stage, InTransaction, Arrive, AcquireMutex, NotFound, Create, Rename, Delete
      <4> QED BY <4>2, <4>3, Moves
    <3>2. (\A r \in Request : pc'[r] \notin InTransaction) =>
             Exact(conv[c], messages)
        BY <1>1, <2>2, <2>4, <2>8
    <3>3. \A r \in Request : pc'[r] \in InTransaction =>
             r # p /\ pc'[r] = pc[r] /\ pc[r] \in InTransaction /\ backup'[r] = backup[r]
        BY <2>4, <3>1
    <3>4. ASSUME Exact(conv[c], messages) => Exact(conv'[c], messages'),
                 \A r \in Request \ {p} : Working(r) => Working(r)'
          PROVE  Consistent'
        BY <1>2, <2>2, <2>3, <3>2, <3>3, <3>4, ConsistentNext
    <3>5. CASE Arrive(p) \/ AcquireMutex(p) \/ NotFound(p)
      <4>1. UNCHANGED <<conv, messages>>
          BY <3>5 DEF Arrive, AcquireMutex, NotFound
      <4>2. \A r \in Request \ {p} : Working(r) => Working(r)'
          BY <2>4, <4>1 DEF Working, Exact, Conv
      <4> QED BY <3>4, <4>1, <4>2
    <3>6. CASE Create(p)
      <4>1. Kind(p) = "create" /\ pc[p] = "stmt" /\ UNCHANGED messages
          BY <3>6, Moves DEF Create
      <4>2. conv[c] = NoRow /\ \A r \in Request \ {p} : pc[r] = "idle"
          BY <2>2, <4>1 DEF NotYet, c
      <4>3. \A r \in Request : pc'[r] \notin InTransaction
          BY <2>4, <3>1, <4>2 DEF InTransaction
      <4>4. messages = {}
          BY <3>2, <4>2, <4>3 DEF Exact
      <4>5. conv'[c] = [owner |-> Call[p].user, count |-> 0, version |-> 1]
          BY <2>2, <3>6, Typed DEF Create, c
      <4>6. conv'[c] # NoRow /\ conv'[c].count = 0
        <5>1. conv'[c] \in Row
            BY <4>5, CallType DEF Row
        <5> QED BY <4>5, <5>1, EmbeddedNullAssumption
      <4>7. Exact(conv'[c], {})
          BY <4>6 DEF Exact
      <4>8. Exact(conv'[c], messages')
          BY <4>1, <4>4, <4>7
      <4> QED BY <2>3, <4>3, <4>8, ConsistentNext
    <3>7. CASE Rename(p)
      <4>1. conv[c] # NoRow /\ UNCHANGED messages
          BY <3>7 DEF Rename, Matches, c
      <4>2. conv'[c] # NoRow /\ conv'[c].count = conv[c].count
        <5>1. conv[c] \in Row
            BY <2>2, <4>1, Typed
        <5>2. conv' = [conv EXCEPT ![c] = [conv[c] EXCEPT !.version = @ + 1]]
            BY <3>7 DEF Rename, c
        <5>3. conv'[c] = [conv[c] EXCEPT !.version = @ + 1]
            BY <2>2, <5>2, Typed
        <5>4. [conv[c] EXCEPT !.version = @ + 1] \in Row
            BY <5>1, RowType
        <5> QED BY <5>1, <5>3, <5>4, RowType
      <4>3. \A m : Exact(conv[c], m) => Exact(conv'[c], m)
          BY <4>1, <4>2, ExactCounts
      <4>4. ASSUME NEW r \in Request \ {p}, Working(r) PROVE Working(r)'
        <5>1. /\ seen[r] = conv[c].count /\ Added(r) \subseteq messages
              /\ Exact(conv[c], messages \ Added(r))
            BY <2>2, <4>1, <4>4 DEF Working
        <5>2. /\ conv'[c] # NoRow /\ seen'[r] = conv'[c].count /\ Added(r)' \subseteq messages'
              /\ Exact(conv'[c], messages' \ Added(r)')
            BY <2>4, <4>1, <4>2, <4>3, <5>1
        <5>3. Conv(r) = c
            BY <2>2
        <5> QED BY <5>2, <5>3 DEF Working, Exact, Conv
      <4> QED BY <3>4, <4>1, <4>3, <4>4
    <3>8. CASE Delete(p)
      <4>1. conv'[c] = NoRow
          BY <2>2, <3>8, Typed DEF Delete, c
      <4>2. messages' = {}
          BY <2>3, <3>8, Typed DEF Delete, Message, c
      <4>3. Exact(conv'[c], messages')
          BY <4>1, <4>2 DEF Exact
      <4>4. \A r \in Request : Working(r)'
          BY <2>2, <4>1, <4>2 DEF Working, Conv
      <4> QED BY <3>4, <4>3, <4>4
    <3> QED BY <3>1, <3>5, <3>6, <3>7, <3>8
  <2> QED BY <2>5, <2>6, <2>7, <2>8
<1> QED BY <1>3, <1>4 DEF Next, Act

-----------------------------------------------------------------------------
(* The theorems                                                            *)

LEMMA InductiveInit == Init => Inductive
<1> SUFFICES ASSUME Init PROVE Inductive
    OBVIOUS
<1>1. \A r \in Request : pc[r] = "idle"
    BY DEF Init
<1>2. TypeOK
    BY TypeInit
<1>3. Locked /\ Origin
    BY <1>1 DEF Locked, Origin, InTransaction, Init
<1>4. NotYet
    BY <1>1, CallType DEF NotYet, Init
<1>5. \A c \in Conversation : Whole(c)
  <2> SUFFICES ASSUME NEW c \in Conversation PROVE Exact(conv[c], messages)
      BY DEF Whole
  <2>1. messages = {}
      BY DEF Init
  <2>2. conv[c] = NoRow \/ conv[c] = [owner |-> Owner[c], count |-> 0, version |-> 1]
      BY DEF Init
  <2>3. conv[c] # NoRow => conv[c].count = 0
      BY <2>2
  <2> QED BY <2>1, <2>3 DEF Exact
<1>6. Consistent
    BY <1>1, <1>5 DEF Consistent, InTransaction
<1> QED BY <1>2, <1>3, <1>4, <1>6 DEF Inductive

LEMMA InductiveStep == Sole /\ Inductive /\ [Next]_vars => Inductive'
BY TypeStep, LockedStep, NotYetStep, OriginStep, ConsistentStep DEF Inductive

\* With one conversation the invariant holds in every state of the embedded
\* store.
THEOREM InductiveInvariant == Sole => (Spec => []Inductive)
<1> SUFFICES ASSUME Sole PROVE Spec => []Inductive
    OBVIOUS
<1>1. Inductive /\ [Next]_vars => Inductive'
    BY InductiveStep
<1> QED BY <1>1, InductiveInit, PTL DEF Spec

\* Every variable has its type in every state, with any number of
\* conversations.
THEOREM TypeInvariant == Spec => []TypeOK
BY TypeInit, TypeStep, PTL DEF Spec

\* Between sends, the one conversation has exactly the exchanges its row
\* counts, also when a delete has run inside a send and a failed send has
\* restored the database: withTransaction's backup and the queue of
\* sendMessage suffice as long as nobody talks about a second conversation.
THEOREM SoleStaysExact == Sole => (Spec => []SoleConversationExact)
<1> SUFFICES ASSUME Sole PROVE Spec => []SoleConversationExact
    OBVIOUS
<1>1. Inductive => SoleConversationExact
  <2> SUFFICES ASSUME Inductive, NEW c \in Conversation, AtRest(c)
               PROVE  IF conv[c] = NoRow THEN \A m \in messages : m.convo # c
                      ELSE /\ {m.seq : m \in {n \in messages : n.convo = c}} = 1 .. conv[c].count
                           /\ \A m, n \in messages : m.convo = c /\ n.convo = c =>
                                /\ m.seq = n.seq => m = n
                                /\ m.req = n.req /\ m.sender = "user" /\ n.sender = "bot" =>
                                     n.seq = m.seq + 1
      BY DEF SoleConversationExact
  <2>1. Exact(conv[c], messages)
      BY DEF Inductive, Consistent, Whole
  <2>2. \A m \in messages : m.convo = c
      BY Typed DEF Inductive, Message, Sole
  <2>3. {n \in messages : n.convo = c} = messages
      BY <2>2
  <2>4. CASE conv[c] = NoRow
      BY <2>1, <2>4 DEF Exact
  <2>5. CASE conv[c] # NoRow
    <3>1. {m.seq : m \in messages} = 1 .. conv[c].count
        BY <2>1, <2>5 DEF Exact
    <3> QED BY <2>1, <2>3, <2>5, <3>1 DEF Exact
  <2> QED BY <2>4, <2>5
<1> QED BY <1>1, InductiveInvariant, PTL

\* A send to the one conversation that failed has left no message, and no
\* backup that a later rollback restores holds one.
THEOREM FailuresLeaveNothing == Sole => (Spec => []FailedLeavesNothing)
<1> SUFFICES ASSUME Sole PROVE Spec => []FailedLeavesNothing
    OBVIOUS
<1>1. Inductive => FailedLeavesNothing
    BY DEF Inductive, Origin, FailedLeavesNothing, InTransaction
<1> QED BY <1>1, InductiveInvariant, PTL
=============================================================================
