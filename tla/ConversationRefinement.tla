----------------------- MODULE ConversationRefinement ------------------------
(***************************************************************************)
(* ConversationService implements ConversationLog: the committed rows are  *)
(* the log, and the stage of a request is its outcome.                     *)
(***************************************************************************)
EXTENDS ConversationService, Sequences

ASSUME GoneAssumption == NoRow \notin Seq(Request)

\* The send that holds message number k of conversation c, among these rows.
SendAt(rows, c, k) == (CHOOSE m \in rows : m.convo = c /\ m.seq = k).req

LogOf(c) ==
    IF conv[c] = NoRow THEN NoRow
    ELSE [n \in 1 .. conv[c].count \div 2 |-> SendAt(messages, c, 2 * n - 1)]

OutcomeOf(stage) ==
    CASE stage \in {"done", "committed"} -> "applied"
      [] stage \in Answered              -> stage
      [] OTHER                           -> "open"

committedLog == [c \in Conversation |-> LogOf(c)]
outcomes == [r \in Request |-> OutcomeOf(pc[r])]

Log == INSTANCE ConversationLog WITH log <- committedLog, outcome <- outcomes, Gone <- NoRow

\* The service behaves as a log to which every call applies at most once and
\* all at once: a success is never undone or partial, an error leaves nothing
\* behind and nothing of it appears later, and no second send with a key
\* joins the log (the transaction of sendMessage, its FOR UPDATE and UNIQUE).
ImplementsLog == Log!Spec
=============================================================================
