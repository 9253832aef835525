--------------------------- MODULE ConversationLog ---------------------------
(***************************************************************************)
(* What the conversation service promises its callers.  A conversation is  *)
(* a log of exchanges: one accepted send with the bot's answer.  A call    *)
(* takes effect at one instant, between its arrival and its answer.  A     *)
(* success means that it took effect, an error that it did not and never   *)
(* will.  A caller whose connection broke knows neither.                   *)
(***************************************************************************)
EXTENDS Sequences, Naturals

CONSTANTS Request, Conversation, Call, Owner, NoKey, Gone

VARIABLES
    log,      \* log[c]: the sends of conversation c in order, or Gone
    outcome   \* what became of each request

Creator(c) == {r \in Request : Call[r].kind = "create" /\ Call[r].convo = c}
OwnerOf(c) == IF Creator(c) = {} THEN Owner[c] ELSE Call[CHOOSE r \in Creator(c) : TRUE].user

Init ==
    /\ log = [c \in Conversation |-> IF Creator(c) = {} THEN <<>> ELSE Gone]
    /\ outcome = [r \in Request |-> "open"]

KeyUsed(k) ==
    \E c \in Conversation : log[c] # Gone /\
        \E n \in 1 .. Len(log[c]) : Call[log[c][n]].key = k

\* The one effect of a call, on a conversation that is there and is the caller's.
Effect(r) ==
    LET c == Call[r].convo
        mine == log[c] # Gone /\ OwnerOf(c) = Call[r].user
    IN  \/ /\ Call[r].kind = "create" /\ log[c] = Gone
           /\ log' = [log EXCEPT ![c] = <<>>]
        \/ /\ Call[r].kind = "send" /\ mine
           /\ Call[r].key # NoKey => ~KeyUsed(Call[r].key)
           /\ log' = [log EXCEPT ![c] = Append(@, r)]
        \/ /\ Call[r].kind = "rename" /\ mine
           /\ UNCHANGED log
        \/ /\ Call[r].kind = "delete" /\ mine
           /\ log' = [log EXCEPT ![c] = Gone]

Becomes(r, from, to) == outcome[r] = from /\ outcome' = [outcome EXCEPT ![r] = to]

TakeEffect(r)  == Becomes(r, "open", "applied") /\ Effect(r)
Succeed(r)     == Becomes(r, "applied", "ok") /\ UNCHANGED log
Refuse(r)      == Becomes(r, "open", "err") /\ UNCHANGED log
LateEffect(r)  == Becomes(r, "orphan", "unsure") /\ Effect(r)
LateRefusal(r) == Becomes(r, "orphan", "unsure") /\ UNCHANGED log

\* Callers are cut off, one or, when an instance dies, several at a time.
CutOff ==
    /\ \A r \in Request :
          \/ outcome'[r] = outcome[r]
          \/ outcome[r] = "open" /\ outcome'[r] \in {"orphan", "unsure"}
          \/ outcome[r] = "applied" /\ outcome'[r] = "unsure"
    /\ outcome' \in [Request -> {"open", "applied", "ok", "err", "orphan", "unsure"}]
    /\ UNCHANGED log

Next ==
    \/ \E r \in Request : \/ TakeEffect(r) \/ Succeed(r) \/ Refuse(r)
                          \/ LateEffect(r) \/ LateRefusal(r)
    \/ CutOff

Spec == Init /\ [][Next]_<<log, outcome>>
=============================================================================
