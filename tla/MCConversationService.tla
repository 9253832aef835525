------------------------ MODULE MCConversationService ------------------------
(***************************************************************************)
(* Instances of ConversationService for TLC: who asks for what, where.     *)
(***************************************************************************)
EXTENDS ConversationRefinement, TLC

CONSTANTS alice, bob, c1, c2, i1, i2, k1, s1, s2, s3, s4, rn, rm

Ask(kind, at, convo, user, key) ==
    [kind |-> kind, at |-> at, convo |-> convo, user |-> user, key |-> key]

AliceOwns == [c \in Conversation |-> alice]

\* Two instances race on one conversation: a send and its retry through the
\* other instance share a key, a second send has none, a rename and a delete
\* run too.
RaceCall ==
    s1 :> Ask("send", i1, c1, alice, k1) @@
    s2 :> Ask("send", i2, c1, alice, k1) @@
    s3 :> Ask("send", i1, c1, alice, NoKey) @@
    rn :> Ask("rename", i1, c1, alice, NoKey) @@
    rm :> Ask("delete", i1, c1, alice, NoKey)

\* Sends to two conversations of one instance: they meet in its pool, and
\* two of them in one key; the fourth is a stranger's.
PoolCall ==
    s1 :> Ask("send", i1, c1, alice, k1) @@
    s2 :> Ask("send", i1, c2, alice, k1) @@
    s3 :> Ask("send", i1, c1, alice, NoKey) @@
    s4 :> Ask("send", i1, c2, bob, NoKey)
=============================================================================
