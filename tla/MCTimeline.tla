------------------------------ MODULE MCTimeline ------------------------------
(***************************************************************************)
(* An instance of Timeline for TLC.                                        *)
(***************************************************************************)
EXTENDS Timeline, Sequences, TLC

CONSTANTS alice, c1, c2, i1, i2, mk, s1, s2, rm

Ask(kind, at, convo, user) ==
    [kind |-> kind, at |-> at, convo |-> convo, user |-> user, key |-> NoKey]

AliceOwns == [c \in Conversation |-> alice]

\* The life of conversations: c1 is written to through two
\* instances and deleted; c2 is created.
LifeCall ==
    mk :> Ask("create", i1, c2, alice) @@
    s1 :> Ask("send", i1, c1, alice) @@
    s2 :> Ask("send", i2, c1, alice) @@
    rm :> Ask("delete", i1, c1, alice)

\* Ids in one order that agrees with time for some rows and not for others;
\* s1 and s2 differ only in whose pool they use, so one order is enough.
ById ==
    <<c2, <<s1, "user">>, <<s2, "bot">>, c1, <<s1, "bot">>, <<s2, "user">>,
      <<rm, "user">>, <<rm, "bot">>, <<mk, "user">>, <<mk, "bot">>>>
OneOrder ==
    {[x \in MessageId \cup Conversation |-> CHOOSE k \in DOMAIN ById : ById[k] = x]}
=============================================================================
