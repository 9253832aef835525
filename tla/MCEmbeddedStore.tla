--------------------------- MODULE MCEmbeddedStore ---------------------------
(***************************************************************************)
(* Instances of EmbeddedStore for TLC: who asks for what.                  *)
(***************************************************************************)
EXTENDS EmbeddedStore, TLC

CONSTANTS alice, bob, c1, c2, k1, mk, s1, s2, s3, rn, rm

Ask(kind, convo, user, key) ==
    [kind |-> kind, convo |-> convo, user |-> user, key |-> key]

AliceOwns == [c \in Conversation |-> alice]

\* One conversation: created, written to with one key twice and by a
\* stranger, renamed and deleted.
SoleCall ==
    mk :> Ask("create", c1, alice, NoKey) @@
    s1 :> Ask("send", c1, alice, k1) @@
    s2 :> Ask("send", c1, alice, k1) @@
    s3 :> Ask("send", c1, bob, NoKey) @@
    rn :> Ask("rename", c1, alice, NoKey) @@
    rm :> Ask("delete", c1, alice, NoKey)

\* Two conversations of one user, one send each.
TwoCall ==
    s1 :> Ask("send", c1, alice, NoKey) @@
    s2 :> Ask("send", c2, alice, NoKey)
=============================================================================
