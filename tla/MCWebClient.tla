----------------------------- MODULE MCWebClient -----------------------------
(***************************************************************************)
(* An instance of WebClient for TLC: Alice has two conversations, Bob has  *)
(* none, and one more can be made.                                         *)
(***************************************************************************)
EXTENDS WebClient, TLC

CONSTANTS alice, bob, c1, c2, c3, k1, k2

AliceHasTwo == [c \in Conversation |-> IF c = c3 THEN Nothing ELSE alice]

\* Neither Alice's conversations nor the keys are told apart.
Alike == Permutations({c1, c2}) \cup Permutations(Key)
=============================================================================
