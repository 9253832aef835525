---------------------------- MODULE MCIdempotency ----------------------------
(***************************************************************************)
(* Instances of Idempotency for TLC.                                       *)
(***************************************************************************)
EXTENDS Idempotency, TLC

CONSTANTS alice, bob, i1, i2, k1, r1, r2, r3, r4

Ask(at, user) == [at |-> at, user |-> user, key |-> k1]

\* One operation of alice, tried up to three times through two instances, and
\* bob with the same key.
AllCalls ==
    r1 :> Ask(i1, alice) @@ r2 :> Ask(i2, alice) @@ r3 :> Ask(i1, alice) @@ r4 :> Ask(i2, bob)
RetryCall == [r \in Request |-> AllCalls[r]]
=============================================================================
