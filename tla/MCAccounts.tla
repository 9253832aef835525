------------------------------ MODULE MCAccounts ------------------------------
(***************************************************************************)
(* An instance of Accounts for TLC.                                        *)
(***************************************************************************)
EXTENDS Accounts, TLC

CONSTANTS i1, i2, alice, bob, carol, p, q, g1, g2, l1

Ask(kind, at, email, password) ==
    [kind |-> kind, at |-> at, email |-> email, password |-> password]

\* Two people register one email through two instances, the second
\* logs in.
CarolCall ==
    g1 :> Ask("register", i1, carol, q) @@
    g2 :> Ask("register", i2, carol, p) @@
    l1 :> Ask("login", i2, carol, p)
=============================================================================
