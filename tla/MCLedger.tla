------------------------------ MODULE MCLedger ------------------------------
(* Values for the constants of LedgerProperties; the .cfg files pick them. *)
EXTENDS LedgerProperties

CONSTANTS a1, a2, a3, k1, k2, k3

\* The first device of each account.
FirstDevice == [a \in Accounts |->
    IF a = a1 THEN k1 ELSE IF a = a2 THEN k2 ELSE k3]

\* Every account is guarded by all the others, or by none.
OthersGuard == [a \in Accounts |-> Accounts \ {a}]
NobodyGuards == [a \in Accounts |-> {}]

=============================================================================
