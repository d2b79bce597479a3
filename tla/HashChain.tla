----------------------------- MODULE HashChain -----------------------------
(***************************************************************************)
(* A hash chain and the cursor that follows it.  A link is its distance    *)
(* from the root; whatever lies on no chain is NoLink.  Hashing a link     *)
(* gives the one before it, so a cursor that walks at most maxSteps back   *)
(* from a presented value either meets its own link or fails.              *)
(***************************************************************************)
EXTENDS Integers

CONSTANT NoLink

Root == 0

\* The chain's index-th reveal; past its end, or for the root, there is none.
Reveal(length, index) == IF index \in 1..length THEN index ELSE NoLink

Cursor(link) == [committed |-> link, consumed |-> 0]

\* would_advance: how far a presented value lies ahead, if it is within reach.
StepsTo(cursor, presented, maxSteps) ==
    IF presented # NoLink /\ presented - cursor.committed \in 1..maxSteps
    THEN presented - cursor.committed ELSE NoLink

Advances(cursor, presented, maxSteps) == StepsTo(cursor, presented, maxSteps) # NoLink

\* advance, for a value that does.
Advance(cursor, presented, maxSteps) ==
    [committed |-> presented, consumed |-> cursor.consumed + StepsTo(cursor, presented, maxSteps)]

=============================================================================
