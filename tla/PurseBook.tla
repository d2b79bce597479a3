----------------------------- MODULE PurseBook -----------------------------
(***************************************************************************)
(* The open micro-payment channels and their two ways out: a cooperative   *)
(* closure, or a unilateral one that anybody may dispute until its window  *)
(* has elapsed.  Tokens are PayWord links: whoever generated the chain     *)
(* (the payer) holds all of them, everybody else at most those handed over *)
(* so far, and an unheld token cannot be computed.                         *)
(***************************************************************************)
EXTENDS Protocol

CONSTANTS
    PurseIds,       \* channel identifiers; one that is closed may stand for
                    \* a new channel, as real identifiers never recur
    MaxTranches,    \* the longest chain a channel may have
    DisputeWindow   \* duration of the window, in finalised blocks

ASSUME PurseAssumption ==
    /\ IsFiniteSet(PurseIds)
    /\ MaxTranches \in Nat /\ DisputeWindow \in Nat \ {0}

VARIABLES
    purses,         \* PurseIds -> Purse or None
    paid            \* PurseIds -> highest tranche whose token left the payer;
                    \* 0 when the channel is not open

purseVars == <<purses, paid>>

Tranches == 0..MaxTranches

Closure ==
    [claimant : Accounts, claimed : Tranches, openedAt : Height,
     disputed : BOOLEAN]

Purse ==
    [payer : Accounts, payee : Accounts, asset : Assets, deposit : Amount,
     trancheValue : Amount \ {0}, capacity : Tranches,
     closing : Closure \cup {None}]

ASSUME NoneIsNoPurse == None \notin Purse /\ None \notin Closure

PurseTypeOK ==
    /\ purses \in [PurseIds -> Purse \cup {None}]
    /\ paid \in [PurseIds -> Tranches]

PurseInit ==
    /\ purses = [p \in PurseIds |-> None]
    /\ paid = [p \in PurseIds |-> 0]

IsOpen(p) == purses[p] # None
IsClosing(p) == IsOpen(p) /\ purses[p].closing # None
IsParty(p, a) == a \in {purses[p].payer, purses[p].payee}

\* A claim of n tranches by a must come with the chain's n-th token.
CanProve(p, a, n) == n = 0 \/ a = purses[p].payer \/ n <= paid[p]

----------------------------------------------------------------------------

\* Faulty variant of Capacity: rounds up.
CapacityRoundedUp(deposit, trancheValue) ==
    Lesser((deposit + trancheValue - 1) \div trancheValue, MaxTranches)

\* Faulty variant of Capacity: the length of a chain has no limit.
CapacityUncapped(deposit, trancheValue) == deposit \div trancheValue

\* Derived, never declared: as many tranches as the deposit pays for.
Capacity(deposit, trancheValue) ==
    Lesser(deposit \div trancheValue, MaxTranches)

OpenPurse(p, payer, payee, asset, deposit, trancheValue) ==
    /\ ~IsOpen(p)
    /\ payer # payee
    /\ trancheValue # 0
    /\ purses' = [purses EXCEPT ![p] =
            [payer |-> payer, payee |-> payee, asset |-> asset,
             deposit |-> deposit, trancheValue |-> trancheValue,
             capacity |-> Capacity(deposit, trancheValue),
             closing |-> None]]
    /\ UNCHANGED paid

\* Faulty variant of CloseCooperative: the shares need not make the deposit.
CloseCooperativeUnbalanced(p, caller, toPayer, toPayee) ==
    /\ IsOpen(p)
    /\ IsParty(p, caller)
    /\ purses' = [purses EXCEPT ![p] = None]
    /\ paid' = [paid EXCEPT ![p] = 0]

\* The counterparty's signature travels in the transaction; nothing reads it.
CloseCooperative(p, caller, toPayer, toPayee) ==
    /\ IsOpen(p)
    /\ IsParty(p, caller)
    /\ toPayer + toPayee = purses[p].deposit
    /\ purses' = [purses EXCEPT ![p] = None]
    /\ paid' = [paid EXCEPT ![p] = 0]

BeginUnilateral(p, caller, claimed, now) ==
    /\ IsOpen(p)
    /\ IsParty(p, caller)
    /\ ~IsClosing(p)
    /\ claimed <= purses[p].capacity
    /\ CanProve(p, caller, claimed)
    /\ purses' = [purses EXCEPT ![p].closing =
            [claimant |-> caller, claimed |-> claimed, openedAt |-> now,
             disputed |-> FALSE]]
    /\ UNCHANGED paid

\* Faulty variant of Dispute: any genuine token will do.
DisputeWithAny(p, caller, claimed) ==
    /\ IsClosing(p)
    /\ claimed <= purses[p].capacity
    /\ CanProve(p, caller, claimed)
    /\ purses' = [purses EXCEPT ![p].closing =
            [@ EXCEPT !.claimed = claimed, !.disputed = TRUE]]
    /\ UNCHANGED paid

\* Open to anybody who holds a better token; the window keeps running.
Dispute(p, caller, claimed) ==
    /\ IsClosing(p)
    /\ claimed > purses[p].closing.claimed
    /\ claimed <= purses[p].capacity
    /\ CanProve(p, caller, claimed)
    /\ purses' = [purses EXCEPT ![p].closing =
            [@ EXCEPT !.claimed = claimed, !.disputed = TRUE]]
    /\ UNCHANGED paid

\* Off the ledger: the payer hands the payee the token of tranche n.
HandOverToken(p, n) ==
    /\ IsOpen(p)
    /\ n > paid[p]
    /\ n <= purses[p].capacity
    /\ paid' = [paid EXCEPT ![p] = n]
    /\ UNCHANGED purses

----------------------------------------------------------------------------
(* Settlement, by the block processor and never by a transaction. *)

Owed(purse, n) == Lesser(n * purse.trancheValue, purse.deposit)

Settlement(purse) ==
    LET owed == Owed(purse, purse.closing.claimed)
    IN  IF purse.closing.disputed
        THEN [toPayer |-> 0, toPayee |-> purse.deposit]
        ELSE [toPayer |-> purse.deposit - owed, toPayee |-> owed]

\* A claim whose value overflows an amount cannot be settled, and is skipped.
Settles(p, now) ==
    /\ IsClosing(p)
    /\ HasElapsed(purses[p].closing.openedAt, DisputeWindow, now)
    /\ purses[p].closing.disputed
         \/ purses[p].closing.claimed * purses[p].trancheValue <= MaxAmount

\* Faulty variant of Elapsed: a disputed closure is never paid out.
UndisputedElapsed(now) ==
    {p \in PurseIds : Settles(p, now) /\ ~purses[p].closing.disputed}

Elapsed(now) == {p \in PurseIds : Settles(p, now)}

\* What the settlement of the elapsed channels brings account a in asset x.
PaidOut(a, x, now) ==
    SumFunction(
        [p \in {p \in Elapsed(now) : purses[p].asset = x} |->
            (IF purses[p].payer = a THEN Settlement(purses[p]).toPayer ELSE 0)
          + (IF purses[p].payee = a THEN Settlement(purses[p]).toPayee ELSE 0)])

SettleElapsed(now) ==
    /\ purses' = [p \in PurseIds |->
                    IF p \in Elapsed(now) THEN None ELSE purses[p]]
    /\ paid' = [p \in PurseIds |-> IF p \in Elapsed(now) THEN 0 ELSE paid[p]]

----------------------------------------------------------------------------

\* The deposits locked in open channels of asset x.
Locked(x) ==
    SumFunction([p \in {p \in PurseIds : IsOpen(p) /\ purses[p].asset = x} |->
                    purses[p].deposit])

(* A pending claim is worth no more than the deposit and lies within the   *)
(* capacity, so settling it neither truncates, overflows nor is skipped:   *)
(* purse_open's derived capacity and the two claim checks work together.   *)
ClaimCovered ==
    \A p \in PurseIds : IsClosing(p) =>
        /\ purses[p].closing.claimed <= purses[p].capacity
        /\ purses[p].closing.claimed * purses[p].trancheValue
             <= purses[p].deposit

(* From the closure to the settlement the claim only rises, a dispute is   *)
(* not taken back, and the window is that of the closure: disputes in any  *)
(* number, by anybody, neither delay the settlement nor undo one another.  *)
ClaimKept ==
    \A p \in PurseIds : IsClosing(p) /\ purses'[p] # None =>
        /\ purses'[p].closing # None
        /\ purses'[p].closing.openedAt = purses[p].closing.openedAt
        /\ purses'[p].closing.claimed >= purses[p].closing.claimed
        /\ purses[p].closing.disputed => purses'[p].closing.disputed

ClaimOnlyRises == [][ClaimKept]_purseVars

(* What the settlement of a closure relies on, as its documentation says:  *)
(* only a closure published by the payer is ever disputed.                 *)
OnlyPayersAreDisputed ==
    \A p \in PurseIds : IsClosing(p) /\ purses[p].closing.disputed =>
        purses[p].closing.claimant = purses[p].payer

=============================================================================
