---------------------------- MODULE RecoveryBook ----------------------------
(***************************************************************************)
(* Social recoveries in progress: at most one per account, opened by the   *)
(* first guardian's approval, cancellable by the owner until it is         *)
(* finalised, which takes enough approvals and an elapsed window.          *)
(***************************************************************************)
EXTENDS Protocol

CONSTANT RecoveryWindow     \* duration of the window, in finalised blocks

ASSUME RecoveryAssumption == RecoveryWindow \in Nat \ {0}

VARIABLE recoveries         \* Accounts -> Pending or None

Pending ==
    [newKey : Keys, approvals : SUBSET Accounts, openedAt : Height]

ASSUME NoneIsNoRecovery == None \notin Pending

RecoveryTypeOK == recoveries \in [Accounts -> Pending \cup {None}]

RecoveryInit == recoveries = [a \in Accounts |-> None]

IsRecovering(a) == recoveries[a] # None

----------------------------------------------------------------------------

\* Faulty variant of Approve: every approval restarts the clock.
ApproveRestarting(target, newKey, guardian, guardians, now) ==
    /\ guardian \in guardians
    /\ IsRecovering(target) =>
         /\ recoveries[target].newKey = newKey
         /\ guardian \notin recoveries[target].approvals
    /\ recoveries' = [recoveries EXCEPT ![target] =
            [newKey |-> newKey, openedAt |-> now,
             approvals |-> {guardian} \cup
                IF @ = None THEN {} ELSE @.approvals]]

\* The first approval starts the clock; later ones join it.
Approve(target, newKey, guardian, guardians, now) ==
    /\ guardian \in guardians
    /\ \/ /\ ~IsRecovering(target)
          /\ recoveries' = [recoveries EXCEPT ![target] =
                [newKey |-> newKey, approvals |-> {guardian},
                 openedAt |-> now]]
       \/ /\ IsRecovering(target)
          /\ recoveries[target].newKey = newKey
          /\ guardian \notin recoveries[target].approvals
          /\ recoveries' = [recoveries EXCEPT ![target].approvals =
                                @ \cup {guardian}]

Cancel(target) ==
    /\ IsRecovering(target)
    /\ recoveries' = [recoveries EXCEPT ![target] = None]

\* Faulty variant of Finalise: the window is not consulted.
FinaliseAtOnce(target, quorum, now) ==
    /\ IsRecovering(target)
    /\ Cardinality(recoveries[target].approvals) >= quorum
    /\ recoveries' = [recoveries EXCEPT ![target] = None]

Finalise(target, quorum, now) ==
    /\ IsRecovering(target)
    /\ Cardinality(recoveries[target].approvals) >= quorum
    /\ HasElapsed(recoveries[target].openedAt, RecoveryWindow, now)
    /\ recoveries' = [recoveries EXCEPT ![target] = None]

----------------------------------------------------------------------------

(* While a recovery is under way nobody restarts its clock, swaps the key  *)
(* it would install, or withdraws an approval: an owner who watches the    *)
(* first approval knows both what is coming and when (RecoveryBook::approve*)
(* joins a pending recovery, it never reopens one).                        *)
ClockKept ==
    \A a \in Accounts : IsRecovering(a) /\ recoveries'[a] # None =>
        /\ recoveries'[a].openedAt = recoveries[a].openedAt
        /\ recoveries'[a].newKey = recoveries[a].newKey
        /\ recoveries[a].approvals \subseteq recoveries'[a].approvals

ClockNotRestarted == [][ClockKept]_recoveries

=============================================================================
