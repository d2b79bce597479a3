-------------------------- MODULE LedgerProperties --------------------------
(***************************************************************************)
(* What the ledger promises, and what its documentation promises of it.    *)
(***************************************************************************)
EXTENDS Ledger

----------------------------------------------------------------------------
(* Money. *)

NativeTotal ==
    SumFunction([a \in Accounts |-> balance[a][VAN] + bonded[a]])
        + Locked(VAN)

GenesisTotal == GenesisBalance * Cardinality(Accounts)

(* Every VAN there ever was is in a balance, in a bond, locked in a        *)
(* channel, burned or in the context pot, up to the margins seized, which  *)
(* the ledger pays out without having debited them from anybody.  It holds *)
(* across fees, channels opened and settled, and both kinds of penalty.    *)
NativeConservation ==
    NativeTotal + burned + contextPot = GenesisTotal + seizedMargin

(* The same without the allowance: total_native_balance's documentation    *)
(* says no transition creates value.                                       *)
NativeNeverMinted ==
    NativeTotal + burned + contextPot = GenesisTotal

(* The recorded supply of an asset is what accounts and open channels hold *)
(* of it, so a mint, a burn, a transfer or a settlement never gets out of  *)
(* step with the registry.                                                 *)
AssetConservation ==
    \A x \in AssetIds :
        SumFunction([a \in Accounts |-> balance[a][x]]) + Locked(x)
            = IF Exists(x) THEN assets[x].supply ELSE 0

(* Money is seized only by a conviction that was not on the book before:   *)
(* the same evidence, presented again after the margin was topped up,      *)
(* seizes nothing (SlashingBook::record_account precedes the seizure).     *)
SeizureIsFresh ==
    seizedMargin' # seizedMargin =>
        \E offence \in AccountOffence :
            /\ offence \notin accountOffences
            /\ accountOffences' = accountOffences \cup {offence}

SeizureNeedsFreshOffence == [][SeizureIsFresh]_vars

----------------------------------------------------------------------------
(* Devices and offline credit. *)

(* A nonce lane is held by one device for ever, through any sequence of    *)
(* additions, revocations and recoveries, and every device is on a lane it *)
(* holds: otherwise an old signature and a new one would share a slot and  *)
(* convict an account that did nothing (device_add says why).              *)
LaneHeldByOneDevice ==
    /\ \A u, v \in laneHolders : u[1] = v[1] /\ u[2] = v[2] => u[3] = v[3]
    /\ \A a \in Accounts : \A d \in Registered(a) :
            <<a, devices[a][d].lane, d>> \in laneHolders

(* No device has spent more offline than its share of the credit.          *)
SpentWithinShare ==
    \A a \in Accounts : \A d \in Registered(a) :
        devices[a][d].spent <= devices[a][d].share

(* The devices' shares never add up to more than the declared credit,      *)
(* whichever of credit, devices and recoveries changed last.               *)
SharesWithinCredit == \A a \in Accounts : Allocated(a) <= nomadCredit[a]

(* The merchant's guarantee: cut off from the rest, an account cannot get  *)
(* rid of more VAN than the credit it declared beforehand, over a whole    *)
(* partition, fees and channel deposits included.                          *)
OfflineExposureBounded ==
    InPartition =>
        \A a \in Accounts : balance[a][VAN] + nomadCredit[a] >= atOutage[a]

(* The devices of an account change by its own signature, or by guardians  *)
(* as many as the threshold asks whose recovery had been on the ledger for *)
(* the whole window: nobody loses an account without notice.               *)
ChangeIsNoticed ==
    \A a \in Accounts : Registered(a)' # Registered(a) =>
        \/ lanes'[a] # lanes[a]
        \/ /\ IsRecovering(a)
           /\ Cardinality(recoveries[a].approvals) >= threshold[a]
           /\ HasElapsed(recoveries[a].openedAt, RecoveryWindow, ctx.finalized)

DevicesChangeWithNotice == [][ChangeIsNoticed]_vars

(* recovery_finalise's documentation: a revoked device never comes back.   *)
RevokedNeverReturns ==
    \A a \in Accounts : Registered(a) \cap revoked[a] = {}

----------------------------------------------------------------------------
(* Deadlines. *)

(* No transaction ever meets a channel whose window is over: housekeeping  *)
(* settles it before the block's first transaction.  PurseDispute does not *)
(* look at the window, and this is why it need not.                        *)
NoElapsedPurseLingers ==
    \A p \in PurseIds : IsClosing(p) =>
        ~HasElapsed(purses[p].closing.openedAt, DisputeWindow, ctx.finalized)

(* No transaction ever meets a commitment past its expiry: the expiry test *)
(* in reveal and the one that prunes draw the line at the same height.     *)
CommitmentsAreLive ==
    \A d \in Digest : commitments[d] # None =>
        ctx.finalized
            <= HeightPlus(commitments[d].committedAt, CommitmentExpiry)

(* A window cannot be run out inside a partition: by the time a closure is *)
(* settled undisputed, a finalised block has come after the one that       *)
(* opened the window and before the one that ends it, in which the absent  *)
(* party could have been heard.                                            *)
WindowLeavesRoom ==
    [][\A p \in PurseIds :
            /\ IsClosing(p) /\ ~purses[p].closing.disputed
            /\ purses'[p] = None
            /\ ctx'.height # ctx.height
            => ctx.finalized > purses[p].closing.openedAt]_vars

=============================================================================
