------------------------------ MODULE Channels ------------------------------
(***************************************************************************)
(* A channel off the ledger: a payer that reveals the links of its PayWord *)
(* chain, a payee that follows them with a cursor, the payee's watchtower, *)
(* and the purse on the ledger.  Tokens reach the payee late, twice, out   *)
(* of order or never, and a dishonest payer labels them as it likes; what  *)
(* the payee passes on reaches the tower in the same way.                  *)
(***************************************************************************)
EXTENDS PurseBook, HashChain

CONSTANTS
    ThePurse,       \* the channel's identifier
    Payer, Payee, Tower,
    Deposit,        \* what the payer locks
    TrancheValue,   \* what one tranche is worth
    Lengths,        \* lengths of the chain the payer may seal
    Hearsay,        \* whether the tower listens to anybody, or to its payee only
    MaxMislabelled, \* bound: tokens a dishonest payer mislabels
    LastHeight      \* bound: the last finalised height

ASSUME ChannelAssumption ==
    /\ ThePurse \in PurseIds /\ {Payer, Payee, Tower} \subseteq Accounts /\ Payer # Payee
    /\ Deposit \in Amount /\ TrancheValue \in Amount \ {0}
    /\ Lengths \subseteq Tranches /\ MaxMislabelled \in Nat
    /\ LastHeight \in Height /\ NoLink \notin Int /\ Hearsay \in BOOLEAN
    /\ None \notin Int /\ None \notin [index : Nat, link : Tranches \cup {NoLink}]

VARIABLES
    payer,          \* PayWordPayer: length of its chain and tranches spent
    payee,          \* PayWordPayee: cursor, tranches accepted, best token
    tower,          \* Watchtower: the best token it holds, or None
    sent,           \* tokens that left the payer
    handed,         \* tokens the payee passed to its tower
    mislabelled,    \* how many of the sent tokens were mislabelled
    finalized,      \* the ledger's finalised height
    payout          \* what the payee was paid, or None

channelVars == <<purses, paid, payer, payee, tower, sent, handed, mislabelled, finalized, payout>>

Token(index, link) == [index |-> index, link |-> link]

----------------------------------------------------------------------------
(* payword.rs *)

\* Faulty variant of VerifyAgainstRoot: the label is believed.
VerifyLabel(token) == token.index \in 1..MaxTranches /\ token.link # NoLink

\* The link hashes to the root in exactly as many steps as the index says.
VerifyAgainstRoot(token) ==
    /\ token.index \in 1..MaxTranches
    /\ StepsTo(Cursor(Root), token.link, MaxTranches) = token.index

NewPayee == [cursor |-> Cursor(Root), accepted |-> 0, best |-> None]

Acceptable(token, capacity) ==
    /\ token.index \in 1..capacity
    /\ Advances(payee.cursor, token.link, capacity)
    /\ StepsTo(payee.cursor, token.link, capacity) = token.index - payee.accepted

\* Faulty variant of Accept: the cursor moves before the index is compared.
AcceptUnprobed(token, capacity) ==
    LET moved == IF Advances(payee.cursor, token.link, capacity)
                 THEN [payee EXCEPT !.cursor = Advance(@, token.link, capacity)] ELSE payee
    IN  payee' = IF Acceptable(token, capacity)
                 THEN [moved EXCEPT !.accepted = token.index, !.best = token] ELSE moved

\* Probed first; a refused token leaves no trace.
Accept(token, capacity) ==
    payee' = IF Acceptable(token, capacity)
             THEN [cursor   |-> Advance(payee.cursor, token.link, capacity),
                   accepted |-> token.index,
                   best     |-> token]
             ELSE payee

----------------------------------------------------------------------------
(* watchtower.rs *)

Held(t) == IF t = None THEN 0 ELSE t.index

\* Faulty variant of Observe: the newest message, not the best.
ObserveLatest(token) == IF token.index \in 1..MaxTranches THEN token ELSE tower

\* What reaches the tower.  observe is written for tokens the payee verified;
\* nothing keeps it from being given others.
Heard == IF Hearsay THEN sent ELSE handed

\* Not verified: the payee already did.
Observe(token) ==
    IF token.index \in 1..MaxTranches /\ token.index > Held(tower) THEN token ELSE tower

\* inspect: what to do about the channel as the ledger holds it.
Verdict ==
    IF ~IsClosing(ThePurse) THEN "Quiet"
    ELSE IF tower # None /\ tower.index > purses[ThePurse].closing.claimed THEN "Dispute"
    ELSE "NothingBetter"

----------------------------------------------------------------------------

Init ==
    /\ PurseInit
    /\ payer = [length |-> 0, spent |-> 0]
    /\ payee = NewPayee
    /\ tower = None
    /\ sent = {} /\ handed = {}
    /\ mislabelled = 0
    /\ finalized = 0
    /\ payout = None

\* Once, with a chain the payer has sealed; the payee starts from its root.
Open(length) ==
    /\ payout = None
    /\ OpenPurse(ThePurse, Payer, Payee, VAN, Deposit, TrancheValue)
    /\ payer' = [length |-> length, spent |-> 0]
    /\ UNCHANGED <<payee, tower, sent, handed, mislabelled, finalized, payout>>

\* spend: one token for everything up to the next index; it pays for nothing
\* if nothing was ever spent.
Spend(tranches) ==
    LET next == payer.spent + tranches
    IN  /\ IsOpen(ThePurse)
        /\ Reveal(payer.length, next) # NoLink
        /\ payer' = [payer EXCEPT !.spent = next]
        /\ sent' = sent \cup {Token(next, Reveal(payer.length, next))}
        /\ IF next > paid[ThePurse] THEN HandOverToken(ThePurse, next) ELSE UNCHANGED purseVars
        /\ UNCHANGED <<payee, tower, handed, mislabelled, finalized, payout>>

\* A dishonest payer: a link, or no link at all, under another index.
Mislabel(index, link) ==
    /\ IsOpen(ThePurse)
    /\ mislabelled < MaxMislabelled
    /\ index # link
    /\ mislabelled' = mislabelled + 1
    /\ sent' = sent \cup {Token(index, link)}
    /\ IF link # NoLink /\ link > paid[ThePurse]
       THEN HandOverToken(ThePurse, link) ELSE UNCHANGED purseVars
    /\ UNCHANGED <<payer, payee, tower, handed, finalized, payout>>

\* The payee serves only while the channel is on the ledger, and passes the
\* token it holds on to its tower.
Receive(token) ==
    /\ IsOpen(ThePurse)
    /\ Accept(token, purses[ThePurse].capacity)
    /\ handed' = IF payee'.best = None THEN handed ELSE handed \cup {payee'.best}
    /\ UNCHANGED <<purses, paid, payer, tower, sent, mislabelled, finalized, payout>>

TowerObserves(token) ==
    /\ tower' = Observe(token)
    /\ UNCHANGED <<purses, paid, payer, payee, sent, handed, mislabelled, finalized, payout>>

TowerForgets ==
    /\ payout # None
    /\ tower' = None
    /\ UNCHANGED <<purses, paid, payer, payee, sent, handed, mislabelled, finalized, payout>>

\* Bound: a window opened now ends before the last height.
WindowFits == finalized + DisputeWindow <= LastHeight

\* The payer holds its whole chain, so it may claim less or more than it spent.
PayerCloses(claimed) ==
    /\ WindowFits
    /\ claimed # 0 => VerifyAgainstRoot(Token(claimed, Reveal(payer.length, claimed)))
    /\ BeginUnilateral(ThePurse, Payer, claimed, finalized)
    /\ UNCHANGED <<payer, payee, tower, sent, handed, mislabelled, finalized, payout>>

PayeeCloses ==
    /\ WindowFits
    /\ payee.best # None => VerifyAgainstRoot(payee.best)
    /\ BeginUnilateral(ThePurse, Payee, Held(payee.best), finalized)
    /\ UNCHANGED <<payer, payee, tower, sent, handed, mislabelled, finalized, payout>>

TowerDisputes ==
    /\ Verdict = "Dispute"
    /\ VerifyAgainstRoot(tower)
    /\ Dispute(ThePurse, Tower, tower.index)
    /\ UNCHANGED <<payer, payee, tower, sent, handed, mislabelled, finalized, payout>>

\* Both sign what the payee has accepted.
BothClose ==
    LET purse == purses[ThePurse]
        owed == Owed(purse, payee.accepted)
    IN  /\ IsOpen(ThePurse) /\ ~IsClosing(ThePurse)
        /\ CloseCooperative(ThePurse, Payer, purse.deposit - owed, owed)
        /\ payout' = owed
        /\ UNCHANGED <<payer, payee, tower, sent, handed, mislabelled, finalized>>

\* The token the tower would dispute with proves nothing.
DisputeFails == tower # None /\ ~VerifyAgainstRoot(tower)

\* Somebody is awake for the window: it does not run out on a better token,
\* unless the tower was given it and its dispute fails all the same.
TowerInTime ==
    IsClosing(ThePurse) /\ finalized + 1 >= purses[ThePurse].closing.openedAt + DisputeWindow =>
        \A token \in handed :
            \/ token.index <= purses[ThePurse].closing.claimed
            \/ DisputeFails /\ token.index <= tower.index

\* One more finalised block, which settles what its height lets settle.
FinalisedBlock ==
    /\ finalized < LastHeight
    /\ TowerInTime
    /\ finalized' = finalized + 1
    /\ SettleElapsed(finalized')
    /\ payout' = IF ThePurse \in Elapsed(finalized')
                 THEN Settlement(purses[ThePurse]).toPayee ELSE payout
    /\ UNCHANGED <<payer, payee, tower, sent, handed, mislabelled>>

Next ==
    \/ \E length \in Lengths : Open(length)
    \/ \E tranches \in Tranches : Spend(tranches)
    \/ \E index \in 0..(MaxTranches + 1), link \in (1..payer.length) \cup {NoLink} : Mislabel(index, link)
    \/ \E token \in sent : Receive(token)
    \/ \E token \in Heard : TowerObserves(token)
    \/ TowerForgets
    \/ \E claimed \in Tranches : PayerCloses(claimed)
    \/ PayeeCloses
    \/ TowerDisputes
    \/ BothClose
    \/ FinalisedBlock

\* Finalised blocks keep coming; the tower reads what reaches it and acts.
Fairness ==
    /\ WF_channelVars(FinalisedBlock)
    /\ WF_channelVars(\E token \in Heard : TowerObserves(token))
    /\ WF_channelVars(TowerDisputes)

Safety == Init /\ [][Next]_channelVars
Spec == Safety /\ Fairness

----------------------------------------------------------------------------

\* However tokens are lost, repeated, overtaken or mislabelled, the payee's
\* cursor stays in step with what it has accepted, and it still accepts every
\* genuine token that lies ahead (PayWordPayee::accept).
TokensNeverWasted ==
    /\ payee.cursor = [committed |-> payee.accepted, consumed |-> payee.accepted]
    /\ Held(payee.best) = payee.accepted
    /\ IsOpen(ThePurse) =>
          /\ payee.accepted <= paid[ThePurse]
          /\ \A token \in sent :
                token.index = token.link /\ token.index > payee.accepted
                  => Acceptable(token, purses[ThePurse].capacity)

\* Whatever labels are about, no token proves a claim the payer has not
\* revealed the link of (verify_against_root): it is what makes a payee's
\* claim and a dispute honest.
OnlyRevealedCanBeClaimed ==
    IsOpen(ThePurse) =>
        \A token \in sent \cup handed :
            VerifyAgainstRoot(token) => token.index <= paid[ThePurse]

Stage == IF payout # None THEN "settled" ELSE IF IsClosing(ThePurse) THEN "closing" ELSE "open"

\* What n tranches of this channel are worth.
TrancheWorth(n) == Lesser(n * TrancheValue, Deposit)

\* A forged token costs the tower a fee "and nobody else anything" (observe,
\* watchtower.rs): whoever it listens to, an absent payee is paid for every
\* token it handed on to its diligent tower.
ForgeryCostsTheTowerAlone ==
    payout # None => \A token \in handed : payout >= TrancheWorth(token.index)

\* The channel's promise to the payee, kept by purse, payee and tower together.
Promise ==
    INSTANCE Contestation WITH
        Payouts <- Amount, Unpaid <- None,
        Worth <- TrancheWorth,
        stage <- Stage, earned <- payee.accepted, payout <- payout

\* Every closure is settled, and pays the payee at least what it had accepted,
\* with tokens lost on either way and a payer that claims too little, as long
\* as the tower is awake for the window and listens to its payee only.
KeepsItsPromise == Promise!Spec

=============================================================================
