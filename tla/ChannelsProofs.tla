--------------------------- MODULE ChannelsProofs ---------------------------
(* The channel off the ledger, for any capacity, window, chain length and    *)
(* number of tokens: the payee's cursor, what a token proves, and that       *)
(* purse, payee and tower together implement the abstract promise.           *)
EXTENDS Channels, TLAPS

Tokens == [index : Nat, link : Tranches \cup {NoLink}]

\* Before the channel is opened nothing has been sent; once it is paid out it is gone.
Lifecycle ==
    /\ finalized \in 0..LastHeight
    /\ payer.length \in Tranches
    /\ payout \in Amount \cup {None}
    /\ payout # None => ~IsOpen(ThePurse)
    /\ ~IsOpen(ThePurse) => paid[ThePurse] = 0
    /\ payout = None /\ ~IsOpen(ThePurse) => sent = {} /\ handed = {} /\ payee = NewPayee
    /\ IsOpen(ThePurse) =>
          purses[ThePurse].deposit = Deposit /\ purses[ThePurse].trancheValue = TrancheValue

\* Links that left the payer are within what it paid, and that within the capacity;
\* what the payee handed on is a link, and the tower holds what it heard.
TokenInv ==
    /\ sent \subseteq Tokens /\ handed \subseteq sent
    /\ \A token \in handed : token.link = token.index /\ token.index \in 1..MaxTranches
    /\ tower # None => tower \in Heard
    /\ IsOpen(ThePurse) =>
          /\ paid[ThePurse] <= purses[ThePurse].capacity
          /\ \A token \in sent : token.link # NoLink => token.link <= paid[ThePurse]

\* The payee's cursor stands on the last link it accepted, which it handed on.
PayeeInv ==
    /\ payee = [cursor   |-> [committed |-> payee.accepted, consumed |-> payee.accepted],
                accepted |-> payee.accepted,
                best     |-> payee.best]
    /\ payee.accepted \in Nat
    /\ payee.best = None => payee.accepted = 0
    /\ payee.best # None => payee.best \in handed /\ payee.accepted = payee.best.index
    /\ IsOpen(ThePurse) => payee.accepted <= paid[ThePurse]

\* The inductive invariant.
ChannelInv == PurseTypeOK /\ Lifecycle /\ TokenInv /\ PayeeInv

----------------------------------------------------------------------------

\* The fields of an open channel are natural numbers within their bounds.
LEMMA PurseFields ==
    ASSUME PurseTypeOK, IsOpen(ThePurse)
    PROVE  /\ purses[ThePurse] \in Purse
           /\ purses[ThePurse].capacity \in Nat /\ purses[ThePurse].capacity <= MaxTranches
           /\ purses[ThePurse].deposit \in Nat /\ purses[ThePurse].trancheValue \in Nat
           /\ paid[ThePurse] \in Nat /\ paid[ThePurse] <= MaxTranches
  BY ChannelAssumption, PurseAssumption, WidthAssumption
     DEF PurseTypeOK, IsOpen, Purse, Tranches, Amount

\* The capacity a channel is opened with is a count of tranches.
LEMMA CapacityIsTranches ==
    Capacity(Deposit, TrancheValue) \in Tranches
<1>1. Deposit \in Nat /\ TrancheValue \in Nat \ {0}
  BY ChannelAssumption, WidthAssumption DEF Amount
<1>2. Deposit \div TrancheValue \in Nat
  BY <1>1
<1> QED
  BY <1>2, PurseAssumption DEF Capacity, Lesser, Tranches

\* A token proves a claim only by a link that lies that far from the root.
LEMMA ProvenIsLink ==
    ASSUME NEW token \in Tokens, VerifyAgainstRoot(token)
    PROVE  token.link # NoLink /\ token.link = token.index /\ token.index \in 1..MaxTranches
  BY ChannelAssumption, PurseAssumption
     DEF VerifyAgainstRoot, StepsTo, Cursor, Root, Tokens, Tranches

\* A link proves the index it carries.
LEMMA LinkProves ==
    ASSUME NEW token \in Tokens, token.link = token.index, token.index \in 1..MaxTranches
    PROVE  VerifyAgainstRoot(token)
<1>1. token.link \in Nat /\ token.link # NoLink /\ token.link <= MaxTranches
  BY PurseAssumption, ChannelAssumption
<1> QED
  BY <1>1, ChannelAssumption, PurseAssumption DEF VerifyAgainstRoot, StepsTo, Cursor, Root

\* What the tower heard was sent.
LEMMA HeardIsSent == TokenInv => Heard \subseteq sent
  BY DEF TokenInv, Heard

\* A genuine token ahead of the payee's cursor is acceptable, and no other is.
LEMMA AcceptableMeans ==
    ASSUME PayeeInv, NEW token \in Tokens, NEW capacity \in Nat
    PROVE  Acceptable(token, capacity) <=>
             /\ token.link # NoLink /\ token.link = token.index
             /\ token.index > payee.accepted /\ token.index <= capacity
<1>1. payee.cursor.committed = payee.accepted /\ payee.accepted \in Nat
  BY DEF PayeeInv
<1>2. token.index \in Nat /\ (token.link = NoLink \/ token.link \in Nat)
  BY PurseAssumption DEF Tokens, Tranches
<1>3. CASE token.link = NoLink
  BY <1>3 DEF Acceptable, Advances, StepsTo
<1>4. CASE token.link # NoLink
  <2>1. token.link \in Nat
    BY <1>2, <1>4
  <2>2. token.link - payee.accepted # NoLink
    BY <1>1, <2>1, ChannelAssumption
  <2> QED
    BY <1>1, <1>2, <1>4, <2>1, <2>2 DEF Acceptable, Advances, StepsTo
<1> QED
  BY <1>3, <1>4

\* More tranches are worth no less.
LEMMA WorthRises ==
    ASSUME NEW m \in Nat, NEW n \in Nat, m <= n
    PROVE  /\ TrancheWorth(m) \in Amount /\ TrancheWorth(n) \in Amount
           /\ TrancheWorth(m) <= TrancheWorth(n) /\ TrancheWorth(n) <= Deposit
<1>1. Deposit \in 0..MaxAmount /\ TrancheValue \in Nat /\ MaxAmount \in Nat
  BY ChannelAssumption, WidthAssumption DEF Amount
<1> DEFINE a == m * TrancheValue
           b == n * TrancheValue
<1>2. a \in Nat /\ b \in Nat /\ a <= b
  BY <1>1
<1> HIDE DEF a, b
<1>3. Lesser(a, Deposit) <= Lesser(b, Deposit) /\ Lesser(b, Deposit) <= Deposit
      /\ Lesser(a, Deposit) \in Amount /\ Lesser(b, Deposit) \in Amount
  BY <1>1, <1>2 DEF Lesser, Amount
<1> QED
  BY <1>3 DEF TrancheWorth, a, b

----------------------------------------------------------------------------
(* The invariant, action by action. *)

\* The invariant holds at the start.
LEMMA InitInv == Init => ChannelInv
  BY ChannelAssumption, PurseAssumption, WidthAssumption
     DEF Init, ChannelInv, PurseInit, PurseTypeOK, Lifecycle, TokenInv, PayeeInv, IsOpen,
         NewPayee, Cursor, Root, Tranches, Height

\* Opening the channel keeps the invariant: nothing has been sent before it.
LEMMA OpenInv ==
    ASSUME ChannelInv, NEW length \in Lengths, Open(length)
    PROVE  ChannelInv'
<1> DEFINE purse == [payer |-> Payer, payee |-> Payee, asset |-> VAN, deposit |-> Deposit,
                     trancheValue |-> TrancheValue, capacity |-> Capacity(Deposit, TrancheValue),
                     closing |-> None]
<1>1. /\ purses' = [purses EXCEPT ![ThePurse] = purse] /\ UNCHANGED paid
      /\ ~IsOpen(ThePurse) /\ payout = None /\ payer' = [length |-> length, spent |-> 0]
      /\ UNCHANGED <<payee, tower, sent, handed, mislabelled, finalized, payout>>
  BY DEF Open, OpenPurse
<1>2. purse \in Purse
  BY CapacityIsTranches, ChannelAssumption DEF Purse, Assets
<1>3. PurseTypeOK'
  BY <1>1, <1>2 DEF ChannelInv, PurseTypeOK
<1>4. purses'[ThePurse] = purse
  BY <1>1, ChannelAssumption DEF ChannelInv, PurseTypeOK
<1>5. sent = {} /\ handed = {} /\ payee = NewPayee
  BY <1>1 DEF ChannelInv, Lifecycle
<1>6. paid[ThePurse] = 0
  BY <1>1 DEF ChannelInv, Lifecycle
<1>7. purse.capacity \in Nat
  BY CapacityIsTranches, PurseAssumption DEF Tranches
<1>8. Lifecycle'
  BY <1>1, <1>4, <1>5, <1>6, ChannelAssumption DEF ChannelInv, Lifecycle, IsOpen
<1>9. TokenInv'
  BY <1>1, <1>4, <1>5, <1>6, <1>7 DEF ChannelInv, TokenInv, Heard
<1>10. PayeeInv'
  BY <1>1, <1>5, <1>6 DEF ChannelInv, PayeeInv, NewPayee
<1> QED
  BY <1>3, <1>8, <1>9, <1>10 DEF ChannelInv

\* What leaves the payer: a token, and with a new link the tranches it proves.
LEMMA SentInv ==
    ASSUME ChannelInv, IsOpen(ThePurse), NEW token \in Tokens,
           sent' = sent \cup {token},
           IF token.link # NoLink /\ token.link > paid[ThePurse]
             THEN HandOverToken(ThePurse, token.link) ELSE UNCHANGED purseVars,
           payer'.length = payer.length,
           UNCHANGED <<payee, tower, handed, finalized, payout>>
    PROVE  ChannelInv'
<1>1. /\ paid[ThePurse] \in Nat /\ purses[ThePurse].capacity \in Nat
      /\ purses[ThePurse].capacity <= MaxTranches /\ MaxTranches \in Nat
  BY PurseFields, PurseAssumption DEF ChannelInv
<1>2. token.link = NoLink \/ token.link \in Nat
  BY PurseAssumption DEF Tokens, Tranches
<1>3. /\ purses' = purses /\ PurseTypeOK' /\ paid[ThePurse] <= paid'[ThePurse]
      /\ paid'[ThePurse] <= purses[ThePurse].capacity /\ paid'[ThePurse] \in Nat
      /\ token.link # NoLink => token.link <= paid'[ThePurse]
  <2>1. CASE token.link # NoLink /\ token.link > paid[ThePurse]
    <3>1. /\ paid' = [paid EXCEPT ![ThePurse] = token.link] /\ UNCHANGED purses
          /\ token.link <= purses[ThePurse].capacity /\ token.link \in Nat
      BY <1>2, <2>1 DEF HandOverToken
    <3>2. token.link \in Tranches
      BY <1>1, <3>1 DEF Tranches
    <3>3. PurseTypeOK'
      BY <3>1, <3>2 DEF ChannelInv, PurseTypeOK
    <3>4. paid'[ThePurse] = token.link
      BY <3>1, ChannelAssumption DEF ChannelInv, PurseTypeOK
    <3> QED
      BY <1>1, <2>1, <3>1, <3>3, <3>4
  <2>2. CASE ~(token.link # NoLink /\ token.link > paid[ThePurse])
    <3>1. UNCHANGED <<purses, paid>>
      BY <2>2 DEF purseVars
    <3> QED
      BY <1>1, <1>2, <2>2, <3>1 DEF ChannelInv, PurseTypeOK, TokenInv
  <2> QED
    BY <2>1, <2>2
<1>4. IsOpen(ThePurse)'
  BY <1>3 DEF IsOpen
<1>5. Lifecycle'
  BY <1>3, <1>4 DEF ChannelInv, Lifecycle
<1>6. TokenInv'
  <2>1. \A t \in sent : t.link # NoLink => t.link \in Nat /\ t.link <= paid[ThePurse]
    BY PurseAssumption DEF ChannelInv, TokenInv, Tokens, Tranches
  <2>2. \A t \in sent' : t.link # NoLink => t.link <= paid'[ThePurse]
    BY <1>1, <1>3, <2>1
  <2> QED
    BY <1>3, <1>4, <2>2 DEF ChannelInv, TokenInv, Heard
<1>7. PayeeInv'
  BY <1>1, <1>3, <1>4 DEF ChannelInv, PayeeInv
<1> QED
  BY <1>3, <1>5, <1>6, <1>7 DEF ChannelInv

\* A token the payer spends keeps the invariant.
LEMMA SpendInv ==
    ASSUME ChannelInv, NEW tranches \in Tranches, Spend(tranches)
    PROVE  ChannelInv'
<1> DEFINE next == payer.spent + tranches
           token == Token(next, Reveal(payer.length, next))
<1>1. next \in 1..payer.length /\ Reveal(payer.length, next) = next
  BY DEF Spend, Reveal
<1>2. next \in Tranches /\ next \in Nat
  BY <1>1, PurseAssumption DEF ChannelInv, Lifecycle, Tranches
<1>3. token.link = next /\ token \in Tokens /\ next # NoLink
  BY <1>1, <1>2, ChannelAssumption DEF Token, Tokens
<1>4. /\ sent' = sent \cup {token} /\ IsOpen(ThePurse)
      /\ IF next > paid[ThePurse] THEN HandOverToken(ThePurse, next) ELSE UNCHANGED purseVars
      /\ payer'.length = payer.length /\ UNCHANGED <<payee, tower, handed, finalized, payout>>
  <2>1. payer' = [payer EXCEPT !.spent = next]
    BY DEF Spend
  <2>2. payer'.length = payer.length
    BY <2>1
  <2> QED
    BY <2>2 DEF Spend
<1> HIDE DEF token, next
<1> QED
  BY <1>3, <1>4, SentInv

\* So does a mislabelled one.
LEMMA MislabelInv ==
    ASSUME ChannelInv, NEW index \in 0..(MaxTranches + 1),
           NEW link \in (1..payer.length) \cup {NoLink}, Mislabel(index, link)
    PROVE  ChannelInv'
<1> DEFINE token == Token(index, link)
<1>1. token \in Tokens /\ token.link = link
  BY PurseAssumption DEF Token, Tokens, Tranches, ChannelInv, Lifecycle
<1>2. /\ sent' = sent \cup {token} /\ IsOpen(ThePurse)
      /\ IF link # NoLink /\ link > paid[ThePurse]
           THEN HandOverToken(ThePurse, link) ELSE UNCHANGED purseVars
      /\ payer'.length = payer.length /\ UNCHANGED <<payee, tower, handed, finalized, payout>>
  BY DEF Mislabel
<1> HIDE DEF token
<1> QED
  BY <1>1, <1>2, SentInv

\* What the payee does with a token: nothing, or its cursor moves to its link.
LEMMA AcceptMeans ==
    ASSUME PayeeInv, NEW token \in Tokens, NEW capacity \in Nat, Accept(token, capacity)
    PROVE  \/ payee' = payee
           \/ /\ token.link # NoLink /\ token.link = token.index
              /\ token.index > payee.accepted /\ token.index <= capacity
              /\ payee' = [cursor   |-> [committed |-> token.index, consumed |-> token.index],
                           accepted |-> token.index, best |-> token]
<1>1. CASE ~Acceptable(token, capacity)
  BY <1>1 DEF Accept
<1>2. CASE Acceptable(token, capacity)
  <2>1. /\ token.link # NoLink /\ token.link = token.index
        /\ token.index > payee.accepted /\ token.index <= capacity
    BY <1>2, AcceptableMeans
  <2>2. /\ payee.cursor.committed = payee.accepted /\ payee.cursor.consumed = payee.accepted
        /\ payee.accepted \in Nat /\ token.index \in Nat
    BY DEF PayeeInv, Tokens
  <2>3. StepsTo(payee.cursor, token.link, capacity) = token.index - payee.accepted
    BY <1>2 DEF Acceptable
  <2>4. payee.cursor.consumed + StepsTo(payee.cursor, token.link, capacity) = token.index
    BY <2>2, <2>3
  <2>5. payee' = [cursor   |-> Advance(payee.cursor, token.link, capacity),
                  accepted |-> token.index, best |-> token]
    BY <1>2 DEF Accept
  <2> QED
    BY <2>1, <2>4, <2>5 DEF Advance
<1> QED
  BY <1>1, <1>2

\* What the payee accepts or refuses keeps the invariant.
LEMMA ReceiveInv ==
    ASSUME ChannelInv, NEW token \in sent, Receive(token)
    PROVE  ChannelInv'
<1>1. /\ IsOpen(ThePurse) /\ Accept(token, purses[ThePurse].capacity)
      /\ handed' = IF payee'.best = None THEN handed ELSE handed \cup {payee'.best}
      /\ UNCHANGED <<purses, paid, payer, tower, sent, mislabelled, finalized, payout>>
  BY DEF Receive
<1>2. token \in Tokens /\ token # None /\ purses[ThePurse].capacity \in Nat /\ PayeeInv
  BY <1>1, PurseFields, ChannelAssumption DEF ChannelInv, TokenInv, Tokens
<1>3. \/ payee' = payee
      \/ /\ token.link # NoLink /\ token.link = token.index
         /\ token.index > payee.accepted /\ token.index <= purses[ThePurse].capacity
         /\ payee' = [cursor   |-> [committed |-> token.index, consumed |-> token.index],
                      accepted |-> token.index, best |-> token]
  BY <1>1, <1>2, AcceptMeans
<1>4. /\ PayeeInv' /\ handed \subseteq handed' /\ handed' \subseteq sent
      /\ \A t \in handed' : t.link = t.index /\ t.index \in 1..MaxTranches
  <2>1. CASE payee' = payee
    BY <1>1, <2>1 DEF ChannelInv, TokenInv, PayeeInv, IsOpen
  <2>2. CASE payee' # payee
    <3>1. /\ token.link # NoLink /\ token.link = token.index
          /\ payee' = [cursor   |-> [committed |-> token.index, consumed |-> token.index],
                       accepted |-> token.index, best |-> token]
      BY <1>3, <2>2
    <3>2. /\ payee'.accepted = token.index /\ payee'.best = token
          /\ payee'.cursor = [committed |-> token.index, consumed |-> token.index]
      BY <3>1
    <3>3. /\ token.index \in Nat /\ token.link <= paid[ThePurse]
          /\ token.index \in 1..MaxTranches
      <4>1. /\ token.index > payee.accepted /\ token.index <= purses[ThePurse].capacity
            /\ purses[ThePurse].capacity <= MaxTranches /\ purses[ThePurse].capacity \in Nat
            /\ payee.accepted \in Nat /\ token.index \in Nat /\ MaxTranches \in Nat
        BY <1>1, <1>2, <1>3, <2>2, PurseFields, PurseAssumption DEF ChannelInv, PayeeInv, Tokens
      <4> QED
        BY <1>1, <3>1, <4>1 DEF ChannelInv, TokenInv
    <3>4. handed' = handed \cup {token}
      BY <1>1, <1>2, <3>2
    <3> QED
      BY <1>1, <1>2, <3>1, <3>2, <3>3, <3>4 DEF ChannelInv, TokenInv, PayeeInv, IsOpen
  <2> QED
    BY <2>1, <2>2
<1>5. Lifecycle'
  BY <1>1 DEF ChannelInv, Lifecycle, IsOpen
<1>6. TokenInv'
  BY <1>1, <1>4 DEF ChannelInv, TokenInv, Heard, IsOpen
<1>7. PurseTypeOK'
  BY <1>1 DEF ChannelInv, PurseTypeOK
<1> QED
  BY <1>4, <1>5, <1>6, <1>7 DEF ChannelInv

\* The tower only ever holds what it heard.
LEMMA TowerInv ==
    ASSUME ChannelInv,
           (\E token \in Heard : TowerObserves(token)) \/ TowerForgets
    PROVE  ChannelInv'
<1>1. /\ UNCHANGED <<purses, paid, payer, payee, sent, handed, mislabelled, finalized, payout>>
      /\ tower' \in Heard \cup {tower, None}
  BY DEF TowerObserves, TowerForgets, Observe
<1>2. TokenInv'
  BY <1>1 DEF ChannelInv, TokenInv, Heard, IsOpen
<1> QED
  BY <1>1, <1>2 DEF ChannelInv, PurseTypeOK, Lifecycle, PayeeInv, IsOpen

\* A closure is published, or disputed: nothing else of the channel changes.
LEMMA ClosingInv ==
    ASSUME ChannelInv, IsOpen(ThePurse), NEW closure \in Closure,
           purses' = [purses EXCEPT ![ThePurse] = [purses[ThePurse] EXCEPT !.closing = closure]],
           UNCHANGED <<paid, payer, payee, tower, sent, handed, finalized, payout>>
    PROVE  /\ ChannelInv'
           /\ IsOpen(ThePurse)' /\ purses'[ThePurse].closing = closure
<1> DEFINE purse == [purses[ThePurse] EXCEPT !.closing = closure]
<1>1. purses[ThePurse] \in Purse
  BY PurseFields DEF ChannelInv
<1>2. /\ purse \in Purse /\ purse.closing = closure
      /\ purse.capacity = purses[ThePurse].capacity /\ purse.deposit = purses[ThePurse].deposit
      /\ purse.trancheValue = purses[ThePurse].trancheValue
  BY <1>1 DEF Purse
<1>3. purses'[ThePurse] = purse /\ PurseTypeOK'
  BY <1>2, ChannelAssumption DEF ChannelInv, PurseTypeOK
<1>4. purse # None
  BY <1>2, NoneIsNoPurse
<1> HIDE DEF purse
<1>5. Lifecycle'
  BY <1>2, <1>3, <1>4 DEF ChannelInv, Lifecycle, IsOpen
<1>6. TokenInv'
  BY <1>2, <1>3 DEF ChannelInv, TokenInv, Heard, IsOpen
<1>7. PayeeInv'
  BY <1>2, <1>3 DEF ChannelInv, PayeeInv, IsOpen
<1> QED
  BY <1>2, <1>3, <1>4, <1>5, <1>6, <1>7 DEF ChannelInv, IsOpen

\* A claim anybody closes or disputes with lies within the capacity.
LEMMA ClaimIsClosure ==
    ASSUME ChannelInv, IsOpen(ThePurse), NEW claimed \in Nat,
           claimed <= purses[ThePurse].capacity,
           NEW claimant \in Accounts, NEW openedAt \in Height, NEW disputed \in BOOLEAN
    PROVE  [claimant |-> claimant, claimed |-> claimed, openedAt |-> openedAt,
            disputed |-> disputed] \in Closure
<1>1. claimed \in Tranches
  BY PurseFields, PurseAssumption DEF ChannelInv, Tranches
<1> QED
  BY <1>1 DEF Closure

\* The finalised height is one of the ledger's.
LEMMA FinalizedIsHeight == ChannelInv => finalized \in Height /\ finalized \in Nat
  BY ChannelAssumption, WidthAssumption DEF ChannelInv, Lifecycle, Height

\* A closure by either party.
LEMMA BeginInv ==
    ASSUME ChannelInv, NEW caller \in Accounts, NEW claimed \in Nat,
           BeginUnilateral(ThePurse, caller, claimed, finalized),
           UNCHANGED <<payer, payee, tower, sent, handed, finalized, payout>>
    PROVE  ChannelInv' /\ ~IsClosing(ThePurse) /\ IsClosing(ThePurse)'
<1> DEFINE closure == [claimant |-> caller, claimed |-> claimed, openedAt |-> finalized,
                       disputed |-> FALSE]
<1>1. /\ IsOpen(ThePurse) /\ ~IsClosing(ThePurse) /\ claimed <= purses[ThePurse].capacity
      /\ purses' = [purses EXCEPT ![ThePurse].closing = closure] /\ UNCHANGED paid
  BY DEF BeginUnilateral
<1>2. closure \in Closure
  BY <1>1, ClaimIsClosure, FinalizedIsHeight
<1>3. closure # None
  BY <1>2, NoneIsNoPurse
<1> HIDE DEF closure
<1>4. purses' = [purses EXCEPT ![ThePurse] = [purses[ThePurse] EXCEPT !.closing = closure]]
  BY <1>1
<1>5. ChannelInv' /\ IsOpen(ThePurse)' /\ purses'[ThePurse].closing = closure
  BY <1>1, <1>2, <1>4, ClosingInv
<1> QED
  BY <1>1, <1>3, <1>5 DEF IsClosing

\* A closure by the payer keeps the invariant.
LEMMA PayerClosesInv ==
    ASSUME ChannelInv, NEW claimed \in Tranches, PayerCloses(claimed)
    PROVE  ChannelInv' /\ ~IsClosing(ThePurse) /\ IsClosing(ThePurse)'
<1>1. claimed \in Nat /\ Payer \in Accounts
  BY PurseAssumption, ChannelAssumption DEF Tranches
<1> QED
  BY <1>1, BeginInv DEF PayerCloses

\* A closure by the payee keeps the invariant.
LEMMA PayeeClosesInv ==
    ASSUME ChannelInv, PayeeCloses
    PROVE  ChannelInv' /\ ~IsClosing(ThePurse) /\ IsClosing(ThePurse)'
<1>1. Held(payee.best) \in Nat /\ Payee \in Accounts
  BY ChannelAssumption DEF Held, ChannelInv, TokenInv, PayeeInv, Tokens
<1> QED
  BY <1>1, BeginInv DEF PayeeCloses

\* A dispute by the tower keeps the invariant.
LEMMA TowerDisputesInv ==
    ASSUME ChannelInv, TowerDisputes
    PROVE  ChannelInv' /\ IsClosing(ThePurse) /\ IsClosing(ThePurse)'
<1> DEFINE old == purses[ThePurse].closing
           closure == [old EXCEPT !.claimed = tower.index, !.disputed = TRUE]
<1>1. IsClosing(ThePurse) /\ IsOpen(ThePurse) /\ tower # None
  BY DEF TowerDisputes, Verdict, IsClosing
<1>2. tower.index \in Nat
  BY <1>1, HeardIsSent DEF ChannelInv, TokenInv, Tokens
<1>3. old \in Closure
  BY <1>1, PurseFields DEF ChannelInv, IsClosing, Purse
<1>4. /\ tower.index <= purses[ThePurse].capacity /\ UNCHANGED paid
      /\ purses' = [purses EXCEPT ![ThePurse].closing = closure]
      /\ UNCHANGED <<payer, payee, tower, sent, handed, mislabelled, finalized, payout>>
  BY DEF TowerDisputes, Dispute
<1>5. tower.index \in Tranches
  BY <1>1, <1>2, <1>4, PurseFields, PurseAssumption DEF ChannelInv, Tranches
<1>6. closure \in Closure
  BY <1>3, <1>5 DEF Closure
<1>7. closure # None
  BY <1>6, NoneIsNoPurse
<1> HIDE DEF old, closure
<1>8. purses' = [purses EXCEPT ![ThePurse] = [purses[ThePurse] EXCEPT !.closing = closure]]
  BY <1>4
<1>9. ChannelInv' /\ IsOpen(ThePurse)' /\ purses'[ThePurse].closing = closure
  BY <1>1, <1>4, <1>6, <1>8, ClosingInv
<1> QED
  BY <1>1, <1>7, <1>9 DEF IsClosing

\* The channel is gone and its payout is a sum.
LEMMA PaidOutInv ==
    ASSUME ChannelInv, IsOpen(ThePurse), PurseTypeOK', purses'[ThePurse] = None,
           paid'[ThePurse] = 0, payout' \in Amount, finalized' \in 0..LastHeight,
           UNCHANGED <<payer, payee, tower, sent, handed>>
    PROVE  ChannelInv'
<1>1. ~IsOpen(ThePurse)' /\ payout' # None
  BY ChannelAssumption DEF IsOpen, Amount
<1> QED
  BY <1>1 DEF ChannelInv, Lifecycle, TokenInv, Heard, PayeeInv

\* What the purse owes for a count of tranches is what the promise calls its worth.
LEMMA OwedIsWorth ==
    ASSUME ChannelInv, IsOpen(ThePurse), NEW n
    PROVE  Owed(purses[ThePurse], n) = TrancheWorth(n)
  BY DEF Owed, TrancheWorth, ChannelInv, Lifecycle

\* A closure both sign keeps the invariant.
LEMMA BothCloseInv ==
    ASSUME ChannelInv, BothClose
    PROVE  /\ ChannelInv' /\ IsOpen(ThePurse) /\ ~IsClosing(ThePurse)
           /\ payout' = TrancheWorth(payee.accepted) /\ payout' \in Amount
           /\ UNCHANGED payee
<1>1. /\ IsOpen(ThePurse) /\ ~IsClosing(ThePurse)
      /\ purses' = [purses EXCEPT ![ThePurse] = None] /\ paid' = [paid EXCEPT ![ThePurse] = 0]
      /\ payout' = Owed(purses[ThePurse], payee.accepted)
      /\ UNCHANGED <<payer, payee, tower, sent, handed, mislabelled, finalized>>
  BY DEF BothClose, CloseCooperative
<1>2. payout' = TrancheWorth(payee.accepted)
  BY <1>1, OwedIsWorth
<1>3. payout' \in Amount
  BY <1>2, WorthRises DEF ChannelInv, PayeeInv
<1>4. PurseTypeOK' /\ purses'[ThePurse] = None /\ paid'[ThePurse] = 0
  BY <1>1, ChannelAssumption, PurseAssumption DEF ChannelInv, PurseTypeOK, Tranches
<1>5. finalized' \in 0..LastHeight
  BY <1>1 DEF ChannelInv, Lifecycle
<1>6. ChannelInv'
  BY <1>1, <1>3, <1>4, <1>5, PaidOutInv
<1> QED
  BY <1>1, <1>2, <1>3, <1>6

\* A window does not run out on a token the payee handed to a tower that
\* listens to nobody else: what such a tower holds always proves its index.
LEMMA WindowRespectsHanded ==
    ASSUME ChannelInv, FinalisedBlock, ThePurse \in Elapsed(finalized + 1), ~Hearsay,
           NEW token \in handed
    PROVE  token.index <= purses[ThePurse].closing.claimed
<1>1. tower # None => tower \in Tokens /\ tower.link = tower.index /\ tower.index \in 1..MaxTranches
  BY DEF ChannelInv, TokenInv, Heard
<1>2. ~DisputeFails
  BY <1>1, LinkProves DEF DisputeFails
<1>3. /\ IsClosing(ThePurse) /\ IsOpen(ThePurse)
      /\ purses[ThePurse].closing.openedAt + DisputeWindow <= finalized + 1
  BY DEF Elapsed, Settles, HasElapsed, IsClosing
<1>4. purses[ThePurse].closing.openedAt \in Nat
  BY <1>3, PurseFields, WidthAssumption DEF ChannelInv, IsClosing, Purse, Closure, Height
<1> QED
  BY <1>2, <1>3, <1>4, FinalizedIsHeight, PurseAssumption DEF FinalisedBlock, TowerInTime

\* A settled closure pays a sum, and with the tower listening to the payee
\* only, at least what the payee has a token for.
LEMMA SettlementPays ==
    ASSUME ChannelInv, FinalisedBlock, ThePurse \in Elapsed(finalized + 1)
    PROVE  /\ IsClosing(ThePurse)
           /\ Settlement(purses[ThePurse]).toPayee \in Amount
           /\ ~Hearsay => Settlement(purses[ThePurse]).toPayee >= TrancheWorth(payee.accepted)
<1> DEFINE closing == purses[ThePurse].closing
<1>1. /\ IsClosing(ThePurse) /\ IsOpen(ThePurse)
      /\ closing.openedAt + DisputeWindow <= finalized + 1
  BY DEF Elapsed, Settles, HasElapsed, IsClosing
<1>2. closing \in Closure /\ purses[ThePurse].deposit = Deposit
  BY <1>1, PurseFields DEF ChannelInv, IsClosing, Purse, Lifecycle
<1>3. closing.claimed \in Nat /\ closing.openedAt \in Nat /\ closing.disputed \in BOOLEAN
  BY <1>2, PurseAssumption, WidthAssumption DEF Closure, Tranches, Height
<1>4. payee.accepted \in Nat /\ (~Hearsay => payee.accepted <= closing.claimed)
  BY <1>3, WindowRespectsHanded DEF ChannelInv, PayeeInv
<1>5. TrancheWorth(payee.accepted) \in Amount /\ TrancheWorth(payee.accepted) <= Deposit
      /\ TrancheWorth(closing.claimed) \in Amount
  BY <1>3, <1>4, WorthRises
<1>6. CASE closing.disputed
  <2>1. Settlement(purses[ThePurse]).toPayee = Deposit
    BY <1>2, <1>6 DEF Settlement
  <2> QED
    BY <1>1, <1>5, <2>1, ChannelAssumption, WidthAssumption DEF Amount
<1>7. CASE ~closing.disputed
  <2>1. Settlement(purses[ThePurse]).toPayee = Owed(purses[ThePurse], closing.claimed)
    BY <1>7 DEF Settlement
  <2>2. Settlement(purses[ThePurse]).toPayee = TrancheWorth(closing.claimed)
    BY <1>1, <2>1, OwedIsWorth
  <2>3. ~Hearsay => TrancheWorth(payee.accepted) <= TrancheWorth(closing.claimed)
    BY <1>3, <1>4, WorthRises
  <2> QED
    BY <1>1, <1>5, <2>2, <2>3, WidthAssumption DEF Amount
<1> QED
  BY <1>3, <1>6, <1>7

\* One more finalised block, settling or not, keeps the invariant.
LEMMA FinalisedBlockInv ==
    ASSUME ChannelInv, FinalisedBlock
    PROVE  ChannelInv'
<1>1. /\ finalized < LastHeight /\ finalized' = finalized + 1
      /\ purses' = [p \in PurseIds |-> IF p \in Elapsed(finalized + 1) THEN None ELSE purses[p]]
      /\ paid' = [p \in PurseIds |-> IF p \in Elapsed(finalized + 1) THEN 0 ELSE paid[p]]
      /\ payout' = IF ThePurse \in Elapsed(finalized + 1)
                   THEN Settlement(purses[ThePurse]).toPayee ELSE payout
      /\ UNCHANGED <<payer, payee, tower, sent, handed, mislabelled>>
  BY DEF FinalisedBlock, SettleElapsed
<1>2. finalized' \in 0..LastHeight
  BY <1>1, ChannelAssumption, WidthAssumption DEF ChannelInv, Lifecycle, Height
<1>3. PurseTypeOK'
  BY <1>1, PurseAssumption DEF ChannelInv, PurseTypeOK, Tranches
<1>4. CASE ThePurse \in Elapsed(finalized + 1)
  <2>1. IsOpen(ThePurse) /\ payout' \in Amount
    BY <1>1, <1>4, SettlementPays DEF IsClosing
  <2>2. purses'[ThePurse] = None /\ paid'[ThePurse] = 0
    BY <1>1, <1>4, ChannelAssumption
  <2> QED
    BY <1>1, <1>2, <1>3, <2>1, <2>2, PaidOutInv
<1>5. CASE ThePurse \notin Elapsed(finalized + 1)
  <2>1. purses'[ThePurse] = purses[ThePurse] /\ paid'[ThePurse] = paid[ThePurse]
        /\ UNCHANGED payout
    BY <1>1, <1>5, ChannelAssumption
  <2> QED
    BY <1>1, <1>2, <1>3, <2>1 DEF ChannelInv, Lifecycle, TokenInv, Heard, PayeeInv, IsOpen
<1> QED
  BY <1>4, <1>5

\* A step of something else keeps the invariant.
LEMMA StutterInv ==
    ASSUME ChannelInv, UNCHANGED channelVars
    PROVE  ChannelInv'
  BY DEF channelVars, ChannelInv, PurseTypeOK, Lifecycle, TokenInv, Heard, PayeeInv, IsOpen

\* Every step keeps the invariant.
LEMMA NextInv == ChannelInv /\ [Next]_channelVars => ChannelInv'
<1> SUFFICES ASSUME ChannelInv, [Next]_channelVars
             PROVE  ChannelInv'
  OBVIOUS
<1> QED
  BY OpenInv, SpendInv, MislabelInv, ReceiveInv, TowerInv, PayerClosesInv, PayeeClosesInv,
     TowerDisputesInv, BothCloseInv, FinalisedBlockInv, StutterInv DEF Next

\* The invariant holds throughout, fairness or not.
LEMMA SafetyInv == Safety => []ChannelInv
  BY InitInv, NextInv, PTL DEF Safety

----------------------------------------------------------------------------

\* The invariant gives the property: a genuine token ahead is acceptable.
LEMMA InvKeepsTokens == ChannelInv => TokensNeverWasted
<1> SUFFICES ASSUME ChannelInv
             PROVE  TokensNeverWasted
  OBVIOUS
<1>1. payee.cursor = [committed |-> payee.accepted, consumed |-> payee.accepted]
  BY DEF ChannelInv, PayeeInv
<1>2. Held(payee.best) = payee.accepted
  BY DEF ChannelInv, PayeeInv, Held
<1>3. ASSUME IsOpen(ThePurse), NEW token \in sent,
             token.index = token.link, token.index > payee.accepted
      PROVE  Acceptable(token, purses[ThePurse].capacity)
  <2>1. token \in Tokens /\ token.link # NoLink
    BY <1>3, ChannelAssumption DEF ChannelInv, TokenInv, Tokens
  <2>2. /\ token.link <= paid[ThePurse] /\ paid[ThePurse] <= purses[ThePurse].capacity
        /\ token.index \in Nat /\ paid[ThePurse] \in Nat /\ purses[ThePurse].capacity \in Nat
    BY <1>3, <2>1, PurseFields DEF ChannelInv, TokenInv, Tokens
  <2> QED
    BY <1>3, <2>1, <2>2, AcceptableMeans DEF ChannelInv
<1>4. IsOpen(ThePurse) => payee.accepted <= paid[ThePurse]
  BY DEF ChannelInv, PayeeInv
<1> QED
  BY <1>1, <1>2, <1>3, <1>4 DEF TokensNeverWasted

\* The invariant gives the property: a provable index is a link that left the payer.
LEMMA InvBoundsClaims == ChannelInv => OnlyRevealedCanBeClaimed
<1> SUFFICES ASSUME ChannelInv, IsOpen(ThePurse), NEW token \in sent, VerifyAgainstRoot(token)
             PROVE  token.index <= paid[ThePurse]
  BY DEF OnlyRevealedCanBeClaimed, ChannelInv, TokenInv
<1> QED
  BY ProvenIsLink DEF ChannelInv, TokenInv

\* However tokens are lost, repeated, overtaken or mislabelled, no genuine token
\* ahead of the payee is ever refused (PayWordPayee::accept).
THEOREM TokensStayUsable == Safety => []TokensNeverWasted
  BY SafetyInv, InvKeepsTokens, PTL

\* No token proves a claim past the links the payer revealed (verify_against_root).
THEOREM ClaimsNeedLinks == Safety => []OnlyRevealedCanBeClaimed
  BY SafetyInv, InvBoundsClaims, PTL

----------------------------------------------------------------------------
(* Purse, payee and tower implement Contestation. *)

PromiseVars == <<Stage, payee.accepted, payout>>

\* The stages of the promise in terms of the purse and the payout.
LEMMA StageMeans ==
    ASSUME ChannelInv
    PROVE  /\ IsClosing(ThePurse) => Stage = "closing" /\ payout = None
           /\ IsOpen(ThePurse) /\ ~IsClosing(ThePurse) => Stage = "open" /\ payout = None
           /\ ~IsClosing(ThePurse) /\ payout = None => Stage = "open"
           /\ payout # None => Stage = "settled"
  BY DEF ChannelInv, Lifecycle, Stage, IsClosing

\* The channel starts as the promise does.
LEMMA InitPromises == Init => Promise!Init
  BY ChannelAssumption DEF Init, Promise!Init, Stage, IsClosing, IsOpen, PurseInit, NewPayee

\* Steps that leave the ledger and the payee alone.
LEMMA QuietStep ==
    ASSUME UNCHANGED <<purses, payee, payout>>
    PROVE  UNCHANGED PromiseVars
  BY DEF PromiseVars, Stage, IsClosing, IsOpen

\* Accepting a token earns tranches, or changes nothing.
LEMMA ReceiveStep ==
    ASSUME ChannelInv, NEW token \in sent, Receive(token)
    PROVE  Promise!Earn \/ UNCHANGED PromiseVars
<1>1. /\ IsOpen(ThePurse) /\ Accept(token, purses[ThePurse].capacity)
      /\ UNCHANGED <<purses, payout>>
  BY DEF Receive
<1>2. token \in Tokens /\ token.index \in Nat /\ purses[ThePurse].capacity \in Nat
      /\ purses[ThePurse].capacity <= MaxTranches /\ PayeeInv
  BY <1>1, PurseFields DEF ChannelInv, TokenInv, Tokens
<1>3. CASE payee' = payee
  BY <1>1, <1>3, QuietStep
<1>4. CASE payee' # payee
  <2>1. payee'.accepted = token.index /\ token.index > payee.accepted
        /\ token.index <= purses[ThePurse].capacity
    BY <1>1, <1>2, <1>4, AcceptMeans
  <2>2. token.index \in Tranches
    BY <1>2, <2>1, PurseAssumption DEF Tranches
  <2>3. Stage # "settled" /\ Stage' = Stage
    BY <1>1, StageMeans DEF Stage, IsClosing, IsOpen, ChannelInv, Lifecycle
  <2> QED
    BY <1>1, <2>1, <2>2, <2>3 DEF Promise!Earn
<1> QED
  BY <1>3, <1>4

\* Opening the channel is a stutter of the promise.
LEMMA OpenStep ==
    ASSUME ChannelInv, NEW length \in Lengths, Open(length)
    PROVE  UNCHANGED PromiseVars
<1>1. /\ ~IsOpen(ThePurse) /\ payout = None /\ UNCHANGED <<payee, payout>>
      /\ purses'[ThePurse].closing = None
  BY ChannelAssumption DEF Open, OpenPurse, ChannelInv, PurseTypeOK
<1>2. ~IsClosing(ThePurse) /\ ~IsClosing(ThePurse)'
  BY <1>1 DEF IsClosing
<1> QED
  BY <1>1, <1>2 DEF PromiseVars, Stage

\* A closure by one party is a closure of the promise.
LEMMA CloseStep ==
    ASSUME ChannelInv, ChannelInv', ~IsClosing(ThePurse), IsOpen(ThePurse),
           IsClosing(ThePurse)', UNCHANGED <<payee, payout>>
    PROVE  Promise!Close
  BY StageMeans DEF Promise!Close, Stage

\* A finalised block settles the promise, or leaves it as it is.
LEMMA FinalisedBlockStep ==
    ASSUME ChannelInv, FinalisedBlock, ~Hearsay
    PROVE  Promise!Settle \/ UNCHANGED PromiseVars
<1>1. /\ purses' = [p \in PurseIds |-> IF p \in Elapsed(finalized + 1) THEN None ELSE purses[p]]
      /\ payout' = IF ThePurse \in Elapsed(finalized + 1)
                   THEN Settlement(purses[ThePurse]).toPayee ELSE payout
      /\ UNCHANGED payee
  BY DEF FinalisedBlock, SettleElapsed
<1>2. CASE ThePurse \in Elapsed(finalized + 1)
  <2>1. /\ IsClosing(ThePurse) /\ payout' \in Amount
        /\ payout' >= TrancheWorth(payee.accepted)
    BY <1>1, <1>2, SettlementPays
  <2>2. payout' # None
    BY <2>1, ChannelAssumption DEF Amount
  <2>3. Stage = "closing" /\ Stage' = "settled"
    BY <2>1, <2>2, StageMeans DEF Stage
  <2> QED
    BY <1>1, <2>1, <2>3 DEF Promise!Settle
<1>3. CASE ThePurse \notin Elapsed(finalized + 1)
  <2>1. purses'[ThePurse] = purses[ThePurse] /\ UNCHANGED <<payee, payout>>
    BY <1>1, <1>3, ChannelAssumption
  <2> QED
    BY <2>1 DEF PromiseVars, Stage, IsClosing, IsOpen
<1> QED
  BY <1>2, <1>3

\* A closure both sign is the agreement of the promise.
LEMMA BothCloseStep ==
    ASSUME ChannelInv, BothClose
    PROVE  Promise!Agree
<1>1. /\ IsOpen(ThePurse) /\ ~IsClosing(ThePurse) /\ payout' = TrancheWorth(payee.accepted)
      /\ payout' \in Amount /\ UNCHANGED payee
  BY BothCloseInv
<1>2. payout' # None
  BY <1>1, ChannelAssumption DEF Amount
<1>3. Stage = "open" /\ Stage' = "settled"
  BY <1>1, <1>2, StageMeans DEF Stage
<1> QED
  BY <1>1, <1>3 DEF Promise!Agree

\* Every step is a step of the promise or a stutter.
LEMMA NextPromises == ~Hearsay => (ChannelInv /\ [Next]_channelVars => [Promise!Next]_PromiseVars)
<1> SUFFICES ASSUME ~Hearsay, ChannelInv, [Next]_channelVars
             PROVE  Promise!Next \/ UNCHANGED PromiseVars
  OBVIOUS
<1>1. ASSUME NEW length \in Lengths, Open(length)
      PROVE  UNCHANGED PromiseVars
  BY <1>1, OpenStep
<1>2. ASSUME NEW tranches \in Tranches, Spend(tranches)
      PROVE  UNCHANGED PromiseVars
  BY <1>2, QuietStep DEF Spend, HandOverToken, purseVars
<1>3. ASSUME NEW index \in 0..(MaxTranches + 1),
             NEW link \in (1..payer.length) \cup {NoLink}, Mislabel(index, link)
      PROVE  UNCHANGED PromiseVars
  BY <1>3, QuietStep DEF Mislabel, HandOverToken, purseVars
<1>4. ASSUME NEW token \in sent, Receive(token)
      PROVE  Promise!Next \/ UNCHANGED PromiseVars
  BY <1>4, ReceiveStep DEF Promise!Next
<1>5. ASSUME (\E token \in Heard : TowerObserves(token)) \/ TowerForgets
      PROVE  UNCHANGED PromiseVars
  BY <1>5, QuietStep DEF TowerObserves, TowerForgets
<1>6. ASSUME NEW claimed \in Tranches, PayerCloses(claimed)
      PROVE  Promise!Next
  <2>1. IsOpen(ThePurse) /\ UNCHANGED <<payee, payout>>
    BY <1>6 DEF PayerCloses, BeginUnilateral
  <2> QED
    BY <1>6, <2>1, PayerClosesInv, CloseStep DEF Promise!Next
<1>7. ASSUME PayeeCloses
      PROVE  Promise!Next
  <2>1. IsOpen(ThePurse) /\ UNCHANGED <<payee, payout>>
    BY <1>7 DEF PayeeCloses, BeginUnilateral
  <2> QED
    BY <1>7, <2>1, PayeeClosesInv, CloseStep DEF Promise!Next
<1>8. ASSUME TowerDisputes
      PROVE  UNCHANGED PromiseVars
  <2>1. IsClosing(ThePurse) /\ IsClosing(ThePurse)' /\ UNCHANGED <<payee, payout>>
    BY <1>8, TowerDisputesInv DEF TowerDisputes
  <2> QED
    BY <2>1 DEF PromiseVars, Stage
<1>9. ASSUME BothClose
      PROVE  Promise!Next
  BY <1>9, BothCloseStep DEF Promise!Next
<1>10. ASSUME FinalisedBlock
       PROVE  Promise!Next \/ UNCHANGED PromiseVars
  BY <1>10, FinalisedBlockStep DEF Promise!Next
<1>11. ASSUME UNCHANGED channelVars
       PROVE  UNCHANGED PromiseVars
  BY <1>11, QuietStep DEF channelVars
<1> QED
  BY <1>1, <1>2, <1>3, <1>4, <1>5, <1>6, <1>7, <1>8, <1>9, <1>10, <1>11 DEF Next

\* Purse, payee and tower keep the safety half of the promise: a channel closes
\* once, and what it pays is worth at least what the payee had accepted, with
\* a tower that listens to its payee only.
THEOREM PromiseIsKept ==
    ASSUME ~Hearsay
    PROVE  Safety => Promise!Init /\ [][Promise!Next]_PromiseVars
<1>1. Safety => []ChannelInv
  BY SafetyInv
<1>2. ChannelInv /\ [Next]_channelVars => [Promise!Next]_PromiseVars
  BY NextPromises
<1> QED
  BY <1>1, <1>2, InitPromises, PTL DEF Safety

===============================================================================
