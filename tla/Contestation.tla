---------------------------- MODULE Contestation ----------------------------
(***************************************************************************)
(* What a channel promises the one who is paid over it.  Tranches are      *)
(* earned while the channel is open or closing; a closure is paid out, and *)
(* the payout is worth at least what was earned, or all there is.  How     *)
(* claims, tokens and watchtowers bring this about is left open.           *)
(***************************************************************************)
EXTENDS Integers

CONSTANTS
    Tranches,       \* counts of tranches
    Payouts,        \* sums a channel can pay out
    Worth(_),       \* what a count of tranches is worth in this channel
    Unpaid          \* no payout yet

VARIABLES
    stage,          \* open, closing or settled
    earned,         \* tranches the payee has a token for
    payout          \* what the payee was paid, or Unpaid

vars == <<stage, earned, payout>>

Init == stage = "open" /\ earned = 0 /\ payout = Unpaid

Earn ==
    /\ stage # "settled"
    /\ \E n \in Tranches : n > earned /\ earned' = n
    /\ UNCHANGED <<stage, payout>>

Close ==
    /\ stage = "open"
    /\ stage' = "closing"
    /\ UNCHANGED <<earned, payout>>

Settle ==
    /\ stage = "closing"
    /\ stage' = "settled"
    /\ \E sum \in Payouts : sum >= Worth(earned) /\ payout' = sum
    /\ UNCHANGED earned

\* Both parties sign: nothing is left to contest.
Agree ==
    /\ stage = "open"
    /\ stage' = "settled"
    /\ payout' = Worth(earned)
    /\ UNCHANGED earned

Next == Earn \/ Close \/ Settle \/ Agree

Spec == Init /\ [][Next]_vars /\ WF_vars(Settle)

=============================================================================
