----------------------------- MODULE MCFinality -----------------------------
(***************************************************************************)
(* Four candidates with a weight, three on duty: three of weight 2, one of *)
(* them with a clamped score, and one of weight 10 (truncated from 10.5),  *)
(* which certifies its windows alone.  The fifth has no bond at first      *)
(* and a key of a test algorithm.                                          *)
(***************************************************************************)
EXTENDS Finality

MCGenesis ==
    [v \in Accounts |->
        CASE v = 1 -> Validator(1, 9, v)
          [] v = 4 -> Validator(7, 3, v)
          [] v = 5 -> Validator(0, 4, v)
          [] OTHER -> Validator(2, 2, v)]

MCSeeds ==
    {[draw |-> <<0, 0, 0, 0>>, activate |-> <<0, 1, 2, 3>>],
     [draw |-> <<4, 12, 3, 1>>, activate |-> <<0, 0, 1, 2>>]}

=============================================================================
