------------------------------- MODULE MCNode -------------------------------
(***************************************************************************)
(* Two nodes, three validators of whom two are on duty, an honest one and  *)
(* a faulty one, four epochs of one block and a halving in their middle.   *)
(***************************************************************************)
EXTENDS Node

CONSTANTS alice, bob

MCGenesis == [v \in Accounts |-> Validator(v, 1, Root)]
MCSeed == [draw |-> <<5, 1, 0>>, activate |-> <<0, 0, 0>>]

Tx(account, sequence, kind) == [body |-> Body(account, sequence, kind), genuine |-> TRUE]

\* alice closes her channel; bob pays, twice under one sequence; alice pays with
\* what the settlement left her.
MCCandidates ==
    {<<Tx(alice, 0, "PurseCloseUnilateral"), Tx(bob, 0, "Transfer"), Tx(bob, 0, "Transfer"),
       Tx(alice, 1, "Transfer")>>}

\* The nodes are interchangeable: no definition singles one out.
NodeSymmetry == Permutations(Nodes)

=============================================================================
