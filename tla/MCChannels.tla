----------------------------- MODULE MCChannels -----------------------------
(***************************************************************************)
(* One channel whose deposit pays for four tranches, a chain as long or   *)
(* one link shorter, one mislabelled token, and a window of two blocks.    *)
(***************************************************************************)
EXTENDS Channels

MCLengths == {3, 4}

=============================================================================
