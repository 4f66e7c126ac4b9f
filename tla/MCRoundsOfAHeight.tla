--------------------------- MODULE MCRoundsOfAHeight ---------------------------
(* Three validators, as addresses, for RoundsOfAHeight. *)
EXTENDS RoundsOfAHeight

Three == 1 .. 3
=============================================================================
