---------------------------- MODULE MCGroupKeys ----------------------------
(* Two users, the lobby and one room.                                     *)
EXTENDS GroupKeys

CONSTANTS a, b, nowhere
=============================================================================
