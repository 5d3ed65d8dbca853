-------------------------- MODULE MCClientSession --------------------------
(* One client, the lobby and two rooms.                                    *)
EXTENDS ClientSession

CONSTANTS none
=============================================================================
