-------------------------- MODULE MCChatHistory ---------------------------
(* The default location and another one, two passwords.                    *)
EXTENDS ChatHistory

CONSTANTS home, other, none, p, q
=============================================================================
