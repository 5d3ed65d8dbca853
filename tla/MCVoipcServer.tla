--------------------------- MODULE MCVoipcServer ---------------------------
(***************************************************************************)
(* Instances of VoipcServer for TLC.                                       *)
(***************************************************************************)
EXTENDS VoipcMembership, TLC

CONSTANTS pw, pw2

\* One persistent channel for one user at a time, behind a password.
OnePlace == <<1>>
OneSecret == <<pw>>
\* channels.json is empty.
NoChannels == <<>>

\* Users and names are interchangeable.
Symmetry == Permutations(Users) \cup Permutations(Names)
============================================================================
