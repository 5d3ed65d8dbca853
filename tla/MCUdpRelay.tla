---------------------------- MODULE MCUdpRelay ----------------------------
(* UdpRelay with three sessions: s1 and s2 come from one address, as after a *)
(* reconnect behind the same address translator, which may move s2 to        *)
(* another one; s3 has an address of its own.                                *)
EXTENDS UdpRelay, TLC

CONSTANTS s1, s2, s3, a1, a2, a3

SharedHomes == (s1 :> {a1}) @@ (s2 :> {a1, a2}) @@ (s3 :> {a3})
OneHome == s3 :> {a2}
=============================================================================
