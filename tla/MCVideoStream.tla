--------------------------- MODULE MCVideoStream ---------------------------
(* VideoStream on small instances.                                          *)
EXTENDS VideoStream
=============================================================================
