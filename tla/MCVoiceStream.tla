--------------------------- MODULE MCVoiceStream ---------------------------
(* VoiceStream on small instances, with a binding of one key.               *)
EXTENDS VoiceStream

CONSTANTS space
=============================================================================
