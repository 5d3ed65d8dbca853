----------------------------- MODULE Membership -----------------------------
(***************************************************************************)
(* What the server promises about channels and who is in them, without     *)
(* locks, handlers and timers: a connected user is taken into one open     *)
(* channel at a time, while there is room; a channel closes while nobody   *)
(* is in it, and never opens again.  VoipcMembership shows how VoipcServer *)
(* implements this.                                                        *)
(***************************************************************************)
CONSTANTS
    Users,
    Channels,
    Permanent,      \* the channels that are open for good, a subset of Channels
    Allowed         \* the sets of users that may be in each channel together

VARIABLES
    open,       \* the channels there are
    used,       \* the channels there ever were
    stage,      \* "new", "present" or "gone"
    places      \* the channels each user is in

vars == <<open, used, stage, places>>

Init ==
    /\ open = Permanent
    /\ used = Permanent
    /\ stage = [u \in Users |-> "new"]
    /\ places = [u \in Users |-> {}]

Inside(c) == {u \in Users : c \in places[u]}
HasRoom(u, c) == Inside(c) \cup {u} \in Allowed[c]

Arrive(u) ==
    /\ stage[u] = "new"
    /\ stage' = [stage EXCEPT ![u] = "present"]
    /\ UNCHANGED <<open, used, places>>

Enter(u, c) ==
    /\ stage[u] = "present" /\ places[u] = {}
    /\ c \in open /\ HasRoom(u, c)
    /\ places' = [places EXCEPT ![u] = {c}]
    /\ UNCHANGED <<open, used, stage>>

Depart(u) ==
    /\ places[u] # {}
    /\ places' = [places EXCEPT ![u] = {}]
    /\ UNCHANGED <<open, used, stage>>

Disconnect(u) ==
    /\ stage[u] = "present" /\ places[u] = {}
    /\ stage' = [stage EXCEPT ![u] = "gone"]
    /\ UNCHANGED <<open, used, places>>

Open(c) ==
    /\ c \notin used
    /\ open' = open \cup {c}
    /\ used' = used \cup {c}
    /\ UNCHANGED <<stage, places>>

Close(c) ==
    /\ c \in open \ Permanent /\ Inside(c) = {}
    /\ open' = open \ {c}
    /\ UNCHANGED <<used, stage, places>>

Next ==
    \/ \E u \in Users :
         Arrive(u) \/ Depart(u) \/ Disconnect(u) \/ \E c \in Channels : Enter(u, c)
    \/ \E c \in Channels : Open(c) \/ Close(c)

Spec == Init /\ [][Next]_vars

----------------------------------------------------------------------------
\* Nobody is in two channels, in a channel that does not exist, or in one
\* before or after his connection.
OnePlaceAtATime ==
    \A u \in Users :
        /\ places[u] = {} \/ \E c \in open : places[u] = {c}
        /\ places[u] # {} => stage[u] = "present"

\* Who is between two channels, or about to be disconnected, does not stay so.
EveryoneSettles ==
    \A u \in Users :
        (stage[u] = "present" /\ places[u] = {}) ~> (places[u] # {} \/ stage[u] = "gone")
=============================================================================
