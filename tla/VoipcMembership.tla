-------------------------- MODULE VoipcMembership --------------------------
(***************************************************************************)
(* VoipcServer as an implementation of Membership.  A user is in the       *)
(* channels whose member sets list him, whatever his session says.  A kick *)
(* takes its target out and moves it to General in two critical sections,  *)
(* between which the target may join; with kicks the refinement does not   *)
(* hold, and it is claimed for servers nobody is kicked from.              *)
(***************************************************************************)
EXTENDS VoipcServer

placesOf == [u \in Users |-> {c \in live : u \in members[c]}]

stageOf == [u \in Users |-> IF task[u].at = "unborn" THEN "new"
                            ELSE IF u \in online THEN "present" ELSE "gone"]

\* The sets of users within the limit of a channel.
Within(c) == {S \in SUBSET Users : MaxUsersOf(c) > 0 => Cardinality(S) <= MaxUsersOf(c)}

M == INSTANCE Membership WITH
        Channels  <- Channel,
        Permanent <- 0..NumPersistent,
        Allowed   <- [c \in Channel |-> Within(c)],
        open      <- live,
        used      <- 0..(nextChannel - 1),
        stage     <- stageOf,
        places    <- placesOf

\* Every step of the server is a step of the abstract membership or none: a
\* member is never added to a second channel, over the limit, or after the end
\* of its connection, although a join is three critical sections and the
\* timers and the end of a connection have theirs in between.
Implements == M!Spec

\* Every join, also one that is refused at the last moment, and every end of a
\* connection is finished: nobody stays between two channels.
EveryoneSettles == M!EveryoneSettles
=============================================================================
