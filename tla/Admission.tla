----------------------------- MODULE Admission -----------------------------
(***************************************************************************)
(* How connections are let in and forgotten: the accept loop of            *)
(* crates/voipc-server/src/main.rs with its two counters, `authenticate'   *)
(* of tcp.rs, and the end of a connection.                                 *)
(*                                                                         *)
(* The accept loop is one task; every accepted connection has its own,     *)
(* and they run in parallel.  The counters and maps are atomics and        *)
(* DashMaps: a step of this module is one access under one of their        *)
(* guards.  The accept loop reads the total, takes the entry of the        *)
(* address and adds to the total: only decrements of the total can come    *)
(* between, and they commute with it, so that is one step.                 *)
(***************************************************************************)
EXTENDS Naturals, FiniteSets

CONSTANTS
    Conns,       \* the connections of the run, each of them made once
    Addrs,       \* peer IP addresses
    Usernames,   \* user names, in lower case
    Nobody,      \* no session, in the map of user names
    AddrOf,      \* peer_addr.ip() of a connection
    NameOf,      \* the user name a connection asks for
    MaxTotal,    \* MAX_TOTAL_CONNECTIONS (256)
    MaxPerAddr,  \* MAX_CONNECTIONS_PER_IP (5)
    MaxUsers     \* settings.max_users

ASSUME ConnAssumption ==
    /\ IsFiniteSet(Conns) /\ Nobody \notin Conns
    /\ AddrOf \in [Conns -> Addrs]
    /\ NameOf \in [Conns -> Usernames]
ASSUME LimitAssumption == MaxTotal \in Nat /\ MaxPerAddr \in Nat \ {0} /\ MaxUsers \in Nat

VARIABLES
    total,     \* active_connections
    listed,    \* the keys of per_ip_connections
    perAddr,   \* its values (0 where there is none)
    sessions,  \* the keys of ServerState.sessions
    holder,    \* username_to_session
    pc         \* where the task of a connection is

vars == <<total, listed, perAddr, sessions, holder, pc>>

Labels == {"new", "rejected", "handshake", "checked", "named", "registered",
           "serving", "unnaming", "leaving", "uncounting", "removing", "ended"}

\* The task of a connection exists and has not yet given back its place.
Active == {c \in Conns : pc[c] \notin {"new", "rejected", "uncounting", "removing", "ended"}}
\* ... in the count of its address.
Counted(a) ==
    {c \in Conns : AddrOf[c] = a /\ pc[c] \notin {"new", "rejected", "removing", "ended"}}

TypeOK ==
    /\ total \in Nat
    /\ listed \subseteq Addrs
    /\ perAddr \in [Addrs -> Nat]
    /\ sessions \subseteq Conns
    /\ holder \in [Usernames -> Conns \cup {Nobody}]
    /\ pc \in [Conns -> Labels]

Init ==
    /\ total = 0
    /\ listed = {}
    /\ perAddr = [a \in Addrs |-> 0]
    /\ sessions = {}
    /\ holder = [n \in Usernames |-> Nobody]
    /\ pc = [c \in Conns |-> "new"]

Goto(c, label) == pc' = [pc EXCEPT ![c] = label]

----------------------------------------------------------------------------
(* The accept loop.                                                        *)

\* Variants of the limits with one bug each, for mutation testing.
RoomOffByOne(c) == total <= MaxTotal /\ perAddr[AddrOf[c]] < MaxPerAddr

HasRoom(c) == total < MaxTotal /\ perAddr[AddrOf[c]] < MaxPerAddr

Accept(c) ==
    /\ pc[c] = "new"
    /\ HasRoom(c)
    /\ listed' = listed \cup {AddrOf[c]}
    /\ perAddr' = [perAddr EXCEPT ![AddrOf[c]] = @ + 1]
    /\ total' = total + 1
    /\ Goto(c, "handshake")
    /\ UNCHANGED <<sessions, holder>>

Reject(c) ==
    /\ pc[c] = "new"
    /\ ~HasRoom(c)
    /\ Goto(c, "rejected")
    /\ UNCHANGED <<total, listed, perAddr, sessions, holder>>

----------------------------------------------------------------------------
(* authenticate                                                            *)

\* TLS or the Authenticate message fails, or five seconds pass before it came.
HandshakeFails(c) ==
    /\ pc[c] = "handshake"
    /\ Goto(c, "leaving")
    /\ UNCHANGED <<total, listed, perAddr, sessions, holder>>

\* The server is not full, and the ids are drawn.
CheckUsers(c) ==
    /\ pc[c] = "handshake"
    /\ Goto(c, IF Cardinality(sessions) < MaxUsers THEN "checked" ELSE "leaving")
    /\ UNCHANGED <<total, listed, perAddr, sessions, holder>>

\* The entry of the map, and a variant for mutation testing that does not look.
TakenUnseen(c) == FALSE
Taken(c) == holder[NameOf[c]] # Nobody

ReserveName(c) ==
    /\ pc[c] = "checked"
    /\ IF Taken(c)
       THEN Goto(c, "leaving") /\ UNCHANGED holder
       ELSE Goto(c, "named") /\ holder' = [holder EXCEPT ![NameOf[c]] = c]
    /\ UNCHANGED <<total, listed, perAddr, sessions>>

Register(c) ==
    /\ pc[c] = "named"
    /\ sessions' = sessions \cup {c}
    /\ Goto(c, "registered")
    /\ UNCHANGED <<total, listed, perAddr, holder>>

\* The answer is written, and the message loop begins; or the write fails and
\* the task returns, with the session and the name where they are.
Welcome(c) ==
    /\ pc[c] = "registered"
    /\ \E label \in {"serving", "leaving"} : Goto(c, label)
    /\ UNCHANGED <<total, listed, perAddr, sessions, holder>>

----------------------------------------------------------------------------
(* The end of a connection.                                                *)

\* remove_session: first the session ...
Disconnect(c) ==
    /\ pc[c] = "serving"
    /\ sessions' = sessions \ {c}
    /\ Goto(c, "unnaming")
    /\ UNCHANGED <<total, listed, perAddr, holder>>

\* ... then its user name.
ReleaseName(c) ==
    /\ pc[c] = "unnaming"
    /\ holder' = [holder EXCEPT ![NameOf[c]] = Nobody]
    /\ Goto(c, "leaving")
    /\ UNCHANGED <<total, listed, perAddr, sessions>>

LeaveTotal(c) ==
    /\ pc[c] = "leaving"
    /\ total' = total - 1
    /\ Goto(c, "uncounting")
    /\ UNCHANGED <<listed, perAddr, sessions, holder>>

\* saturating_sub, and a variant for mutation testing.
KeepCount(n) == n
Less(n) == IF n = 0 THEN 0 ELSE n - 1

\* The guard of the entry is dropped before an entry that reached 0 is removed.
LeaveAddr(c) ==
    /\ pc[c] = "uncounting"
    /\ LET a == AddrOf[c] IN
       /\ perAddr' = IF a \in listed THEN [perAddr EXCEPT ![a] = Less(@)] ELSE perAddr
       /\ Goto(c, IF a \in listed /\ perAddr'[a] = 0 THEN "removing" ELSE "ended")
    /\ UNCHANGED <<total, listed, sessions, holder>>

RemoveEntry(c) ==
    /\ pc[c] = "removing"
    /\ listed' = listed \ {AddrOf[c]}
    /\ perAddr' = [perAddr EXCEPT ![AddrOf[c]] = 0]
    /\ Goto(c, "ended")
    /\ UNCHANGED <<total, sessions, holder>>

----------------------------------------------------------------------------
Next == \E c \in Conns :
    \/ Accept(c) \/ Reject(c)
    \/ HandshakeFails(c) \/ CheckUsers(c) \/ ReserveName(c) \/ Register(c) \/ Welcome(c)
    \/ Disconnect(c) \/ ReleaseName(c)
    \/ LeaveTotal(c) \/ LeaveAddr(c) \/ RemoveEntry(c)

Spec == Init /\ [][Next]_vars

----------------------------------------------------------------------------
(* Properties.                                                             *)

\* The server never has more than MAX_TOTAL_CONNECTIONS connections, although
\* the count is read and increased without a lock.
TotalRespected == Cardinality(Active) <= MaxTotal

\* The count of an address is never above the number of its connections, so an
\* address without connections is not locked out by a count that stayed behind.
NoLockout == \A a \in Addrs : perAddr[a] <= Cardinality(Counted(a))

\* Two sessions never have the same user name, and the name of a session is
\* reserved by it, although the session and the name are inserted and removed
\* in steps that other connections come between.
NamesExclusive == \A c \in sessions : holder[NameOf[c]] = c

\* "Per-IP connection limit": an address has at most MAX_CONNECTIONS_PER_IP.
PerAddrRespected == \A a \in Addrs : Cardinality(Counted(a)) <= MaxPerAddr

\* "All active sessions": a session is the one of a connection that is served.
SessionsActive == \A c \in sessions : c \in Active

\* "Maximum concurrent users."
UsersRespected == Cardinality(sessions) <= MaxUsers
=============================================================================
