------------------------------ MODULE UdpRelay ------------------------------
(***************************************************************************)
(* The UDP task of the server (crates/voipc-server/src/udp.rs), which      *)
(* learns the address of each session and forwards voice and video, and    *)
(* the steps of the connection tasks it races with: entering and leaving a *)
(* channel, watching a share, and the removal of a session in state.rs.    *)
(*                                                                         *)
(* One task handles the packets one after the other.  It looks up one      *)
(* DashMap at a time, so the connection tasks run between its steps.  A    *)
(* client sends one ping when it is connected; some clients send voice and *)
(* video from then on, also for a while after the server has dropped them. *)
(* A token names its session, so a packet is known by its session.         *)
(***************************************************************************)
EXTENDS Naturals, FiniteSets, FiniteSetsExt

CONSTANTS
    Sessions, NoSession,
    Addresses, NoAddress,
    Homes,          \* the addresses the packets of each session come from
    Talkers,        \* the sessions whose clients keep sending
    Channels,       \* 0 is General
    CacheCap        \* max(2 * max_users, 64): entries of addr_to_session

General == 0

ASSUME RelayAssumption ==
    /\ IsFiniteSet(Addresses)
    /\ NoSession \notin Sessions /\ NoAddress \notin Addresses
    /\ Homes \in [Sessions -> SUBSET Addresses]
    /\ Talkers \subseteq Sessions
    /\ General \in Channels
    /\ CacheCap \in Nat

VARIABLES
    live,       \* the keys of sessions
    addr,       \* session.udp_addr
    chan,       \* session.channel_id
    cache,      \* addr_to_session
    members,    \* the members of each channel
    viewers,    \* screen_shares[session].viewers
    tcp,        \* where the connection task of each session is
    pings,      \* the initial pings that are under way
    relay,      \* where the UDP task is, and the locals it holds there
    raced       \* history: sessions removed between the two steps of learning

tcpVars == <<live, chan, members, viewers, tcp>>
vars == <<tcpVars, addr, cache, pings, relay, raced>>

Kinds == {"ping", "voice", "video"}
Relay == [at: {"recv", "insert", "route", "forward"}, s: Sessions \cup {NoSession},
          src: Addresses \cup {NoAddress}, kind: Kinds, c: Channels]
Resting == [at |-> "recv", s |-> NoSession, src |-> NoAddress, kind |-> "ping", c |-> General]

TypeOK ==
    /\ live \subseteq Sessions
    /\ addr \in [Sessions -> Addresses \cup {NoAddress}]
    /\ chan \in [Sessions -> Channels]
    /\ cache \in [Addresses -> Sessions \cup {NoSession}]
    /\ members \in [Channels -> SUBSET Sessions]
    /\ viewers \in [Sessions -> SUBSET Sessions]
    /\ tcp \in [Sessions -> {"unborn", "in", "between", "leaving", "unmap", "gone"}]
    /\ pings \subseteq Sessions
    /\ relay \in Relay
    /\ raced \subseteq Sessions

Init ==
    /\ live = {}
    /\ addr = [s \in Sessions |-> NoAddress]
    /\ chan = [s \in Sessions |-> General]
    /\ cache = [a \in Addresses |-> NoSession]
    /\ members = [c \in Channels |-> {}]
    /\ viewers = [s \in Sessions |-> {}]
    /\ tcp = [s \in Sessions |-> "unborn"]
    /\ pings = {}
    /\ relay = Resting
    /\ raced = {}

----------------------------------------------------------------------------
(* The connection tasks.                                                   *)

\* The session is inserted, the client told, and its ping sent.
Connect(s) ==
    /\ tcp[s] = "unborn"
    /\ tcp' = [tcp EXCEPT ![s] = "in"]
    /\ live' = live \cup {s}
    /\ members' = [members EXCEPT ![General] = @ \cup {s}]
    /\ pings' = pings \cup {s}
    /\ UNCHANGED <<addr, chan, cache, viewers, relay, raced>>

\* Variants for mutation testing: who leaves keeps watching, and the address of a
\* removed session stays in the cache.
KeepsWatching(s) == [viewers EXCEPT ![s] = {}]
StillMapped(s) == cache

ViewersWithout(s) == [v \in Sessions |-> IF v = s THEN {} ELSE viewers[v] \ {s}]
Unmapped(s) == [a \in Addresses |-> IF a = addr[s] THEN NoSession ELSE cache[a]]

\* cleanup_screen_shares_for_user and leave_current_channel, before a join or
\* the end of the connection; the session still names the old channel.
Leave(s) ==
    /\ tcp[s] = "in"
    /\ \E next \in {"between", "leaving"} : tcp' = [tcp EXCEPT ![s] = next]
    /\ members' = [members EXCEPT ![chan[s]] = @ \ {s}]
    /\ viewers' = ViewersWithout(s)
    /\ UNCHANGED <<live, addr, chan, cache, pings, relay, raced>>

Enter(s, c) ==
    /\ tcp[s] = "between"
    /\ tcp' = [tcp EXCEPT ![s] = "in"]
    /\ members' = [members EXCEPT ![c] = @ \cup {s}]
    /\ chan' = [chan EXCEPT ![s] = c]
    /\ UNCHANGED <<live, addr, cache, viewers, pings, relay, raced>>

\* watch_screen_share and its end; every member shares a screen.
Watch(v, s) ==
    /\ v # s /\ tcp[v] = "in" /\ tcp[s] = "in"
    /\ chan[v] = chan[s] /\ chan[s] # General
    /\ \E set \in {viewers[s] \cup {v}, viewers[s] \ {v}} : viewers' = [viewers EXCEPT ![s] = set]
    /\ UNCHANGED <<live, addr, chan, cache, members, tcp, pings, relay, raced>>

\* remove_session takes the session out of the map first ...
Remove(s) ==
    /\ tcp[s] = "leaving"
    /\ tcp' = [tcp EXCEPT ![s] = "unmap"]
    /\ live' = live \ {s}
    /\ UNCHANGED <<addr, chan, cache, members, viewers, pings, relay, raced>>

\* ... and then the address this session had.
Unmap(s) ==
    /\ tcp[s] = "unmap"
    /\ tcp' = [tcp EXCEPT ![s] = "gone"]
    /\ cache' = Unmapped(s)
    /\ raced' = IF relay.at = "insert" /\ relay.s = s THEN raced \cup {s} ELSE raced
    /\ UNCHANGED <<live, addr, chan, members, viewers, pings, relay>>

----------------------------------------------------------------------------
(* The UDP task.                                                           *)

\* A variant for mutation testing: an entry of another session kept.
KeptEntry(src) == cache

Goes(stage, s, src, kind) ==
    relay' = [at |-> stage, s |-> s, src |-> src, kind |-> kind, c |-> General]
Mapped == {a \in Addresses : cache[a] # NoSession}

Evicted(src) == [cache EXCEPT ![src] = NoSession]
Unbound(s) == addr[s] = NoAddress

\* resolve_session on a cached address: the entry counts if its session is
\* live and the token is its own, and is evicted otherwise, with the packet.
Cached(s, src, kind) ==
    /\ cache[src] # NoSession
    /\ IF cache[src] = s /\ s \in live
       THEN Goes("route", s, src, kind) /\ UNCHANGED cache
       ELSE cache' = Evicted(src) /\ UNCHANGED relay
    /\ UNCHANGED addr

\* On another address, under the guard of the session: it is learnt if the
\* session has none and the cache has room.
Learn(s, src, kind) ==
    /\ cache[src] = NoSession
    /\ IF s \in live /\ Unbound(s) /\ Cardinality(Mapped) < CacheCap
       THEN addr' = [addr EXCEPT ![s] = src] /\ Goes("insert", s, src, kind)
       ELSE /\ UNCHANGED addr
            /\ IF s \in live /\ addr[s] = src THEN Goes("route", s, src, kind)
               ELSE UNCHANGED relay
    /\ UNCHANGED cache

Receive(s, src, kind) ==
    /\ relay.at = "recv"
    /\ src \in Homes[s]
    /\ IF kind = "ping" THEN s \in pings /\ pings' = pings \ {s}
       ELSE s \in Talkers /\ tcp[s] # "unborn" /\ UNCHANGED pings
    /\ Cached(s, src, kind) \/ Learn(s, src, kind)
    /\ UNCHANGED <<tcpVars, raced>>

\* The insertion into addr_to_session, after the guard was dropped.
Insert ==
    /\ relay.at = "insert"
    /\ cache' = [cache EXCEPT ![relay.src] = relay.s]
    /\ Goes("route", relay.s, relay.src, relay.kind)
    /\ UNCHANGED <<tcpVars, addr, pings, raced>>

\* The rate limit and the channel of the session, which is read once.
Route ==
    /\ relay.at = "route"
    /\ \/ relay' = Resting                       \* a ping, or the rate limit
       \/ /\ relay.s \in live /\ chan[relay.s] # General /\ relay.kind # "ping"
          /\ relay' = [at |-> "forward", s |-> relay.s, src |-> relay.src, kind |-> relay.kind,
                       c |-> chan[relay.s]]
    /\ UNCHANGED <<tcpVars, addr, cache, pings, raced>>

\* Under the lock of the channels: voice goes to the other members, video to
\* the viewers of the share.
Targets ==
    {t \in IF relay.kind = "voice" THEN members[relay.c] \ {relay.s}
           ELSE IF relay.s \in members[relay.c] THEN viewers[relay.s] ELSE {} :
        t \in live /\ addr[t] # NoAddress}

Forward ==
    /\ relay.at = "forward"
    /\ relay' = Resting
    /\ UNCHANGED <<tcpVars, addr, cache, pings, raced>>

----------------------------------------------------------------------------
Tcp(s) == \/ Connect(s) \/ Leave(s) \/ Remove(s) \/ Unmap(s)
          \/ \E c \in Channels : Enter(s, c)
          \/ \E v \in Sessions : Watch(v, s)

Udp == \/ \E s \in Sessions, kind \in Kinds : \E src \in Homes[s] : Receive(s, src, kind)
       \/ Insert \/ Route \/ Forward

Next == Udp \/ \E s \in Sessions : Tcp(s)

Spec == Init /\ [][Next]_vars

\* The UDP task runs, a removal goes on, and of the packets a client keeps
\* sending from an address some are received.  A ping may be lost.
Fairness ==
    /\ WF_vars(Insert \/ Route \/ Forward)
    /\ \A s \in Sessions : WF_vars(Remove(s) \/ Unmap(s))
    /\ \A s \in Talkers : \A src \in Homes[s] : SF_vars(Receive(s, src, "voice"))

FairSpec == Spec /\ Fairness

----------------------------------------------------------------------------
(* Properties.                                                             *)

\* The two records of an address agree: an entry that names a live session is
\* of the address that session is bound to, however sessions end, reuse an
\* address or move to another one.
CacheNamesOwner ==
    \A a \in Addresses : cache[a] \in live => addr[cache[a]] = a

\* An entry of a session that is gone is left only where the removal raced with
\* the learning, which inserts it under no guard of the session.
DeadEntryOnlyByRace ==
    \A a \in Addresses :
        cache[a] # NoSession /\ tcp[cache[a]] = "gone" => cache[a] \in raced

\* What the cache of addresses may be relied on for; and it never outgrows its
\* cap, although its size is read several steps before the insertion.
CacheSound ==
    /\ CacheNamesOwner
    /\ DeadEntryOnlyByRace
    /\ Cardinality(Mapped) <= CacheCap

\* Nobody is sent voice or video of a channel he is not in, although sharers
\* and viewers may have moved on since the packet was received.
SentInChannel ==
    relay.at = "forward" => Targets \subseteq members[relay.c] \ {relay.s}

\* A client that keeps sending gets its address known, whatever entries of
\* earlier sessions its addresses still have, unless the cache is full of others.
TalkerLearned ==
    \A s \in Talkers :
        s \in live ~> \/ s \notin live \/ addr[s] # NoAddress
                      \/ Cardinality(Mapped \ Homes[s]) >= CacheCap

\* "Send an initial UDP ping so the server learns our UDP address".
PingTeachesAddress ==
    \A s \in Sessions : s \in live ~> s \notin live \/ addr[s] # NoAddress
=============================================================================
