---------------------------- MODULE VoipcServer ----------------------------
(***************************************************************************)
(* The channel state of the VoIPC server: crates/voipc-server/src/state.rs *)
(* (ServerState) driven by the connection tasks of tcp.rs.                 *)
(*                                                                         *)
(* Every connection has its own task, which handles the messages of its    *)
(* client one after the other; the tasks run in parallel on a              *)
(* multi-threaded runtime.  What they share is `channels', behind one      *)
(* RwLock, and the DashMaps of the sessions, which no lock ties to         *)
(* `channels'.  A step of this module is one critical section of the lock, *)
(* together with the accesses to the task's own session entry around it    *)
(* that commute with what the other tasks can do in between.               *)
(*                                                                         *)
(* A connection is one element of Users: user ids and session ids are both *)
(* drawn fresh for every connection (next_user_id, next_session_id), so    *)
(* both are this element, and a connection that ended never comes back.    *)
(***************************************************************************)
EXTENDS Naturals, FiniteSets

CONSTANTS
    Users,          \* the connections that may authenticate
    NoUser,         \* None where the code has an Option<UserId>
    Passwords,      \* what may be set, or tried, as a channel password
    NoPassword,     \* None where the code has an Option<String> password
    Names,          \* the names clients ask for when they create a channel
    NumPersistent,  \* how many channels channels.json lists: ids 1..NumPersistent
    Limit,          \* their max_users (0: no limit)
    InitialSecret,  \* their passwords
    MaxChannels,    \* settings.max_channels: user-created channels at a time
    MaxInvites,     \* the size of an invite list (50 in the code)
    MaxChannelId,   \* bound: ids are allocated up to this one
    Ops             \* the kinds of requests the clients of this instance send

General == 0
Channel == 0..MaxChannelId
Created == (NumPersistent + 1)..MaxChannelId
Secret  == Passwords \cup {NoPassword}

\* "rejoin" is a join of the channel one is in; "throttle" is not a request
\* but the rate limiter of password attempts answering.
AllOps == {"create", "rejoin", "password", "invite", "kick", "share",
           "throttle", "quit"}

ASSUME UsersAssumption ==
    /\ IsFiniteSet(Users)
    /\ NoUser \notin Users
ASSUME PasswordAssumption == NoPassword \notin Passwords
ASSUME ChannelAssumption ==
    /\ NumPersistent \in Nat
    /\ MaxChannelId \in Nat
    /\ NumPersistent <= MaxChannelId
    /\ Limit \in [1..NumPersistent -> Nat]
    /\ InitialSecret \in [1..NumPersistent -> Secret]
ASSUME BoundAssumption ==
    /\ MaxChannels \in Nat
    /\ MaxInvites \in Nat
    /\ Ops \subseteq AllOps

VARIABLES
    \* --- ServerState.channels, behind the RwLock ---
    live,           \* the keys of the map
    name, secret, creator, members, invited,  \* fields of Channel
    armed,          \* delete_timer holds the handle of a task that still sleeps
    sharers,        \* the keys of screen_shares
    viewers,        \* screen_shares[sharer].viewers
    nextChannel,    \* next_channel_id
    \* --- ServerState.sessions and user_to_session ---
    online,         \* the users with a session
    chan,           \* session.channel_id
    sharing,        \* session.is_screen_sharing
    watching,       \* session.watching_screenshare
    \* --- the connection tasks ---
    task            \* where the task is, and the locals it holds there

channelVars == <<live, name, secret, creator, nextChannel>>
memberVars  == <<members, invited, armed>>
shareVars   == <<sharers, viewers, sharing, watching>>
sessionVars == <<online, chan>>
vars == <<channelVars, memberVars, shareVars, sessionVars, task>>

----------------------------------------------------------------------------
(* Connection tasks.  `ch' is the channel the request is about, `pw' the   *)
(* password it carries, `old' the channel being left, `who' the user it    *)
(* targets and `empty' the emptiness observed by a kick.                   *)

Labels == {"unborn", "idle", "gone",
           "create_join", "join_cleanup", "join_leave", "join_timer",
           "join_enter", "join_fallback",
           "kick_move", "kick_timer",
           "share_insert", "share_remove", "watch_mark", "watch_insert",
           "unwatch_remove", "quit_leave", "quit_timer", "quit_remove", "quit_purge"}

Task == [at: Labels, ch: Channel, pw: Secret, old: Channel,
         who: Users \cup {NoUser}, empty: BOOLEAN]

At(label, c, p, o, w, e) ==
    [at |-> label, ch |-> c, pw |-> p, old |-> o, who |-> w, empty |-> e]

Resting(label)       == At(label, General, NoPassword, General, NoUser, FALSE)
Joining(label, c, p, o) == At(label, c, p, o, NoUser, FALSE)
Leaving(label, o)    == At(label, General, NoPassword, o, NoUser, FALSE)
Sharing(label, c, w) == At(label, c, NoPassword, General, w, FALSE)

Goto(u, t) == task' = [task EXCEPT ![u] = t]
Ready(u) == task[u].at = "idle"

----------------------------------------------------------------------------
TypeOK ==
    /\ live \subseteq Channel
    /\ name \in [Channel -> Names \cup Channel]
    /\ secret \in [Channel -> Secret]
    /\ creator \in [Channel -> Users \cup {NoUser}]
    /\ members \in [Channel -> SUBSET Users]
    /\ invited \in [Channel -> SUBSET Users]
    /\ armed \in [Channel -> BOOLEAN]
    /\ sharers \in [Channel -> SUBSET Users]
    /\ viewers \in [Channel -> [Users -> SUBSET Users]]
    /\ nextChannel \in 1..(MaxChannelId + 1)
    /\ online \subseteq Users
    /\ chan \in [Users -> Channel]
    /\ sharing \in [Users -> BOOLEAN]
    /\ watching \in [Users -> Users \cup {NoUser}]
    /\ task \in [Users -> Task]

\* ServerState::new: General and the channels of channels.json, whose names
\* are distinct (validate_entries); a static channel is named by its id.
Init ==
    /\ live = 0..NumPersistent
    /\ name = [c \in Channel |-> c]
    /\ secret = [c \in Channel |-> IF c \in 1..NumPersistent
                                   THEN InitialSecret[c] ELSE NoPassword]
    /\ creator = [c \in Channel |-> NoUser]
    /\ members = [c \in Channel |-> {}]
    /\ invited = [c \in Channel |-> {}]
    /\ armed = [c \in Channel |-> FALSE]
    /\ sharers = [c \in Channel |-> {}]
    /\ viewers = [c \in Channel |-> [u \in Users |-> {}]]
    /\ nextChannel = NumPersistent + 1
    /\ online = {}
    /\ chan = [u \in Users |-> General]
    /\ sharing = [u \in Users |-> FALSE]
    /\ watching = [u \in Users |-> NoUser]
    /\ task = [u \in Users |-> Resting("unborn")]

----------------------------------------------------------------------------
(* The checks of a join.                                                   *)

MaxUsersOf(c) == IF c \in 1..NumPersistent THEN Limit[c] ELSE 0

HasRoom(c) == MaxUsersOf(c) > 0 => Cardinality(members[c]) < MaxUsersOf(c)

PasswordOk(u, c, p) ==
    u \in invited[c] \/ secret[c] = NoPassword \/ p = secret[c]

\* validate_join, under the read lock.
ValidateJoin(u, c, p) == c \in live /\ PasswordOk(u, c, p) /\ HasRoom(c)

\* Variants of the recheck with one bug each, for mutation testing.
RecheckWithoutRoom(u, c, p)     == c \in live /\ PasswordOk(u, c, p)
RecheckWithoutPassword(u, c, p) == c \in live /\ HasRoom(c)

\* join_channel repeats these checks under the write lock.
RecheckJoin(u, c, p) == c \in live /\ PasswordOk(u, c, p) /\ HasRoom(c)

\* The session of u after a join; a variant for mutation testing forgets it.
ForgottenMove(u, c) == chan
MovedSession(u, c) == IF u \in online THEN [chan EXCEPT ![u] = c] ELSE chan

\* What join_channel does once the checks passed.  The session gets its new
\* channel only if it still exists; the member is added in any case.
Enter(u, c) ==
    /\ invited' = [invited EXCEPT ![c] = @ \ {u}]
    /\ armed' = [armed EXCEPT ![c] = FALSE]
    /\ members' = [members EXCEPT ![c] = @ \cup {u}]
    /\ chan' = MovedSession(u, c)
    /\ UNCHANGED online

----------------------------------------------------------------------------
(* cleanup_screen_shares_for_user, one critical section.                   *)

\* Clearing watching_screenshare of the viewers of a share that goes away;
\* the ones without a session any more are skipped.
Unwatch(vs) ==
    [v \in Users |-> IF v \in vs \cap online THEN NoUser ELSE watching[v]]

\* Variants of parts of the cleanup, for mutation testing.
KeepOwnShare(u, c) == sharers[c]
KeepMark(u)        == sharing

Unmarked(u) == [sharing EXCEPT ![u] = FALSE]
SharersWithout(u, c) == sharers[c] \ {u}
\* The share of u goes with its viewers, and u is no viewer of s any more.
ViewersWithout(u, c, s) ==
    IF s \in sharers[c] \ {u}
    THEN [viewers EXCEPT ![c][u] = {}, ![c][s] = @ \ {u}]
    ELSE [viewers EXCEPT ![c][u] = {}]

CleanupShares(u, c) ==
    IF c \notin live THEN UNCHANGED shareVars
    ELSE LET unwatched == Unwatch(viewers[c][u])
         IN /\ sharers' = [sharers EXCEPT ![c] = SharersWithout(u, c)]
            /\ viewers' = ViewersWithout(u, c, unwatched[u])
            /\ sharing' = Unmarked(u)
            /\ watching' = [unwatched EXCEPT ![u] = NoUser]

----------------------------------------------------------------------------
(* handle_join_channel.                                                    *)

\* The validation passed; the channel the user is in is read before leaving.
BeginJoin(u, c, p) ==
    /\ ValidateJoin(u, c, p)
    /\ Goto(u, IF chan[u] \in {General, c}
               THEN Joining("join_leave", c, p, General)
               ELSE Joining("join_cleanup", c, p, chan[u]))

\* handle_connection after authenticate inserted the session: the user is
\* taken to General, a join that validate_join always lets through.
Connect(u) ==
    /\ task[u].at = "unborn"
    /\ online' = online \cup {u}
    /\ Goto(u, Joining("join_leave", General, NoPassword, General))
    /\ UNCHANGED <<channelVars, memberVars, shareVars, chan>>

\* JoinChannel and, with no password, AcceptInvite.  A request that is rate
\* limited or refused changes nothing, so it is no step.
JoinRequest(u, c, p) ==
    /\ Ready(u)
    /\ c = chan[u] => "rejoin" \in Ops
    /\ BeginJoin(u, c, p)
    /\ UNCHANGED <<channelVars, memberVars, shareVars, sessionVars>>

JoinCleanup(u) ==
    /\ task[u].at = "join_cleanup"
    /\ CleanupShares(u, task[u].old)
    /\ Goto(u, Joining("join_leave", task[u].ch, task[u].pw, General))
    /\ UNCHANGED <<channelVars, memberVars, sessionVars>>

\* leave_current_channel, which the caller follows by arming the delete timer
\* when it took the last member out.
LeaveCurrent(u, stay, timed) ==
    LET c == chan[u] IN
    IF c \in live /\ u \in members[c]
    THEN /\ members' = [members EXCEPT ![c] = @ \ {u}]
         /\ Goto(u, IF members[c] = {u} /\ c # General THEN timed ELSE stay)
    ELSE /\ Goto(u, stay)
         /\ UNCHANGED members

JoinLeave(u) ==
    /\ task[u].at = "join_leave"
    /\ LeaveCurrent(u, Joining("join_enter", task[u].ch, task[u].pw, General),
                       Joining("join_timer", task[u].ch, task[u].pw, chan[u]))
    /\ UNCHANGED <<channelVars, invited, armed, shareVars, sessionVars>>

\* join_channel succeeds.
JoinEnter(u) ==
    /\ task[u].at = "join_enter"
    /\ RecheckJoin(u, task[u].ch, task[u].pw)
    /\ Enter(u, task[u].ch)
    /\ Goto(u, Resting("idle"))
    /\ UNCHANGED <<channelVars, shareVars>>

\* join_channel refuses although validate_join did not; the invitation, taken
\* off the list first, is gone.
JoinRefused(u) ==
    /\ task[u].at = "join_enter"
    /\ ~RecheckJoin(u, task[u].ch, task[u].pw)
    /\ invited' = IF task[u].ch \in live
                  THEN [invited EXCEPT ![task[u].ch] = @ \ {u}] ELSE invited
    /\ Goto(u, Joining("join_fallback", task[u].ch, task[u].pw, General))
    /\ UNCHANGED <<channelVars, members, armed, shareVars, sessionVars>>

\* A variant for mutation testing: the user is left without a channel.
FallbackSkipped(u) ==
    /\ task[u].at = "join_fallback"
    /\ Goto(u, Resting("idle"))
    /\ UNCHANGED <<channelVars, memberVars, shareVars, sessionVars>>

\* "Shouldn't happen, but handle gracefully": the user ends in General.
JoinFallback(u) ==
    /\ task[u].at = "join_fallback"
    /\ Enter(u, General)
    /\ Goto(u, Resting("idle"))
    /\ UNCHANGED <<channelVars, shareVars>>

----------------------------------------------------------------------------
(* Delete timers.                                                          *)

\* A variant for mutation testing: the check for persistent channels inverted.
ArmPersistent(c) == armed' = IF c \in live /\ c \in 1..NumPersistent
                             THEN [armed EXCEPT ![c] = TRUE] ELSE armed

\* start_channel_delete_timer: a sleeping task per channel, except for the
\* persistent ones; a timer already set is replaced.
ArmTimer(c) == armed' = IF c \in live /\ c \notin 1..NumPersistent
                        THEN [armed EXCEPT ![c] = TRUE] ELSE armed

JoinTimer(u) ==
    /\ task[u].at = "join_timer"
    /\ ArmTimer(task[u].old)
    /\ Goto(u, Joining("join_enter", task[u].ch, task[u].pw, General))
    /\ UNCHANGED <<channelVars, members, invited, shareVars, sessionVars>>

KickTimer(u) ==
    /\ task[u].at = "kick_timer"
    /\ ArmTimer(task[u].ch)
    /\ Goto(u, Resting("idle"))
    /\ UNCHANGED <<channelVars, members, invited, shareVars, sessionVars>>

QuitTimer(u) ==
    /\ task[u].at = "quit_timer"
    /\ ArmTimer(task[u].old)
    /\ Goto(u, Leaving("quit_remove", General))
    /\ UNCHANGED <<channelVars, members, invited, shareVars, sessionVars>>

\* A variant of the check of delete_channel, for mutation testing.
DeletableOccupied(c) == c # General /\ c \notin 1..NumPersistent

Deletable(c) == c # General /\ c \notin 1..NumPersistent /\ members[c] = {}

\* The timer task wakes up and calls delete_channel.  What was the channel is
\* dropped with everything it holds.
TimerFires(c) ==
    /\ c \in live /\ armed[c]
    /\ armed' = [armed EXCEPT ![c] = FALSE]
    /\ IF Deletable(c)
       THEN /\ live' = live \ {c}
            /\ secret' = [secret EXCEPT ![c] = NoPassword]
            /\ creator' = [creator EXCEPT ![c] = NoUser]
            /\ members' = [members EXCEPT ![c] = {}]
            /\ invited' = [invited EXCEPT ![c] = {}]
            /\ sharers' = [sharers EXCEPT ![c] = {}]
            /\ viewers' = [viewers EXCEPT ![c] = [u \in Users |-> {}]]
       ELSE UNCHANGED <<live, secret, creator, members, invited, sharers, viewers>>
    /\ UNCHANGED <<name, nextChannel, sharing, watching, sessionVars, task>>

----------------------------------------------------------------------------
(* Channel management by the creator.                                      *)

UserChannels == {c \in live : c # General /\ c \notin 1..NumPersistent}

\* A variant of the checks of create_channel, for mutation testing.
CreateOverLimit(n) == /\ Cardinality(UserChannels) <= MaxChannels
                      /\ \A c \in live : name[c] # n

\* create_channel refuses when the limit is reached or the name is in use.
MayCreate(n) == /\ Cardinality(UserChannels) < MaxChannels
                /\ \A c \in live : name[c] # n

\* next_channel_id, and a variant for mutation testing: a narrow counter that
\* wraps around to the id of General.
IdWraps == (nextChannel + 1) % MaxChannelId
NextId == nextChannel + 1

CreateChannel(u, n, p) ==
    /\ "create" \in Ops /\ Ready(u)
    /\ nextChannel <= MaxChannelId
    /\ MayCreate(n)
    /\ live' = live \cup {nextChannel}
    /\ name' = [name EXCEPT ![nextChannel] = n]
    /\ secret' = [secret EXCEPT ![nextChannel] = p]
    /\ creator' = [creator EXCEPT ![nextChannel] = u]
    /\ nextChannel' = NextId
    /\ Goto(u, Joining("create_join", nextChannel, p, General))
    /\ UNCHANGED <<memberVars, shareVars, sessionVars>>

\* handle_create_channel goes on with handle_join_channel ...
CreateJoin(u) ==
    /\ task[u].at = "create_join"
    /\ BeginJoin(u, task[u].ch, task[u].pw)
    /\ UNCHANGED <<channelVars, memberVars, shareVars, sessionVars>>

\* ... which returns early when the validation refuses or, if there is a
\* password, when the limiter of password attempts does.
CreateJoinFails(u) ==
    /\ task[u].at = "create_join"
    /\ \/ ~ValidateJoin(u, task[u].ch, task[u].pw)
       \/ "throttle" \in Ops /\ task[u].pw # NoPassword
    /\ Goto(u, Resting("idle"))
    /\ UNCHANGED <<channelVars, memberVars, shareVars, sessionVars>>

SetChannelPassword(u, c, p) ==
    /\ "password" \in Ops /\ Ready(u)
    /\ c # General /\ c \in live /\ creator[c] = u
    /\ secret' = [secret EXCEPT ![c] = p]
    /\ UNCHANGED <<live, name, creator, nextChannel,
                   memberVars, shareVars, sessionVars, task>>

\* add_invite: the target need not be connected.
SendInvite(u, c, t) ==
    /\ "invite" \in Ops /\ Ready(u)
    /\ c # General /\ c \in live /\ creator[c] = u
    /\ t \notin members[c]
    /\ Cardinality(invited[c]) < MaxInvites
    /\ invited' = [invited EXCEPT ![c] = @ \cup {t}]
    /\ UNCHANGED <<channelVars, members, armed, shareVars, sessionVars, task>>

DeclineInvite(u, c) ==
    /\ "invite" \in Ops /\ Ready(u)
    /\ c \in live
    /\ invited' = [invited EXCEPT ![c] = @ \ {u}]
    /\ UNCHANGED <<channelVars, members, armed, shareVars, sessionVars, task>>

\* kick_user takes the target out of the member set and leaves its session
\* alone.  If the target has no session any more the handler ends in an
\* error, with the member gone and no timer set.
KickUser(u, c, t) ==
    /\ "kick" \in Ops /\ Ready(u)
    /\ c # General /\ u # t
    /\ c \in live /\ creator[c] = u
    /\ t \in members[c]
    /\ members' = [members EXCEPT ![c] = @ \ {t}]
    /\ Goto(u, IF t \in online
               THEN At("kick_move", c, NoPassword, General, t, members[c] = {t})
               ELSE Resting("idle"))
    /\ UNCHANGED <<channelVars, invited, armed, shareVars, sessionVars>>

\* A variant of the move, for mutation testing: only the session is changed.
EnterSessionOnly(t) ==
    /\ chan' = MovedSession(t, General)
    /\ UNCHANGED <<members, invited, armed, online>>

EnterGeneral(t) == Enter(t, General)

\* handle_kick_user then moves the target to General with join_channel.
KickMove(u) ==
    /\ task[u].at = "kick_move"
    /\ EnterGeneral(task[u].who)
    /\ Goto(u, IF task[u].empty
               THEN Sharing("kick_timer", task[u].ch, NoUser)
               ELSE Resting("idle"))
    /\ UNCHANGED <<channelVars, shareVars>>

----------------------------------------------------------------------------
(* Screen shares.  Each handler reads the channel of the session, changes  *)
(* the session, and only then takes the lock.                              *)

\* start_screen_share: the flag is tested and set on the session ...
StartShare(u) ==
    /\ "share" \in Ops /\ Ready(u)
    /\ chan[u] # General /\ ~sharing[u]
    /\ sharing' = [sharing EXCEPT ![u] = TRUE]
    /\ Goto(u, Sharing("share_insert", chan[u], NoUser))
    /\ UNCHANGED <<channelVars, memberVars, sharers, viewers, watching, sessionVars>>

\* ... and the share put into the channel, if it still exists.  An older share
\* of the same user there is overwritten.
ShareInsert(u) ==
    /\ task[u].at = "share_insert"
    /\ LET c == task[u].ch IN
       IF c \in live
       THEN /\ sharers' = [sharers EXCEPT ![c] = @ \cup {u}]
            /\ viewers' = [viewers EXCEPT ![c][u] = {}]
       ELSE UNCHANGED <<sharers, viewers>>
    /\ Goto(u, Resting("idle"))
    /\ UNCHANGED <<channelVars, memberVars, sharing, watching, sessionVars>>

StopShare(u) ==
    /\ "share" \in Ops /\ Ready(u)
    /\ sharing' = [sharing EXCEPT ![u] = FALSE]
    /\ Goto(u, Sharing("share_remove", chan[u], NoUser))
    /\ UNCHANGED <<channelVars, memberVars, sharers, viewers, watching, sessionVars>>

\* stop_screen_share removes the share and tells its viewers' sessions.
ShareRemove(u) ==
    /\ task[u].at = "share_remove"
    /\ LET c == task[u].ch IN
       IF c \in live /\ u \in sharers[c]
       THEN /\ sharers' = [sharers EXCEPT ![c] = @ \ {u}]
            /\ viewers' = [viewers EXCEPT ![c][u] = {}]
            /\ watching' = Unwatch(viewers[c][u])
       ELSE UNCHANGED <<sharers, viewers, watching>>
    /\ Goto(u, Resting("idle"))
    /\ UNCHANGED <<channelVars, memberVars, sharing, sessionVars>>

\* watch_screen_share: a viewer of somebody else is taken out there, ...
WatchShare(u, s) ==
    /\ "share" \in Ops /\ Ready(u)
    /\ LET c == chan[u]
           prev == watching[u]
       IN /\ viewers' = IF prev # s /\ c \in live /\ prev \in sharers[c]
                        THEN [viewers EXCEPT ![c][prev] = @ \ {u}] ELSE viewers
          /\ Goto(u, Sharing("watch_mark", c, s))
    /\ UNCHANGED <<channelVars, memberVars, sharers, sharing, watching, sessionVars>>

\* ... the session names the new share, ...
WatchMark(u) ==
    /\ task[u].at = "watch_mark"
    /\ watching' = [watching EXCEPT ![u] = task[u].who]
    /\ Goto(u, Sharing("watch_insert", task[u].ch, task[u].who))
    /\ UNCHANGED <<channelVars, memberVars, sharers, viewers, sharing, sessionVars>>

\* ... and only then the lock is taken to look for it.
\* No share, no channel: an error, with the session left as it is.
WatchInsert(u) ==
    /\ task[u].at = "watch_insert"
    /\ LET c == task[u].ch
           s == task[u].who
       IN viewers' = IF c \in live /\ s \in sharers[c]
                     THEN [viewers EXCEPT ![c][s] = @ \cup {u}] ELSE viewers
    /\ Goto(u, Resting("idle"))
    /\ UNCHANGED <<channelVars, memberVars, sharers, sharing, watching, sessionVars>>

\* stop_watching_screen_share
StopWatching(u) ==
    /\ "share" \in Ops /\ Ready(u)
    /\ watching[u] # NoUser
    /\ watching' = [watching EXCEPT ![u] = NoUser]
    /\ Goto(u, Sharing("unwatch_remove", chan[u], watching[u]))
    /\ UNCHANGED <<channelVars, memberVars, sharers, viewers, sharing, sessionVars>>

UnwatchRemove(u) ==
    /\ task[u].at = "unwatch_remove"
    /\ LET c == task[u].ch
           s == task[u].who
       IN viewers' = IF c \in live /\ s \in sharers[c]
                     THEN [viewers EXCEPT ![c][s] = @ \ {u}] ELSE viewers
    /\ Goto(u, Resting("idle"))
    /\ UNCHANGED <<channelVars, memberVars, sharers, sharing, watching, sessionVars>>

----------------------------------------------------------------------------
(* The end of a connection: cleanup_session.                               *)

\* EOF, a read error or the idle timeout ends the message loop.
Quit(u) ==
    /\ "quit" \in Ops /\ Ready(u)
    /\ IF chan[u] # General THEN CleanupShares(u, chan[u])
                            ELSE UNCHANGED shareVars
    /\ Goto(u, Leaving("quit_leave", General))
    /\ UNCHANGED <<channelVars, memberVars, sessionVars>>

QuitLeave(u) ==
    /\ task[u].at = "quit_leave"
    /\ LeaveCurrent(u, Leaving("quit_remove", General), Leaving("quit_timer", chan[u]))
    /\ UNCHANGED <<channelVars, invited, armed, shareVars, sessionVars>>

\* remove_session takes the session out of the maps, and then, under the lock,
\* the user out of the channel the removed session named.
QuitRemove(u) ==
    /\ task[u].at = "quit_remove"
    /\ online' = online \ {u}
    /\ chan' = [chan EXCEPT ![u] = General]
    /\ sharing' = [sharing EXCEPT ![u] = FALSE]
    /\ watching' = [watching EXCEPT ![u] = NoUser]
    /\ Goto(u, Leaving("quit_purge", chan[u]))
    /\ UNCHANGED <<channelVars, memberVars, sharers, viewers>>

QuitPurge(u) ==
    /\ task[u].at = "quit_purge"
    /\ members' = IF task[u].old \in live
                  THEN [members EXCEPT ![task[u].old] = @ \ {u}] ELSE members
    /\ Goto(u, Resting("gone"))
    /\ UNCHANGED <<channelVars, invited, armed, shareVars, sessionVars>>

----------------------------------------------------------------------------
\* The next request the client of u sends, or its disconnection.
Request(u) ==
    \/ Connect(u)
    \/ \E c \in Channel, p \in Secret : JoinRequest(u, c, p)
    \/ \E n \in Names, p \in Secret : CreateChannel(u, n, p)
    \/ \E c \in Channel, p \in Secret : SetChannelPassword(u, c, p)
    \/ \E c \in Channel, t \in Users : SendInvite(u, c, t)
    \/ \E c \in Channel : DeclineInvite(u, c)
    \/ \E c \in Channel, t \in Users : KickUser(u, c, t)
    \/ StartShare(u)
    \/ StopShare(u)
    \/ \E s \in Users : WatchShare(u, s)
    \/ StopWatching(u)
    \/ Quit(u)

\* The task of u goes on with the handler it is in.
Continue(u) ==
    \/ CreateJoin(u) \/ CreateJoinFails(u)
    \/ JoinCleanup(u) \/ JoinLeave(u) \/ JoinTimer(u)
    \/ JoinEnter(u) \/ JoinRefused(u) \/ JoinFallback(u)
    \/ KickMove(u) \/ KickTimer(u)
    \/ ShareInsert(u) \/ ShareRemove(u)
    \/ WatchMark(u) \/ WatchInsert(u) \/ UnwatchRemove(u)
    \/ QuitLeave(u) \/ QuitTimer(u) \/ QuitRemove(u) \/ QuitPurge(u)

Next == \/ \E u \in Users : Request(u) \/ Continue(u)
        \/ \E c \in Channel : TimerFires(c)

Spec == Init /\ [][Next]_vars

\* The runtime polls every task that can go on, and a sleeping timer task
\* wakes up; what clients send is up to them.
Fairness == /\ \A u \in Users : WF_vars(Continue(u))
            /\ \A c \in Channel : WF_vars(TimerFires(c))

FairSpec == Spec /\ Fairness

----------------------------------------------------------------------------
(* Properties.                                                             *)

\* A limited channel never holds more members than max_users, although many
\* joins may have been validated against the same free place.
CapacityRespected ==
    \A c \in live : MaxUsersOf(c) > 0 => Cardinality(members[c]) <= MaxUsersOf(c)

\* User-created channels stay within settings.max_channels, and no two
\* channels ever have the same name, whatever the creations that race; the
\* next id is fresh.
RegistryOk ==
    /\ Cardinality(UserChannels) <= MaxChannels
    /\ \A c, d \in live : name[c] = name[d] => c = d
    /\ live \subseteq 0..(nextChannel - 1)

\* Nobody becomes a member of a channel other than General without, at that
\* instant, an invitation, the current password, or there being none: a
\* password changed between validate_join and join_channel counts.
EntryAuthorized ==
    [][\A c \in live \ {General}, u \in Users :
         u \in members'[c] \ members[c] =>
            \/ secret[c] = NoPassword
            \/ u \in invited[c]
            \/ task[u].at = "join_enter" /\ task[u].ch = c /\ task[u].pw = secret[c]]_vars

\* Only user-created channels disappear, and only while nobody is in them.
DeletedOnlyEmpty ==
    [][\A c \in live \ live' : c \in Created /\ members[c] = {}]_vars

\* k's kick handler has taken u out of a channel and not yet put it anywhere.
BeingMoved(u) == \E k \in Users : task[k].at = "kick_move" /\ task[k].who = u

\* The points of a task at which its user is in the channel of its session.
Settled(u) == task[u].at \in {"idle", "create_join", "join_cleanup", "kick_move",
                              "kick_timer", "share_insert", "share_remove",
                              "watch_mark", "watch_insert", "unwatch_remove"}

\* The server never loses a connected user: outside a join and a kick of that
\* user, the channel its session names exists and has it as a member, however
\* joins, kicks, timers and disconnections interleave.
HomeChannelHasUser ==
    \A u \in Users : Settled(u) /\ ~BeingMoved(u) =>
        u \in online /\ chan[u] \in live /\ u \in members[chan[u]]

\* "Set of user_ids currently in this channel": a member's session names the
\* channel.  Holds as long as nobody is kicked.
MembershipMatchesSession ==
    \A c \in live : \A u \in members[c] :
        chan[u] = c \/ (task[u].at = "quit_purge" /\ task[u].old = c)

\* A screen share belongs to a member of the channel: leaving, by a join or by
\* the end of the connection, stops it.
SharesOfMembers == \A c \in live : sharers[c] \subseteq members[c]

\* Between two requests, the flag of the session (a DashMap entry) and the map
\* of shares (behind the lock) tell the same about a user.
SharingFlagMatches ==
    \A u \in Users : Ready(u) =>
        {c \in live : u \in sharers[c]} = IF sharing[u] THEN {chan[u]} ELSE {}

\* "If the user was watching someone, remove them as a viewer": who left the
\* channel gets no more video of it.
ViewersAreMembers ==
    \A c \in live, s \in Users : viewers[c][s] \subseteq members[c]

\* "Clean up screen share state when a user disconnects or leaves a channel":
\* whoever is done with changing channels has no share in another one.
NoShareLeftBehind ==
    \A c \in live : \A u \in sharers[c] : Ready(u) => chan[u] = c

\* "the user stays where they are instead of being dumped into General": only
\* one's own request for General and a kick take a user there.
RefusedJoinStaysPut ==
    [][\A u \in Users :
         chan[u] # General /\ chan'[u] = General /\ task[u].at # "quit_remove" =>
            BeingMoved(u) \/ task[u].ch = General]_vars

\* "Auto-cleanup of empty channels": a user-created channel does not stay
\* empty forever.
EmptyChannelRemoved ==
    \A c \in Created : (c \in live /\ members[c] = {}) ~> (c \notin live \/ members[c] # {})
=============================================================================
