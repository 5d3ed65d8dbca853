--------------------------- MODULE ClientSession ---------------------------
(***************************************************************************)
(* One client and what the server holds about it.  The client is several   *)
(* tasks over shared atomics (client/src-tauri): the commands of the user  *)
(* interface (commands.rs), which run one at a time under the write lock   *)
(* of `connection'; the task that reads TCP (network.rs), which takes no   *)
(* lock and acts on each message of the server; and the task that records  *)
(* the screen.  App.svelte follows the reader's events and issues commands *)
(* of its own.  An event is handled in the step that emits it; a command   *)
(* the interface issues then waits in `invoked' and may overtake another.  *)
(*                                                                         *)
(* The server (voipc-server, here one atomic step per message) may refuse  *)
(* a join, may move the client on its own (a kick), and loses the session  *)
(* when the link breaks; the client then connects again by itself.         *)
(***************************************************************************)
EXTENDS Naturals, Sequences, FiniteSets

CONSTANTS
    Channels,       \* 0 is the lobby
    NoKey,          \* None where the code has an Option<MediaKey>
    MaxCommands,    \* bound: commands the user gives
    MaxPushes,      \* bound: kicks and arriving or leaving viewers
    MaxLosses       \* bound: broken links

Lobby == 0
Rooms == Channels \ {Lobby}

ASSUME ClientAssumption ==
    /\ Lobby \in Channels
    /\ NoKey \notin Channels
    /\ {MaxCommands, MaxPushes, MaxLosses} \subseteq Nat

VARIABLES
    \* --- ActiveConnection, and the Arcs its tasks share ---
    channel,        \* current_channel_id
    key,            \* current_media_key: the channel it is for
    sharing,        \* is_screen_sharing
    session,        \* capture_session.is_some()
    capture,        \* screen_capture_task.is_some()
    active,         \* screen_share_active
    watching,       \* watching_user_id.is_some()
    watchShared,    \* watching_user_id_shared != 0
    \* --- the tasks ---
    cmd,            \* the command that holds the lock, and where it is
    reader,         \* where the TCP reader is
    recorders,      \* how many capture tasks run
    ui,             \* the stores of the interface
    invoked,        \* commands the interface issued on an event
    \* --- the link and the server ---
    link,           \* "up", "lost", or "retry" once disconnect ran
    toServer, toClient,
    srv,            \* what the server knows of the client
    commands, pushes, losses,
    \* --- history ---
    astray,         \* a join was refused and no move followed
    leftover,       \* a share or a watch the client drops may outlive it at the server:
                    \* its move was refused or led nowhere, or it was kicked out
    overtaken,      \* the reader handled an answer before its command ended
    gaveUp          \* a command stopped waiting for the capture task

shared == <<channel, key, active, watchShared>>
fields == <<sharing, session, capture, watching>>
tasks  == <<cmd, reader, recorders, ui, invoked>>
net    == <<link, toServer, toClient, srv>>
counts == <<commands, pushes, losses>>
ghosts == <<astray, leftover, overtaken, gaveUp>>
vars == <<shared, fields, tasks, net, counts, ghosts>>

Ops == {"join", "create", "accept", "share", "unshare", "watch", "unwatch",
        "start", "stop", "switch"}
Commands == [op: Ops \cup {"none", "disconnect"}, ch: Channels,
             at: {"idle", "sent", "stored", "closing"}]
Readers  == [at: {"recv", "changed", "install"}, ch: Channels]
Ui    == [chan: Channels, prev: Channels, sharing: BOOLEAN, viewers: 0..1]
Known == [chan: Channels, sharing: BOOLEAN, shares: SUBSET Channels, watching: BOOLEAN]
Idle == [op |-> "none", ch |-> Lobby, at |-> "idle"]
Resting == [at |-> "recv", ch |-> Lobby]
NoUi == [chan |-> Lobby, prev |-> Lobby, sharing |-> FALSE, viewers |-> 0]
NewSession == [chan |-> Lobby, sharing |-> FALSE, shares |-> {}, watching |-> FALSE]

Messages == [type: Ops \cup {"user_list", "media_key", "viewers"},
             ch: Channels, n: 0..1]
Msg(type, ch) == [type |-> type, ch |-> ch, n |-> 0]

TypeOK ==
    /\ channel \in Channels
    /\ key \in Channels \cup {NoKey}
    /\ sharing \in BOOLEAN /\ session \in BOOLEAN /\ capture \in BOOLEAN
    /\ active \in BOOLEAN /\ watching \in BOOLEAN /\ watchShared \in BOOLEAN
    /\ cmd \in Commands /\ reader \in Readers
    /\ recorders \in Nat
    /\ ui \in Ui
    /\ invoked \subseteq {"start", "stop", "rejoin"}
    /\ link \in {"up", "lost", "retry"}
    /\ toServer \in Seq(Messages) /\ toClient \in Seq(Messages)
    /\ srv \in Known
    /\ commands \in 0..MaxCommands /\ pushes \in 0..MaxPushes /\ losses \in 0..MaxLosses
    /\ astray \in BOOLEAN /\ leftover \in BOOLEAN
    /\ overtaken \in BOOLEAN /\ gaveUp \in BOOLEAN

\* A connection that was just established (connect_to_server).
Init ==
    /\ channel = Lobby /\ key = NoKey /\ active = FALSE /\ watchShared = FALSE
    /\ sharing = FALSE /\ session = FALSE /\ capture = FALSE /\ watching = FALSE
    /\ cmd = Idle /\ reader = Resting /\ recorders = 0 /\ ui = NoUi /\ invoked = {}
    /\ link = "up" /\ srv = NewSession /\ toServer = <<>>
    /\ toClient = <<Msg("user_list", Lobby), Msg("media_key", Lobby)>>
    /\ commands = 0 /\ pushes = 0 /\ losses = 0
    /\ astray = FALSE /\ leftover = FALSE /\ overtaken = FALSE /\ gaveUp = FALSE

----------------------------------------------------------------------------
(* Commands.  One that holds the lock is either idle between requests or   *)
(* in the middle of join_channel, watch_screen_share or a wait for the     *)
(* capture task.                                                           *)

Send(type, ch) == toServer' = IF link = "up" THEN Append(toServer, Msg(type, ch)) ELSE toServer

\* The end of a share or of watching is announced; for mutation testing, it is not.
NotSent == UNCHANGED toServer
SendUnshare == Send("unshare", Lobby)
SendUnwatch == Send("unwatch", Lobby)

UserGives == commands < MaxCommands /\ commands' = commands + 1
TakeLock == cmd = Idle /\ link = "up"

\* join_channel sends the request before it changes anything.
JoinRequest(ch) ==
    /\ Send("join", ch)
    /\ cmd' = [op |-> "join", ch |-> ch, at |-> "sent"]
    /\ UNCHANGED <<shared, fields, reader, recorders, ui, link, toClient, srv,
                   pushes, losses, ghosts>>

Join(ch) == TakeLock /\ UserGives /\ JoinRequest(ch) /\ UNCHANGED invoked

\* After a reconnect App.svelte joins the channel it was in, without a password.
Rejoin ==
    /\ TakeLock /\ "rejoin" \in invoked
    /\ invoked' = invoked \ {"rejoin"}
    /\ JoinRequest(ui.prev)
    /\ UNCHANGED commands

JoinStore ==
    /\ cmd.op = "join" /\ cmd.at = "sent"
    /\ channel' = cmd.ch
    /\ cmd' = [cmd EXCEPT !.at = "stored"]
    /\ UNCHANGED <<key, active, watchShared, fields, reader, recorders, ui, invoked, net,
                   counts, ghosts>>

JoinForgetKey ==
    /\ cmd.op = "join" /\ cmd.at = "stored"
    /\ key' = NoKey
    /\ active' = IF sharing THEN FALSE ELSE active
    /\ cmd' = [cmd EXCEPT !.at = "closing"]
    /\ UNCHANGED <<channel, watchShared, fields, reader, recorders, ui, invoked, net,
                   counts, ghosts>>

\* Variants for mutation testing: a command that does not wait, a disconnection
\* that leaves the flag set.
WaitsNot   == UNCHANGED gaveUp
FlagKept   == active

StopFlag == FALSE
MayEnd   == recorders > 0 /\ ~active

\* The commands that wait for the capture task do so after they cleared
\* `active'; all but disconnect give up after one or two seconds.
WaitForCapture ==
    \/ /\ capture => recorders = 0
       /\ UNCHANGED gaveUp
    \/ /\ capture /\ recorders > 0 /\ cmd.op # "disconnect"
       /\ gaveUp' = TRUE

EndShare ==
    /\ sharing' = FALSE /\ session' = FALSE /\ capture' = FALSE

JoinFinish ==
    /\ cmd.op = "join" /\ cmd.at = "closing"
    /\ IF sharing
       THEN WaitForCapture /\ EndShare
       ELSE UNCHANGED <<sharing, session, capture, gaveUp>>
    /\ watching' = FALSE /\ watchShared' = FALSE
    /\ cmd' = Idle
    /\ UNCHANGED <<channel, key, active, reader, recorders, ui, invoked, net, counts,
                   astray, leftover, overtaken>>

Create ==
    /\ TakeLock /\ UserGives
    /\ \E ch \in Rooms : Send("create", ch)
    /\ UNCHANGED <<shared, fields, tasks, link, toClient, srv, pushes, losses, ghosts>>

\* accept_invite announces the end of the share, and drops the screen, before
\* it asks to move; it leaves current_channel_id to the reader.
Accept(ch) ==
    /\ TakeLock /\ UserGives
    /\ IF sharing THEN SendUnshare ELSE UNCHANGED toServer
    /\ active' = IF sharing THEN FALSE ELSE active
    /\ cmd' = [op |-> "accept", ch |-> ch, at |-> "closing"]
    /\ UNCHANGED <<channel, key, watchShared, fields, reader, recorders, ui, invoked,
                   link, toClient, srv, pushes, losses, ghosts>>

AcceptFinish ==
    /\ cmd.op = "accept" /\ cmd.at = "closing"
    /\ IF sharing
       THEN WaitForCapture /\ EndShare
       ELSE UNCHANGED <<sharing, session, capture, gaveUp>>
    /\ watching' = FALSE /\ watchShared' = FALSE
    /\ Send("accept", cmd.ch)
    /\ cmd' = Idle
    /\ UNCHANGED <<channel, key, active, reader, recorders, ui, invoked, link, toClient,
                   srv, counts, astray, leftover, overtaken>>

\* start_screen_share, offered by the interface outside of the lobby.
Share ==
    /\ TakeLock /\ UserGives
    /\ ui.chan # Lobby /\ ~ui.sharing
    /\ IF channel # Lobby /\ ~sharing
       THEN /\ Send("share", Lobby)
            /\ session' = TRUE /\ sharing' = TRUE
            /\ ui' = [ui EXCEPT !.sharing = TRUE]
       ELSE UNCHANGED <<toServer, session, sharing, ui>>
    /\ UNCHANGED <<shared, capture, watching, cmd, reader, recorders, invoked, link,
                   toClient, srv, pushes, losses, ghosts>>

Unshare ==
    /\ TakeLock /\ UserGives
    /\ ui.sharing
    /\ IF sharing
       THEN /\ active' = FALSE
            /\ cmd' = [op |-> "unshare", ch |-> Lobby, at |-> "closing"]
            /\ UNCHANGED ui
       ELSE /\ ui' = [ui EXCEPT !.sharing = FALSE, !.viewers = 0]
            /\ UNCHANGED <<active, cmd>>
    /\ UNCHANGED <<channel, key, watchShared, fields, reader, recorders, invoked, net,
                   pushes, losses, ghosts>>

UnshareFinish ==
    /\ cmd.op = "unshare" /\ cmd.at = "closing"
    /\ WaitForCapture /\ EndShare
    /\ SendUnshare
    /\ ui' = [ui EXCEPT !.sharing = FALSE, !.viewers = 0]
    /\ cmd' = Idle
    /\ UNCHANGED <<shared, watching, reader, recorders, invoked, link, toClient, srv,
                   counts, astray, leftover, overtaken>>

\* watch_screen_share records the sharer after it sent the request.
Watch ==
    /\ TakeLock /\ UserGives
    /\ ui.chan # Lobby
    /\ Send("watch", Lobby)
    /\ cmd' = [op |-> "watch", ch |-> Lobby, at |-> "sent"]
    /\ UNCHANGED <<shared, fields, reader, recorders, ui, invoked, link, toClient, srv,
                   pushes, losses, ghosts>>

WatchFinish ==
    /\ cmd.op = "watch" /\ cmd.at = "sent"
    /\ watching' = TRUE /\ watchShared' = TRUE
    /\ cmd' = Idle
    /\ UNCHANGED <<channel, key, active, sharing, session, capture, reader, recorders, ui,
                   invoked, net, counts, ghosts>>

Unwatch ==
    /\ TakeLock /\ UserGives /\ watching
    /\ SendUnwatch
    /\ watching' = FALSE /\ watchShared' = FALSE
    /\ UNCHANGED <<channel, key, active, sharing, session, capture, tasks, link, toClient,
                   srv, pushes, losses, ghosts>>

\* start_screen_capture, on the first viewer.
StartCapture ==
    /\ TakeLock /\ "start" \in invoked
    /\ invoked' = invoked \ {"start"}
    /\ IF ~capture /\ session
       THEN capture' = TRUE /\ active' = TRUE /\ recorders' = recorders + 1
       ELSE UNCHANGED <<capture, active, recorders>>
    /\ UNCHANGED <<channel, key, watchShared, sharing, session, watching, cmd, reader, ui,
                   net, counts, ghosts>>

\* stop_screen_capture, when the last viewer left or the share was cut off.
StopCapture ==
    /\ TakeLock /\ "stop" \in invoked
    /\ invoked' = invoked \ {"stop"}
    /\ active' = FALSE
    /\ cmd' = [op |-> "stop", ch |-> Lobby, at |-> "closing"]
    /\ UNCHANGED <<channel, key, watchShared, fields, reader, recorders, ui, net, counts,
                   ghosts>>

StopCaptureFinish ==
    /\ cmd.op = "stop" /\ cmd.at = "closing"
    /\ WaitForCapture
    /\ capture' = FALSE
    /\ cmd' = Idle
    /\ UNCHANGED <<shared, sharing, session, watching, reader, recorders, ui, invoked, net,
                   counts, astray, leftover, overtaken>>

\* switch_screen_share_source: a running capture is replaced.
Switch ==
    /\ TakeLock /\ UserGives
    /\ ui.sharing /\ sharing
    /\ active' = FALSE
    /\ cmd' = [op |-> "switch", ch |-> Lobby, at |-> "closing"]
    /\ UNCHANGED <<channel, key, watchShared, fields, reader, recorders, ui, invoked, net,
                   pushes, losses, ghosts>>

SwitchFinish ==
    /\ cmd.op = "switch" /\ cmd.at = "closing"
    /\ WaitForCapture
    /\ session' = TRUE
    /\ IF capture
       THEN active' = TRUE /\ recorders' = recorders + 1
       ELSE UNCHANGED <<active, recorders>>
    /\ cmd' = Idle
    /\ UNCHANGED <<channel, key, watchShared, sharing, capture, watching, reader, ui,
                   invoked, net, counts, astray, leftover, overtaken>>

\* A capture task ends when it next looks at the flag.
RecorderEnds ==
    /\ MayEnd
    /\ recorders' = recorders - 1
    /\ UNCHANGED <<shared, fields, cmd, reader, ui, invoked, net, counts, ghosts>>

----------------------------------------------------------------------------
(* The reader: handle_server_message, and App.svelte's listeners.          *)

Reading(type) ==
    /\ reader = Resting
    /\ toClient # <<>> /\ Head(toClient).type = type
    /\ toClient' = Tail(toClient)

\* history: the answer to a join the command has not finished recording.
Overtakes == cmd.op = "join" /\ cmd.at \in {"sent", "stored"}

\* The "user-list" event: the interface starts afresh in another channel.
UiEnters(u, ch) ==
    IF u.chan = ch THEN u ELSE [u EXCEPT !.chan = ch, !.sharing = FALSE, !.viewers = 0]

ReadUserList ==
    /\ Reading("user_list")
    /\ LET ch == Head(toClient).ch IN
       /\ channel' = ch
       /\ IF channel = ch
          THEN ui' = UiEnters(ui, ch) /\ UNCHANGED reader
          ELSE reader' = [at |-> "changed", ch |-> ch] /\ UNCHANGED ui
    /\ overtaken' = (overtaken \/ Overtakes)
    /\ UNCHANGED <<key, active, watchShared, fields, cmd, recorders, invoked, link, toServer,
                   srv, counts, astray, leftover, gaveUp>>

\* The key of the old channel is dropped, whatever was running there stopped,
\* and the server told.
ReaderLeaves ==
    /\ reader.at = "changed"
    /\ key' = NoKey
    /\ active' = FALSE /\ watchShared' = FALSE
    /\ toServer' = toServer
           \o (IF active /\ link = "up" THEN <<Msg("unshare", Lobby)>> ELSE <<>>)
           \o (IF watchShared /\ link = "up" THEN <<Msg("unwatch", Lobby)>> ELSE <<>>)
    /\ invoked' = IF active \/ watchShared THEN invoked \cup {"stop"} ELSE invoked
    /\ ui' = UiEnters([ui EXCEPT !.sharing = @ /\ ~active /\ ~watchShared], reader.ch)
    /\ reader' = Resting
    /\ UNCHANGED <<channel, fields, cmd, recorders, link, toClient, srv, counts, ghosts>>

\* A media key is taken only for the channel the client believes it is in;
\* the check and the store are two steps.
ReadMediaKey ==
    /\ Reading("media_key")
    /\ IF Head(toClient).ch = channel
       THEN reader' = [at |-> "install", ch |-> Head(toClient).ch]
       ELSE UNCHANGED reader
    /\ UNCHANGED <<shared, fields, cmd, recorders, ui, invoked, link, toServer, srv, counts,
                   ghosts>>

InstallKey ==
    /\ reader.at = "install"
    /\ key' = reader.ch
    /\ reader' = Resting
    /\ overtaken' = Overtakes
    /\ UNCHANGED <<channel, active, watchShared, fields, cmd, recorders, ui, invoked, net,
                   counts, astray, leftover, gaveUp>>

\* "viewer-count-changed": the capture runs while somebody watches.
ReadViewers ==
    /\ Reading("viewers")
    /\ LET n == Head(toClient).n IN
       /\ ui' = [ui EXCEPT !.viewers = n]
       /\ invoked' = IF ui.viewers = 0 /\ n > 0 /\ ui.sharing THEN invoked \cup {"start"}
                     ELSE IF ui.viewers > 0 /\ n = 0 THEN invoked \cup {"stop"}
                     ELSE invoked
    /\ UNCHANGED <<shared, fields, cmd, reader, recorders, link, toServer, srv, counts, ghosts>>

----------------------------------------------------------------------------
(* The server, seen from this client (tcp.rs).                             *)

Serving(types) ==
    /\ toServer # <<>> /\ Head(toServer).type \in types
    /\ toServer' = Tail(toServer)

Moving == {"join", "create", "accept"}

\* What a client that enters is sent; for mutation testing, in the other order.
KeyFirst(ch) == <<Msg("media_key", ch), Msg("user_list", ch)>>
Welcome(ch)  == <<Msg("user_list", ch), Msg("media_key", ch)>>

\* Leaving a channel for another ends the client's share and its watching.
ServerMoves ==
    /\ Serving(Moving)
    /\ LET ch == Head(toServer).ch
           leaves == srv.chan # ch /\ srv.chan # Lobby IN
       /\ srv' = [srv EXCEPT
             !.chan = ch,
             !.sharing = @ /\ ~leaves,
             !.shares = IF leaves THEN @ \ {srv.chan} ELSE @,
             !.watching = @ /\ ~leaves]
       /\ leftover' = \/ leftover /\ (~leaves \/ srv'.shares # {})
                      \/ srv.chan = ch
       /\ toClient' = toClient \o Welcome(ch)
    /\ astray' = FALSE
    /\ UNCHANGED <<shared, fields, tasks, link, counts, overtaken, gaveUp>>

\* Wrong password, full channel, no such channel, too many attempts.
ServerRefuses ==
    /\ Serving(Moving) /\ Head(toServer).ch # Lobby
    /\ astray' = (astray \/ Head(toServer).type = "join")
    /\ leftover' = TRUE
    /\ UNCHANGED <<shared, fields, tasks, link, toClient, srv, counts, overtaken, gaveUp>>

ServerShares ==
    /\ Serving({"share"})
    /\ srv' = IF srv.chan # Lobby /\ ~srv.sharing
              THEN [srv EXCEPT !.sharing = TRUE, !.shares = @ \cup {srv.chan}]
              ELSE srv
    /\ UNCHANGED <<shared, fields, tasks, link, toClient, counts, ghosts>>

ServerUnshares ==
    /\ Serving({"unshare"})
    /\ srv' = [srv EXCEPT !.sharing = FALSE, !.shares = @ \ {srv.chan}]
    /\ UNCHANGED <<shared, fields, tasks, link, toClient, counts, ghosts>>

\* The share the client asks for may have ended.
ServerWatches ==
    /\ Serving({"watch"})
    /\ srv' \in {srv, [srv EXCEPT !.watching = @ \/ srv.chan # Lobby]}
    /\ UNCHANGED <<shared, fields, tasks, link, toClient, counts, ghosts>>

ServerUnwatches ==
    /\ Serving({"unwatch"})
    /\ srv' = [srv EXCEPT !.watching = FALSE]
    /\ UNCHANGED <<shared, fields, tasks, link, toClient, counts, ghosts>>

\* A kick sends the lobby's user list and no media key, and leaves the share
\* and the watching of the kicked user where they were.
Kick ==
    /\ link = "up" /\ srv.chan # Lobby
    /\ pushes < MaxPushes /\ pushes' = pushes + 1
    /\ srv' = [srv EXCEPT !.chan = Lobby]
    /\ toClient' = Append(toClient, Msg("user_list", Lobby))
    /\ astray' = FALSE /\ leftover' = (leftover \/ srv.shares # {} \/ srv.watching)
    /\ UNCHANGED <<shared, fields, tasks, link, toServer, commands, losses, overtaken, gaveUp>>

ViewersChange ==
    /\ link = "up" /\ srv.chan \in srv.shares
    /\ pushes < MaxPushes /\ pushes' = pushes + 1
    /\ \E n \in 0..1 : toClient' = Append(toClient, [Msg("viewers", srv.chan) EXCEPT !.n = n])
    /\ UNCHANGED <<shared, fields, tasks, link, toServer, srv, commands, losses, ghosts>>

----------------------------------------------------------------------------
(* The link breaks; startReconnect disconnects, connects and rejoins.      *)

Lose ==
    /\ link = "up" /\ reader = Resting
    /\ losses < MaxLosses /\ losses' = losses + 1
    /\ link' = "lost" /\ toServer' = <<>> /\ toClient' = <<>> /\ srv' = NewSession
    /\ ui' = [ui EXCEPT !.prev = ui.chan, !.sharing = FALSE, !.viewers = 0]
    /\ UNCHANGED <<shared, fields, cmd, reader, recorders, invoked, commands, pushes, ghosts>>

Disconnect ==
    /\ cmd = Idle /\ link = "lost"
    /\ active' = StopFlag
    /\ cmd' = [op |-> "disconnect", ch |-> Lobby, at |-> "closing"]
    /\ UNCHANGED <<channel, key, watchShared, fields, reader, recorders, ui, invoked, net,
                   counts, ghosts>>

DisconnectFinish ==
    /\ cmd.op = "disconnect" /\ WaitForCapture
    /\ EndShare /\ watching' = FALSE
    /\ cmd' = Idle /\ link' = "retry"
    /\ UNCHANGED <<shared, reader, recorders, ui, invoked, toServer, toClient, srv, counts,
                   astray, leftover, overtaken>>

\* The new connection has fresh atomics: a task of the old one that is still
\* running sees its own flag stay clear.
Connect ==
    /\ link = "retry"
    /\ link' = "up" /\ srv' = NewSession /\ toServer' = <<>>
    /\ toClient' = <<Msg("user_list", Lobby), Msg("media_key", Lobby)>>
    /\ channel' = Lobby /\ key' = NoKey /\ active' = FALSE /\ watchShared' = FALSE
    /\ recorders' = 0
    /\ invoked' = IF ui.prev # Lobby THEN {"rejoin"} ELSE {}
    /\ astray' = FALSE /\ leftover' = FALSE /\ overtaken' = FALSE
    /\ UNCHANGED <<fields, cmd, reader, ui, counts, gaveUp>>

----------------------------------------------------------------------------
UserStep ==
    \/ \E ch \in Channels : Join(ch)
    \/ \E ch \in Rooms : Accept(ch)
    \/ Create \/ Share \/ Unshare \/ Watch \/ Unwatch \/ Switch

CommandStep ==
    \/ JoinStore \/ JoinForgetKey \/ JoinFinish \/ AcceptFinish \/ UnshareFinish
    \/ WatchFinish \/ StopCaptureFinish \/ SwitchFinish \/ DisconnectFinish

UiStep == Rejoin \/ StartCapture \/ StopCapture \/ Disconnect \/ Connect

ReaderStep ==
    \/ ReadUserList \/ ReaderLeaves
    \/ ReadMediaKey \/ InstallKey \/ ReadViewers

ServerStep ==
    \/ ServerMoves \/ ServerRefuses \/ ServerShares \/ ServerUnshares
    \/ ServerWatches \/ ServerUnwatches

Next ==
    \/ UserStep \/ CommandStep \/ UiStep \/ ReaderStep \/ ServerStep
    \/ RecorderEnds \/ Kick \/ ViewersChange \/ Lose

Spec == Init /\ [][Next]_vars

\* The tasks of the client and of the server run when they can; nobody has to
\* give a command, kick or watch, and the link need not break.
FairSpec ==
    /\ Spec
    /\ WF_vars(CommandStep) /\ WF_vars(UiStep) /\ WF_vars(ReaderStep)
    /\ WF_vars(ServerStep) /\ WF_vars(RecorderEnds)

----------------------------------------------------------------------------
(* Properties.                                                             *)

\* Nothing is under way between the client and the server.
Settled ==
    /\ link = "up" /\ cmd = Idle /\ reader = Resting /\ invoked = {}
    /\ toServer = <<>> /\ toClient = <<>>

\* Once nothing is under way, the channel the client tags its media with is
\* the one the server has it in, whatever joins, moves and kicks crossed: both
\* the command and the reader write current_channel_id.  Outside of the lobby
\* the client also holds the media key of its channel, which was neither cleared
\* after it arrived nor dropped as another channel's.  Excepted are a join that
\* was refused, which the command already recorded, and an answer that came
\* before the command recorded its request.
ViewAgrees ==
    Settled /\ ~astray /\ ~overtaken =>
        /\ channel = srv.chan
        /\ channel # Lobby => key = channel

\* A share the server shows in the client's channel is one the client still
\* holds a capture session for, and the server forwards no share to a client that
\* stopped watching: no path on which the client drops them (a join, an invite,
\* a stop, a broken link) leaves them standing at the server.
NothingAbandoned ==
    Settled /\ ~leftover =>
        /\ srv.chan \in srv.shares => sharing /\ session
        /\ srv.watching /\ srv.chan # Lobby => watchShared

\* At most one task records the screen, unless a command lost its patience.
OneRecorder == ~gaveUp => recorders <= 1

\* What is under way always comes to an end, through kicks, moves, captures
\* that have to be stopped and a reconnect: the answers of the reader and the
\* commands the interface issues do not chase each other.
ComesToRest == <>[]Settled

\* What commands.rs:126 says of the channel join_channel records at once: the
\* server confirms it.
JoinIsConfirmed == Settled => channel = srv.chan
=============================================================================
