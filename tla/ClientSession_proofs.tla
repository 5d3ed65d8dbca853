----------------------- MODULE ClientSession_proofs -----------------------
(***************************************************************************)
(* Theorems about ClientSession, for any number of channels, commands,     *)
(* pushes and broken links.                                                *)
(***************************************************************************)
EXTENDS ClientSession, SequenceTheorems, TLAPS

USE ClientAssumption DEF Lobby, Rooms

\* A client that holds no capture task has none running, unless a command left
\* one behind: whoever lets go of the handle has waited, and whoever starts a
\* task holds no other.
Recorders == ~gaveUp => recorders <= 1 /\ (capture \/ recorders = 0)

IInv == TypeOK /\ Recorders

----------------------------------------------------------------------------
\* What is put into the queues, and taken out of them.
LEMMA Queued ==
    ASSUME NEW q \in Seq(Messages), NEW m \in Messages
    PROVE  Append(q, m) \in Seq(Messages)
OBVIOUS

LEMMA Taken ==
    ASSUME NEW q \in Seq(Messages), q # <<>>
    PROVE  Head(q) \in Messages /\ Tail(q) \in Seq(Messages)
OBVIOUS

LEMMA MsgType ==
    ASSUME NEW type \in Ops \cup {"user_list", "media_key", "viewers"}, NEW ch \in Channels
    PROVE  Msg(type, ch) \in Messages
BY DEF Msg, Messages

LEMMA SendType ==
    ASSUME TypeOK, NEW type \in Ops, NEW ch \in Channels, Send(type, ch)
    PROVE  toServer' \in Seq(Messages)
BY MsgType, Queued DEF Send, TypeOK

LEMMA UiType ==
    ASSUME NEW u \in Ui
    PROVE  /\ [u EXCEPT !.sharing = TRUE] \in Ui
           /\ [u EXCEPT !.sharing = FALSE, !.viewers = 0] \in Ui
<1>1. [u EXCEPT !.sharing = TRUE] \in Ui BY DEF Ui
<1>2. [u EXCEPT !.sharing = FALSE] \in Ui BY DEF Ui
<1>3. \A w \in Ui : [w EXCEPT !.viewers = 0] \in Ui BY DEF Ui
<1>4. [u EXCEPT !.sharing = FALSE, !.viewers = 0]
        = [[u EXCEPT !.sharing = FALSE] EXCEPT !.viewers = 0]
  BY DEF Ui
<1> QED BY <1>1, <1>2, <1>3, <1>4

LEMMA CommandType ==
    ASSUME NEW op \in Ops \cup {"none", "disconnect"}, NEW ch \in Channels,
           NEW at \in {"idle", "sent", "stored", "closing"}
    PROVE  /\ [op |-> op, ch |-> ch, at |-> at] \in Commands
           /\ cmd \in Commands => [cmd EXCEPT !.at = at] \in Commands
           /\ Idle \in Commands
BY DEF Commands, Idle

LEMMA IInvInit == Init => IInv
<1> SUFFICES ASSUME Init PROVE IInv OBVIOUS
<1>1. toClient \in Seq(Messages) BY MsgType DEF Init
<1>2. cmd \in Commands BY DEF Init, Idle, Commands
<1>3. reader \in Readers BY DEF Init, Resting, Readers
<1>4. /\ ui \in Ui
      /\ srv \in Known
  BY DEF Init, NoUi, NewSession, Ui, Known
<1>5. /\ sharing \in BOOLEAN /\ session \in BOOLEAN /\ capture \in BOOLEAN
      /\ active \in BOOLEAN /\ watching \in BOOLEAN /\ watchShared \in BOOLEAN
  BY DEF Init
<1>6. /\ astray \in BOOLEAN /\ leftover \in BOOLEAN
      /\ overtaken \in BOOLEAN /\ gaveUp \in BOOLEAN
  BY DEF Init
<1>7. /\ commands \in 0..MaxCommands /\ pushes \in 0..MaxPushes /\ losses \in 0..MaxLosses
      /\ channel \in Channels /\ key \in Channels \cup {NoKey} /\ recorders \in Nat
      /\ invoked \subseteq {"start", "stop", "rejoin"} /\ link \in {"up", "lost", "retry"}
      /\ toServer \in Seq(Messages)
  BY DEF Init
<1>8. TypeOK BY <1>1, <1>2, <1>3, <1>4, <1>5, <1>6, <1>7 DEF TypeOK
<1> QED BY <1>8 DEF Init, IInv, Recorders

----------------------------------------------------------------------------
\* What the user gives.
LEMMA UserKeepsType ==
    ASSUME TypeOK, UserStep
    PROVE  TypeOK'
<1>1. ASSUME NEW ch \in Channels, Join(ch) PROVE TypeOK'
  <2>1. toServer' \in Seq(Messages) BY <1>1, SendType DEF Join, JoinRequest, Ops
  <2>2. commands' \in 0..MaxCommands BY <1>1 DEF Join, UserGives, TypeOK
  <2>3. cmd' \in Commands BY <1>1, CommandType DEF Join, JoinRequest, TypeOK, Ops
  <2> QED BY <1>1, <2>1, <2>2, <2>3 DEF Join, JoinRequest, TypeOK, shared, fields, ghosts
<1>2. ASSUME NEW ch \in Rooms, Accept(ch) PROVE TypeOK'
  <2>1. toServer' \in Seq(Messages) BY <1>2, SendType DEF Accept, SendUnshare, Ops, TypeOK
  <2>2. commands' \in 0..MaxCommands BY <1>2 DEF Accept, UserGives, TypeOK
  <2>3. active' \in BOOLEAN BY <1>2 DEF Accept, TypeOK
  <2>4. cmd' \in Commands BY <1>2, CommandType DEF Accept, TypeOK, Ops
  <2>5. /\ UNCHANGED <<channel, key, watchShared, fields, reader, recorders, ui, invoked>>
        /\ UNCHANGED <<link, toClient, srv, pushes, losses, ghosts>>
    BY <1>2 DEF Accept
  <2> QED BY <2>1, <2>2, <2>3, <2>4, <2>5 DEF TypeOK, fields, ghosts
<1>3. CASE Create
  <2>1. toServer' \in Seq(Messages) BY <1>3, SendType DEF Create, Ops
  <2>2. commands' \in 0..MaxCommands BY <1>3 DEF Create, UserGives, TypeOK
  <2> QED BY <1>3, <2>1, <2>2 DEF Create, TypeOK, shared, fields, tasks, ghosts
<1>4. CASE Share
  <2>1. toServer' \in Seq(Messages) BY <1>4, SendType DEF Share, Ops, TypeOK
  <2>2. commands' \in 0..MaxCommands BY <1>4 DEF Share, UserGives, TypeOK
  <2>3. session' \in BOOLEAN /\ sharing' \in BOOLEAN BY <1>4 DEF Share, TypeOK
  <2>4. ui' \in Ui BY <1>4, UiType DEF Share, TypeOK
  <2> QED BY <1>4, <2>1, <2>2, <2>3, <2>4 DEF Share, TypeOK, shared, ghosts
<1>5. CASE Unshare
  <2>1. commands' \in 0..MaxCommands BY <1>5 DEF Unshare, UserGives, TypeOK
  <2>2. active' \in BOOLEAN BY <1>5 DEF Unshare, TypeOK
  <2>3. ui' \in Ui BY <1>5, UiType DEF Unshare, TypeOK
  <2>4. cmd' \in Commands BY <1>5, CommandType DEF Unshare, TypeOK, Ops
  <2> QED BY <1>5, <2>1, <2>2, <2>3, <2>4 DEF Unshare, TypeOK, fields, net, ghosts
<1>6. CASE Watch
  <2>1. toServer' \in Seq(Messages) BY <1>6, SendType DEF Watch, Ops
  <2>2. commands' \in 0..MaxCommands BY <1>6 DEF Watch, UserGives, TypeOK
  <2>3. cmd' \in Commands BY <1>6, CommandType DEF Watch, TypeOK, Ops
  <2> QED BY <1>6, <2>1, <2>2, <2>3 DEF Watch, TypeOK, shared, fields, ghosts
<1>7. CASE Unwatch
  <2>1. toServer' \in Seq(Messages) BY <1>7, SendType DEF Unwatch, SendUnwatch, Ops
  <2>2. commands' \in 0..MaxCommands BY <1>7 DEF Unwatch, UserGives, TypeOK
  <2>3. watching' \in BOOLEAN /\ watchShared' \in BOOLEAN BY <1>7 DEF Unwatch
  <2> QED BY <1>7, <2>1, <2>2, <2>3 DEF Unwatch, TypeOK, tasks, ghosts
<1>8. CASE Switch
  <2>1. commands' \in 0..MaxCommands BY <1>8 DEF Switch, UserGives, TypeOK
  <2>2. active' \in BOOLEAN BY <1>8 DEF Switch
  <2>3. cmd' \in Commands BY <1>8, CommandType DEF Switch, TypeOK, Ops
  <2> QED BY <1>8, <2>1, <2>2, <2>3 DEF Switch, TypeOK, fields, net, ghosts
<1> QED BY <1>1, <1>2, <1>3, <1>4, <1>5, <1>6, <1>7, <1>8 DEF UserStep

\* The commands go on.
LEMMA WaitType ==
    ASSUME TypeOK, WaitForCapture
    PROVE  gaveUp' \in BOOLEAN
BY DEF WaitForCapture, TypeOK

LEMMA CommandKeepsType ==
    ASSUME TypeOK, CommandStep
    PROVE  TypeOK'
<1>1. CASE JoinStore
  <2>2. cmd' \in Commands BY <1>1, CommandType DEF JoinStore, TypeOK, Ops
  <2>1. channel' \in Channels BY <1>1 DEF JoinStore, TypeOK, Commands
  <2> QED BY <1>1, <2>1, <2>2 DEF JoinStore, TypeOK, fields, net, counts, ghosts
<1>2. CASE JoinForgetKey
  <2>1. active' \in BOOLEAN BY <1>2 DEF JoinForgetKey, TypeOK
  <2>2. key' \in Channels \cup {NoKey} BY <1>2 DEF JoinForgetKey
  <2>3. UNCHANGED <<channel, watchShared, fields, reader, recorders, ui, invoked, net, counts,
                    ghosts>>
    BY <1>2 DEF JoinForgetKey
  <2>4. cmd' \in Commands BY <1>2, CommandType DEF JoinForgetKey, TypeOK, Ops
  <2> QED BY <2>1, <2>2, <2>3, <2>4 DEF TypeOK, fields, net, counts, ghosts
<1>3. CASE JoinFinish
  <2>1. gaveUp' \in BOOLEAN BY <1>3, WaitType DEF JoinFinish, TypeOK
  <2>2. sharing' \in BOOLEAN /\ session' \in BOOLEAN /\ capture' \in BOOLEAN
    BY <1>3 DEF JoinFinish, EndShare, TypeOK
  <2>3. watching' \in BOOLEAN /\ watchShared' \in BOOLEAN BY <1>3 DEF JoinFinish
  <2>4. cmd' \in Commands BY <1>3, CommandType DEF JoinFinish, TypeOK, Ops
  <2> QED BY <1>3, <2>1, <2>2, <2>3, <2>4 DEF JoinFinish, TypeOK, net, counts
<1>4. CASE AcceptFinish
  <2>1. gaveUp' \in BOOLEAN BY <1>4, WaitType DEF AcceptFinish, TypeOK
  <2>2. sharing' \in BOOLEAN /\ session' \in BOOLEAN /\ capture' \in BOOLEAN
    BY <1>4 DEF AcceptFinish, EndShare, TypeOK
  <2>3. watching' \in BOOLEAN /\ watchShared' \in BOOLEAN BY <1>4 DEF AcceptFinish
  <2>4. toServer' \in Seq(Messages) BY <1>4, SendType DEF AcceptFinish, Ops, TypeOK, Commands
  <2>5. cmd' \in Commands BY <1>4, CommandType DEF AcceptFinish, TypeOK, Ops
  <2> QED BY <1>4, <2>1, <2>2, <2>3, <2>4, <2>5 DEF AcceptFinish, TypeOK, counts
<1>5. CASE UnshareFinish
  <2>1. gaveUp' \in BOOLEAN BY <1>5, WaitType DEF UnshareFinish
  <2>2. sharing' \in BOOLEAN /\ session' \in BOOLEAN /\ capture' \in BOOLEAN
    BY <1>5 DEF UnshareFinish, EndShare
  <2>3. toServer' \in Seq(Messages) BY <1>5, SendType DEF UnshareFinish, SendUnshare, Ops
  <2>4. ui' \in Ui BY <1>5, UiType DEF UnshareFinish, TypeOK
  <2>5. cmd' \in Commands BY <1>5, CommandType DEF UnshareFinish, TypeOK, Ops
  <2> QED BY <1>5, <2>1, <2>2, <2>3, <2>4, <2>5 DEF UnshareFinish, TypeOK, shared, counts
<1>6. CASE WatchFinish
  <2>1. watching' \in BOOLEAN /\ watchShared' \in BOOLEAN BY <1>6 DEF WatchFinish
  <2>2. cmd' \in Commands BY <1>6, CommandType DEF WatchFinish, TypeOK, Ops
  <2> QED BY <1>6, <2>1, <2>2 DEF WatchFinish, TypeOK, net, counts, ghosts
<1>7. CASE StopCaptureFinish
  <2>1. gaveUp' \in BOOLEAN BY <1>7, WaitType DEF StopCaptureFinish
  <2>2. capture' \in BOOLEAN BY <1>7 DEF StopCaptureFinish
  <2>3. cmd' \in Commands BY <1>7, CommandType DEF StopCaptureFinish, TypeOK, Ops
  <2> QED BY <1>7, <2>1, <2>2, <2>3 DEF StopCaptureFinish, TypeOK, shared, net, counts
<1>8. CASE SwitchFinish
  <2>1. gaveUp' \in BOOLEAN BY <1>8, WaitType DEF SwitchFinish
  <2>2. session' \in BOOLEAN /\ active' \in BOOLEAN BY <1>8 DEF SwitchFinish, TypeOK
  <2>3. recorders' \in Nat BY <1>8 DEF SwitchFinish, TypeOK
  <2>4. cmd' \in Commands BY <1>8, CommandType DEF SwitchFinish, TypeOK, Ops
  <2> QED BY <1>8, <2>1, <2>2, <2>3, <2>4 DEF SwitchFinish, TypeOK, net, counts
<1>9. CASE DisconnectFinish
  <2>1. gaveUp' \in BOOLEAN BY <1>9, WaitType DEF DisconnectFinish
  <2>2. /\ sharing' \in BOOLEAN /\ session' \in BOOLEAN /\ capture' \in BOOLEAN
        /\ watching' \in BOOLEAN
    BY <1>9 DEF DisconnectFinish, EndShare
  <2>3. cmd' \in Commands BY <1>9, CommandType DEF DisconnectFinish, TypeOK, Ops
  <2> QED BY <1>9, <2>1, <2>2, <2>3 DEF DisconnectFinish, TypeOK, shared, counts
<1> QED BY <1>1, <1>2, <1>3, <1>4, <1>5, <1>6, <1>7, <1>8, <1>9 DEF CommandStep

\* The commands the interface issues, and the reconnect.
LEMMA UiKeepsType ==
    ASSUME TypeOK, UiStep
    PROVE  TypeOK'
<1>1. CASE Rejoin
  <2>1. ui.prev \in Channels BY DEF TypeOK, Ui
  <2>2. toServer' \in Seq(Messages) BY <1>1, <2>1, SendType DEF Rejoin, JoinRequest, Ops
  <2>3. cmd' \in Commands BY <1>1, <2>1, CommandType DEF Rejoin, JoinRequest, Ops
  <2> QED BY <1>1, <2>2, <2>3 DEF Rejoin, JoinRequest, TypeOK, shared, fields, ghosts
<1>2. CASE StartCapture
  <2>1. capture' \in BOOLEAN /\ active' \in BOOLEAN BY <1>2 DEF StartCapture, TypeOK
  <2>2. recorders' \in Nat BY <1>2 DEF StartCapture, TypeOK
  <2> QED BY <1>2, <2>1, <2>2 DEF StartCapture, TypeOK, net, counts, ghosts
<1>3. CASE StopCapture
  <2>1. active' \in BOOLEAN BY <1>3 DEF StopCapture
  <2>2. cmd' \in Commands BY <1>3, CommandType DEF StopCapture, Ops
  <2> QED BY <1>3, <2>1, <2>2 DEF StopCapture, TypeOK, fields, net, counts, ghosts
<1>4. CASE Disconnect
  <2>1. active' \in BOOLEAN BY <1>4 DEF Disconnect, StopFlag
  <2>2. cmd' \in Commands BY <1>4, CommandType DEF Disconnect
  <2> QED BY <1>4, <2>1, <2>2 DEF Disconnect, TypeOK, fields, net, counts, ghosts
<1>5. CASE Connect
  <2>1. toClient' \in Seq(Messages) BY <1>5, MsgType DEF Connect
  <2>2. srv' \in Known BY <1>5 DEF Connect, NewSession, Known
  <2>3. /\ active' \in BOOLEAN /\ watchShared' \in BOOLEAN /\ astray' \in BOOLEAN
        /\ leftover' \in BOOLEAN /\ overtaken' \in BOOLEAN
    BY <1>5 DEF Connect
  <2>4. invoked' \subseteq {"start", "stop", "rejoin"} BY <1>5 DEF Connect
  <2> QED BY <1>5, <2>1, <2>2, <2>3, <2>4 DEF Connect, TypeOK, fields, counts
<1> QED BY <1>1, <1>2, <1>3, <1>4, <1>5 DEF UiStep

\* The messages of the server.
LEMMA ReaderKeepsType ==
    ASSUME TypeOK, ReaderStep
    PROVE  TypeOK'
<1> DEFINE first == Head(toClient)
<1>1. ASSUME NEW type, Reading(type)
      PROVE  first \in Messages /\ toClient' \in Seq(Messages)
  BY <1>1, Taken DEF Reading, TypeOK
<1>2. ASSUME NEW u \in Ui, NEW ch \in Channels PROVE UiEnters(u, ch) \in Ui
  <2>1. [u EXCEPT !.chan = ch] \in Ui BY DEF Ui
  <2>2. [u EXCEPT !.chan = ch, !.sharing = FALSE, !.viewers = 0]
          = [[u EXCEPT !.chan = ch] EXCEPT !.sharing = FALSE, !.viewers = 0]
    BY DEF Ui
  <2> QED BY <2>1, <2>2, UiType DEF UiEnters
<1>3. CASE ReadUserList
  <2>1. first.ch \in Channels /\ toClient' \in Seq(Messages)
    BY <1>1, <1>3 DEF ReadUserList, Messages
  <2>2. ui' \in Ui BY <1>2, <1>3, <2>1 DEF ReadUserList, TypeOK
  <2>3. reader' \in Readers BY <1>3, <2>1 DEF ReadUserList, TypeOK, Readers
  <2>4. overtaken' \in BOOLEAN BY <1>3 DEF ReadUserList, TypeOK, Overtakes
  <2>5. channel' \in Channels BY <1>3, <2>1 DEF ReadUserList
  <2> QED BY <1>3, <2>1, <2>2, <2>3, <2>4, <2>5 DEF ReadUserList, TypeOK, fields, counts
<1>4. CASE ReaderLeaves
  <2>1. Resting \in Readers BY DEF Resting, Readers
  <2>2. active' \in BOOLEAN /\ watchShared' \in BOOLEAN BY <1>4 DEF ReaderLeaves
  <2>3. invoked' \subseteq {"start", "stop", "rejoin"} BY <1>4 DEF ReaderLeaves, TypeOK
  <2>4. reader.ch \in Channels BY DEF TypeOK, Readers
  <2>5. [ui EXCEPT !.sharing = @ /\ ~active /\ ~watchShared] \in Ui BY DEF TypeOK, Ui
  <2>6. ui' \in Ui BY <1>2, <1>4, <2>4, <2>5 DEF ReaderLeaves
  <2>7. <<Msg("unshare", Lobby)>> \in Seq(Messages) /\ <<Msg("unwatch", Lobby)>> \in Seq(Messages)
    BY MsgType DEF Ops
  <2>8. toServer' \in Seq(Messages) BY <1>4, <2>7 DEF ReaderLeaves, TypeOK
  <2> QED BY <1>4, <2>1, <2>2, <2>3, <2>6, <2>8 DEF ReaderLeaves, TypeOK, fields, counts, ghosts
<1>5. CASE ReadMediaKey
  <2>1. first.ch \in Channels /\ toClient' \in Seq(Messages)
    BY <1>1, <1>5 DEF ReadMediaKey, Messages
  <2>2. reader' \in Readers BY <1>5, <2>1 DEF ReadMediaKey, TypeOK, Readers
  <2> QED BY <1>5, <2>1, <2>2 DEF ReadMediaKey, TypeOK, shared, fields, counts, ghosts
<1>6. CASE InstallKey
  <2>1. reader' \in Readers /\ key' \in Channels
    BY <1>6 DEF InstallKey, TypeOK, Resting, Readers
  <2>2. overtaken' \in BOOLEAN BY <1>6 DEF InstallKey, Overtakes
  <2> QED BY <1>6, <2>1, <2>2 DEF InstallKey, TypeOK, fields, net, counts
<1>7. CASE ReadViewers
  <2>1. first.n \in 0..1 /\ toClient' \in Seq(Messages)
    BY <1>1, <1>7 DEF ReadViewers, Messages
  <2>2. ui' \in Ui BY <1>7, <2>1 DEF ReadViewers, TypeOK, Ui
  <2>3. invoked' \subseteq {"start", "stop", "rejoin"} BY <1>7 DEF ReadViewers, TypeOK
  <2> QED BY <1>7, <2>1, <2>2, <2>3 DEF ReadViewers, TypeOK, shared, fields, counts, ghosts
<1> QED BY <1>3, <1>4, <1>5, <1>6, <1>7 DEF ReaderStep

\* The messages of the client.
LEMMA ServerKeepsType ==
    ASSUME TypeOK, ServerStep
    PROVE  TypeOK'
<1> DEFINE first == Head(toServer)
<1>1. ASSUME NEW types, Serving(types)
      PROVE  first \in Messages /\ first.ch \in Channels /\ toServer' \in Seq(Messages)
  BY <1>1, Taken DEF Serving, TypeOK, Messages
<1>2. srv.shares \subseteq Channels /\ srv.chan \in Channels BY DEF TypeOK, Known
<1>3. CASE ServerMoves
  <2>1. first.ch \in Channels /\ toServer' \in Seq(Messages) BY <1>1, <1>3 DEF ServerMoves
  <2>2. srv' \in Known
    <3> DEFINE leaves == srv.chan # first.ch /\ srv.chan # Lobby
               s1 == [srv EXCEPT !.chan = first.ch]
               s2 == [s1 EXCEPT !.sharing = @ /\ ~leaves]
               s3 == [s2 EXCEPT !.shares = IF leaves THEN @ \ {srv.chan} ELSE @]
               s4 == [s3 EXCEPT !.watching = @ /\ ~leaves]
    <3>1. s1 \in Known BY <2>1 DEF TypeOK, Known
    <3>2. s2 \in Known BY <3>1 DEF Known
    <3>3. s3 \in Known BY <3>2 DEF Known
    <3>4. s4 \in Known BY <3>3 DEF Known
    <3>5. srv' = s4 BY <1>3 DEF ServerMoves, TypeOK, Known
    <3> QED BY <3>4, <3>5
  <2>3. toClient' \in Seq(Messages)
    <3>1. Msg("user_list", first.ch) \in Messages /\ Msg("media_key", first.ch) \in Messages
      BY <2>1, MsgType
    <3>2. Welcome(first.ch) \in Seq(Messages) BY <3>1 DEF Welcome
    <3> QED BY <1>3, <3>2 DEF ServerMoves, TypeOK
  <2>4. leftover' \in BOOLEAN /\ astray' \in BOOLEAN BY <1>3 DEF ServerMoves, TypeOK
  <2> QED BY <1>3, <2>1, <2>2, <2>3, <2>4 DEF ServerMoves, TypeOK, shared, fields, tasks, counts
<1>4. CASE ServerRefuses
  <2>1. toServer' \in Seq(Messages) BY <1>1, <1>4 DEF ServerRefuses
  <2>2. leftover' \in BOOLEAN /\ astray' \in BOOLEAN BY <1>4 DEF ServerRefuses, TypeOK
  <2> QED BY <1>4, <2>1, <2>2 DEF ServerRefuses, TypeOK, shared, fields, tasks, counts
<1>5. CASE ServerShares
  <2>1. toServer' \in Seq(Messages) BY <1>1, <1>5 DEF ServerShares
  <2>2. [srv EXCEPT !.sharing = TRUE, !.shares = @ \cup {srv.chan}] \in Known
    <3>1. [srv EXCEPT !.sharing = TRUE] \in Known BY DEF TypeOK, Known
    <3>2. \A w \in Known : [w EXCEPT !.shares = @ \cup {srv.chan}] \in Known
      BY <1>2 DEF Known
    <3>3. [srv EXCEPT !.sharing = TRUE, !.shares = @ \cup {srv.chan}]
            = [[srv EXCEPT !.sharing = TRUE] EXCEPT !.shares = @ \cup {srv.chan}]
      BY DEF TypeOK, Known
    <3> QED BY <3>1, <3>2, <3>3
  <2>3. srv' \in Known BY <1>5, <2>2 DEF ServerShares, TypeOK
  <2> QED BY <1>5, <2>1, <2>3 DEF ServerShares, TypeOK, shared, fields, tasks, counts, ghosts
<1>6. CASE ServerUnshares
  <2>1. toServer' \in Seq(Messages) BY <1>1, <1>6 DEF ServerUnshares
  <2>2. [srv EXCEPT !.sharing = FALSE] \in Known BY DEF TypeOK, Known
  <2>3. \A w \in Known : [w EXCEPT !.shares = @ \ {srv.chan}] \in Known BY DEF Known
  <2>4. [srv EXCEPT !.sharing = FALSE, !.shares = @ \ {srv.chan}]
          = [[srv EXCEPT !.sharing = FALSE] EXCEPT !.shares = @ \ {srv.chan}]
    BY DEF TypeOK, Known
  <2>5. srv' \in Known BY <1>6, <2>2, <2>3, <2>4 DEF ServerUnshares
  <2> QED BY <1>6, <2>1, <2>5 DEF ServerUnshares, TypeOK, shared, fields, tasks, counts, ghosts
<1>7. CASE ServerWatches
  <2>1. toServer' \in Seq(Messages) BY <1>1, <1>7 DEF ServerWatches
  <2>2. [srv EXCEPT !.watching = @ \/ srv.chan # Lobby] \in Known
    <3>1. (srv.watching \/ srv.chan # Lobby) \in BOOLEAN OBVIOUS
    <3> QED BY <3>1 DEF TypeOK, Known
  <2>3. srv' \in Known BY <1>7, <2>2 DEF ServerWatches, TypeOK
  <2> QED BY <1>7, <2>1, <2>3 DEF ServerWatches, TypeOK, shared, fields, tasks, counts, ghosts
<1>8. CASE ServerUnwatches
  <2>1. toServer' \in Seq(Messages) BY <1>1, <1>8 DEF ServerUnwatches
  <2>2. srv' \in Known BY <1>8 DEF ServerUnwatches, TypeOK, Known
  <2> QED BY <1>8, <2>1, <2>2 DEF ServerUnwatches, TypeOK, shared, fields, tasks, counts, ghosts
<1> QED BY <1>3, <1>4, <1>5, <1>6, <1>7, <1>8 DEF ServerStep

\* Capture tasks that end, and what others do to the client.
LEMMA OthersKeepType ==
    ASSUME TypeOK, RecorderEnds \/ Kick \/ ViewersChange \/ Lose
    PROVE  TypeOK'
<1>1. CASE RecorderEnds
  <2>1. recorders' \in Nat BY <1>1 DEF RecorderEnds, MayEnd, TypeOK
  <2> QED BY <1>1, <2>1 DEF RecorderEnds, TypeOK, shared, fields, net, counts, ghosts
<1>2. CASE Kick
  <2>1. srv' \in Known BY <1>2 DEF Kick, TypeOK, Known
  <2>2. toClient' \in Seq(Messages) BY <1>2, MsgType, Queued DEF Kick, TypeOK
  <2>3. leftover' \in BOOLEAN /\ astray' \in BOOLEAN BY <1>2 DEF Kick, TypeOK
  <2>4. pushes' \in 0..MaxPushes BY <1>2 DEF Kick, TypeOK
  <2> QED BY <1>2, <2>1, <2>2, <2>3, <2>4 DEF Kick, TypeOK, shared, fields, tasks
<1>3. CASE ViewersChange
  <2>1. \A n \in 0..1 : [Msg("viewers", srv.chan) EXCEPT !.n = n] \in Messages
    <3>1. srv.chan \in Channels BY DEF TypeOK, Known
    <3> QED BY <3>1 DEF Msg, Messages
  <2>2. toClient' \in Seq(Messages) BY <1>3, <2>1, Queued DEF ViewersChange, TypeOK
  <2>3. pushes' \in 0..MaxPushes BY <1>3 DEF ViewersChange, TypeOK
  <2> QED BY <1>3, <2>2, <2>3 DEF ViewersChange, TypeOK, shared, fields, tasks, ghosts
<1>4. CASE Lose
  <2>1. srv' \in Known BY <1>4 DEF Lose, NewSession, Known
  <2>2. [ui EXCEPT !.prev = ui.chan] \in Ui BY DEF TypeOK, Ui
  <2>3. [ui EXCEPT !.prev = ui.chan, !.sharing = FALSE, !.viewers = 0]
          = [[ui EXCEPT !.prev = ui.chan] EXCEPT !.sharing = FALSE, !.viewers = 0]
    BY DEF TypeOK, Ui
  <2>4. ui' \in Ui BY <1>4, <2>2, <2>3, UiType DEF Lose
  <2>5. losses' \in 0..MaxLosses BY <1>4 DEF Lose, TypeOK
  <2> QED BY <1>4, <2>1, <2>4, <2>5 DEF Lose, TypeOK, shared, fields, ghosts
<1> QED BY <1>1, <1>2, <1>3, <1>4

----------------------------------------------------------------------------
\* A command that let go of the capture has seen no task run, or gave up.
LEMMA Waited ==
    ASSUME IInv, WaitForCapture, ~gaveUp'
    PROVE  recorders = 0 /\ ~gaveUp
BY DEF IInv, TypeOK, Recorders, WaitForCapture

LEMMA RecordersKept ==
    ASSUME IInv, Next
    PROVE  Recorders'
<1> USE DEF IInv
<1>1. CASE UNCHANGED <<recorders, capture, gaveUp>>
  BY <1>1 DEF Recorders
<1>2. CASE JoinFinish \/ AcceptFinish
  <2>1. CASE sharing
    BY <1>2, <2>1, Waited DEF JoinFinish, AcceptFinish, Recorders, TypeOK
  <2>2. CASE ~sharing
    BY <1>2, <2>2 DEF JoinFinish, AcceptFinish, Recorders
  <2> QED BY <2>1, <2>2
<1>3. CASE UnshareFinish \/ StopCaptureFinish \/ DisconnectFinish
  BY <1>3, Waited DEF UnshareFinish, StopCaptureFinish, DisconnectFinish, Recorders, TypeOK,
                      shared
<1>4. CASE SwitchFinish
  BY <1>4, Waited DEF SwitchFinish, Recorders, TypeOK
<1>5. CASE StartCapture
  BY <1>5 DEF StartCapture, Recorders, TypeOK, ghosts
<1>6. CASE RecorderEnds
  BY <1>6 DEF RecorderEnds, MayEnd, Recorders, TypeOK, fields, ghosts
<1>7. CASE Connect
  BY <1>7 DEF Connect, Recorders
<1>8. CASE UserStep
  BY <1>1, <1>8 DEF UserStep, Join, JoinRequest, Accept, Create, Share, Unshare, Watch, Unwatch,
                    Switch, fields, tasks, ghosts
<1>9. CASE JoinStore \/ JoinForgetKey \/ WatchFinish \/ Rejoin \/ StopCapture \/ Disconnect
  BY <1>1, <1>9 DEF JoinStore, JoinForgetKey, WatchFinish, Rejoin, JoinRequest, StopCapture,
                    Disconnect, fields, ghosts
<1>10. CASE ReaderStep
  BY <1>1, <1>10 DEF ReaderStep, ReadUserList, ReaderLeaves, ReadMediaKey, InstallKey,
                     ReadViewers, fields, ghosts
<1>11. CASE ServerStep \/ Kick \/ ViewersChange \/ Lose
  BY <1>1, <1>11 DEF ServerStep, ServerMoves, ServerRefuses, ServerShares, ServerUnshares,
                     ServerWatches, ServerUnwatches, Kick, ViewersChange, Lose, fields, tasks,
                     ghosts
<1> QED BY <1>2, <1>3, <1>4, <1>5, <1>6, <1>7, <1>8, <1>9, <1>10, <1>11
        DEF Next, CommandStep, UiStep

LEMMA IInvStep == IInv /\ [Next]_vars => IInv'
<1> SUFFICES ASSUME IInv, [Next]_vars PROVE IInv' OBVIOUS
<1>1. CASE Next
  <2>1. TypeOK'
    BY <1>1, UserKeepsType, CommandKeepsType, UiKeepsType, ReaderKeepsType, ServerKeepsType,
       OthersKeepType DEF Next, IInv
  <2> QED BY <1>1, <2>1, RecordersKept DEF IInv
<1>2. CASE UNCHANGED vars
  BY <1>2 DEF IInv, TypeOK, Recorders, vars, shared, fields, tasks, net, counts, ghosts
<1> QED BY <1>1, <1>2

----------------------------------------------------------------------------
LEMMA IInvAlways == Spec => []IInv
BY IInvInit, IInvStep, PTL DEF Spec

\* The variables, and the messages in both queues, stay in their ranges.
THEOREM TypeCorrect == Spec => []TypeOK
<1>1. IInv => TypeOK BY DEF IInv
<1> QED BY <1>1, IInvAlways, PTL

\* At most one task records the screen, unless a command stopped waiting for one
\* that would not end: start_screen_capture, switch_screen_share_source and the
\* commands that end a share never leave two of them running.
THEOREM OneRecorderAtATime == Spec => []OneRecorder
<1>1. IInv => OneRecorder BY DEF IInv, Recorders, OneRecorder
<1> QED BY <1>1, IInvAlways, PTL

----------------------------------------------------------------------------
(* What the client believes of its channel.  The answers are still in the  *)
(* queue to the client, the requests in the one to the server.             *)

\* A user list is in the queue.
Listed(q) == \E i \in 1..Len(q) : q[i].type = "user_list"

\* A media key of x is in the queue, and no user list after it.
NewKey(q, x) ==
    \E i \in 1..Len(q) : /\ q[i].type = "media_key" /\ q[i].ch = x
                         /\ \A j \in (i + 1)..Len(q) : q[j].type # "user_list"

\* The last user list in the queue, if there is one, is of x, and the media key of x
\* follows it unless x is the lobby.
LastListed(q, x) ==
    \A i \in 1..Len(q) :
        q[i].type = "user_list" /\ (\A j \in (i + 1)..Len(q) : q[j].type # "user_list") =>
            /\ q[i].ch = x
            /\ x = Lobby \/ \E k \in (i + 1)..Len(q) : q[k].type = "media_key" /\ q[k].ch = x

\* A join is in the queue; and no request to move is behind the last one, for ch.
Asks(q) == \E i \in 1..Len(q) : q[i].type = "join"
LastAsked(q, ch) ==
    \A i \in 1..Len(q) :
        q[i].type \in Moving /\ (\A j \in (i + 1)..Len(q) : q[j].type # "join") =>
            q[i].type = "join" /\ q[i].ch = ch

JoinAt(ats) == cmd.op = "join" /\ cmd.at \in ats

\* A broken link carries nothing, and the reader is done with what it read; only
\* a broken link is taken down, and a new one comes when that is done.
Cut ==
    /\ link # "up" => toServer = <<>> /\ toClient = <<>> /\ reader = Resting
    /\ link = "retry" => cmd = Idle
    /\ cmd.op = "disconnect" => link = "lost"

\* The server has the client where the last list says; the keys behind it are of that
\* channel, and so is what the reader is at when no list is left.
Told ==
    link = "up" =>
        /\ LastListed(toClient, srv.chan)
        /\ \A x \in Channels : NewKey(toClient, x) => x = srv.chan
        /\ ~Listed(toClient) /\ reader.at \in {"changed", "install"} => reader.ch = srv.chan
        /\ ~Listed(toClient) /\ reader.at = "changed" =>
             srv.chan = Lobby \/ NewKey(toClient, srv.chan)

\* The join that the command sent, and did not record yet, is the last to be asked for.
Asked == JoinAt({"sent"}) => LastAsked(toServer, cmd.ch)

\* A key that will be taken for x, unless a list comes first.
KeyComes(x) ==
    \/ NewKey(toClient, x)
    \/ reader.at = "install" /\ reader.ch = x /\ ~Listed(toClient)

\* When every join was answered: a key under way is for the channel the client
\* records, now or at the next step of its join; the answer has not been read
\* before the join was recorded, unless it overtook; and when all lists are read the
\* client is where the server has it, with the key or one about to come.
Answered ==
    link = "up" /\ ~Asks(toServer) /\ ~astray =>
        /\ JoinAt({"sent"}) => \A x \in Channels : KeyComes(x) => x = cmd.ch
        /\ ~JoinAt({"sent"}) /\ ~Listed(toClient) => \A x \in Channels : KeyComes(x) => x = channel
        /\ JoinAt({"sent", "stored"}) /\ ~overtaken => Listed(toClient)
        /\ ~JoinAt({"sent", "stored"}) /\ ~overtaken /\ ~Listed(toClient) =>
             /\ channel = srv.chan
             /\ channel = Lobby \/ key = channel \/ KeyComes(channel)

View == Cut /\ Told /\ Asked /\ Answered

\* A message put at the end of the queue.
LEMMA Appended ==
    ASSUME NEW q \in Seq(Messages), NEW m \in Messages
    PROVE  /\ Listed(Append(q, m)) <=> Listed(q) \/ m.type = "user_list"
           /\ \A x : NewKey(Append(q, m), x) <=>
                \/ m.type = "media_key" /\ m.ch = x
                \/ m.type # "user_list" /\ NewKey(q, x)
           /\ \A x : m.type # "user_list" /\ LastListed(q, x) => LastListed(Append(q, m), x)
           /\ Asks(Append(q, m)) <=> Asks(q) \/ m.type = "join"
           /\ \A ch : m.type \notin Moving /\ LastAsked(q, ch) => LastAsked(Append(q, m), ch)
           /\ m.type = "join" => LastAsked(Append(q, m), m.ch)
<1> DEFINE r == Append(q, m)
           n == Len(q)
<1>1. /\ r \in Seq(Messages) /\ Len(r) = n + 1 /\ n \in Nat /\ r[n + 1] = m
      /\ \A i \in 1..n : r[i] = q[i]
  OBVIOUS
<1> HIDE DEF r
<1>2. Listed(r) <=> Listed(q) \/ m.type = "user_list"
  BY <1>1 DEF Listed
<1>3. ASSUME NEW x
      PROVE  NewKey(r, x) <=> \/ m.type = "media_key" /\ m.ch = x
                              \/ m.type # "user_list" /\ NewKey(q, x)
  <2>1. CASE m.type = "media_key" /\ m.ch = x
    <3>1. \A j \in ((n + 1) + 1)..Len(r) : FALSE BY <1>1
    <3>2. n + 1 \in 1..Len(r) BY <1>1
    <3> QED BY <1>1, <2>1, <3>1, <3>2 DEF NewKey
  <2>2. ASSUME NewKey(r, x), ~(m.type = "media_key" /\ m.ch = x)
        PROVE  m.type # "user_list" /\ NewKey(q, x)
    <3>1. PICK i \in 1..Len(r) : /\ r[i].type = "media_key" /\ r[i].ch = x
                                 /\ \A j \in (i + 1)..Len(r) : r[j].type # "user_list"
      BY <2>2 DEF NewKey
    <3>2. i \in 1..n BY <1>1, <2>2, <3>1
    <3>3. n + 1 \in (i + 1)..Len(r) BY <1>1, <3>2
    <3>4. m.type # "user_list" BY <1>1, <3>1, <3>3
    <3>5. \A j \in (i + 1)..n : j \in (i + 1)..Len(r) /\ r[j] = q[j] BY <1>1, <3>2
    <3>6. NewKey(q, x) BY <1>1, <3>1, <3>2, <3>5 DEF NewKey
    <3> QED BY <3>4, <3>6
  <2>3. ASSUME NewKey(q, x), m.type # "user_list" PROVE NewKey(r, x)
    <3>1. PICK i \in 1..n : /\ q[i].type = "media_key" /\ q[i].ch = x
                            /\ \A j \in (i + 1)..n : q[j].type # "user_list"
      BY <2>3 DEF NewKey
    <3>2. i \in 1..Len(r) /\ r[i] = q[i] BY <1>1
    <3>3. ASSUME NEW j \in (i + 1)..Len(r) PROVE r[j].type # "user_list"
      <4>1. j = n + 1 \/ j \in (i + 1)..n BY <1>1
      <4>2. ASSUME j \in (i + 1)..n PROVE r[j] = q[j] BY <1>1, <4>2
      <4> QED BY <1>1, <2>3, <3>1, <4>1, <4>2
    <3> QED BY <3>1, <3>2, <3>3 DEF NewKey
  <2> QED BY <2>1, <2>2, <2>3
<1>4. ASSUME NEW x, m.type # "user_list", LastListed(q, x) PROVE LastListed(r, x)
  <2> SUFFICES ASSUME NEW i \in 1..Len(r), r[i].type = "user_list",
                      \A j \in (i + 1)..Len(r) : r[j].type # "user_list"
               PROVE  /\ r[i].ch = x
                      /\ x = Lobby \/ \E k \in (i + 1)..Len(r) :
                                        r[k].type = "media_key" /\ r[k].ch = x
    BY DEF LastListed
  <2>1. i \in 1..n BY <1>1, <1>4
  <2>2. \A j \in (i + 1)..n : j \in (i + 1)..Len(r) /\ r[j] = q[j] BY <1>1, <2>1
  <2>3. /\ q[i].ch = x
        /\ x = Lobby \/ \E k \in (i + 1)..n : q[k].type = "media_key" /\ q[k].ch = x
    BY <1>1, <1>4, <2>1, <2>2 DEF LastListed
  <2> QED BY <1>1, <2>1, <2>2, <2>3
<1>5. Asks(r) <=> Asks(q) \/ m.type = "join"
  BY <1>1 DEF Asks
<1>6. ASSUME NEW ch, m.type \notin Moving, LastAsked(q, ch) PROVE LastAsked(r, ch)
  <2> SUFFICES ASSUME NEW i \in 1..Len(r), r[i].type \in Moving,
                      \A j \in (i + 1)..Len(r) : r[j].type # "join"
               PROVE  r[i].type = "join" /\ r[i].ch = ch
    BY DEF LastAsked
  <2>1. i \in 1..n BY <1>1, <1>6
  <2>2. \A j \in (i + 1)..n : j \in (i + 1)..Len(r) /\ r[j] = q[j] BY <1>1, <2>1
  <2> QED BY <1>1, <1>6, <2>1, <2>2 DEF LastAsked
<1>7. ASSUME m.type = "join" PROVE LastAsked(r, m.ch)
  <2> SUFFICES ASSUME NEW i \in 1..Len(r), r[i].type \in Moving,
                      \A j \in (i + 1)..Len(r) : r[j].type # "join"
               PROVE  r[i].type = "join" /\ r[i].ch = m.ch
    BY DEF LastAsked
  <2>1. i \notin 1..n
    <3> SUFFICES ASSUME i \in 1..n PROVE FALSE OBVIOUS
    <3>1. n + 1 \in (i + 1)..Len(r) BY <1>1
    <3> QED BY <1>1, <1>7, <3>1
  <2> QED BY <1>1, <1>7, <2>1
<1> QED BY <1>2, <1>3, <1>4, <1>5, <1>6, <1>7 DEF r

\* A message taken from the front.
LEMMA Removed ==
    ASSUME NEW q \in Seq(Messages), q # <<>>
    PROVE  /\ Listed(Tail(q)) => Listed(q)
           /\ Listed(q) => Head(q).type = "user_list" \/ Listed(Tail(q))
           /\ \A x : NewKey(Tail(q), x) => NewKey(q, x)
           /\ \A x : NewKey(q, x) =>
                \/ NewKey(Tail(q), x)
                \/ Head(q).type = "media_key" /\ Head(q).ch = x /\ ~Listed(Tail(q))
           /\ Head(q).type = "media_key" /\ ~Listed(Tail(q)) => NewKey(q, Head(q).ch)
           /\ \A x : LastListed(q, x) => LastListed(Tail(q), x)
           /\ \A x : LastListed(q, x) /\ Head(q).type = "user_list" /\ ~Listed(Tail(q)) =>
                Head(q).ch = x /\ (x = Lobby \/ NewKey(Tail(q), x))
           /\ Asks(Tail(q)) => Asks(q)
           /\ Asks(q) => Head(q).type = "join" \/ Asks(Tail(q))
           /\ \A ch : LastAsked(q, ch) => LastAsked(Tail(q), ch)
           /\ \A ch : LastAsked(q, ch) /\ Head(q).type \in Moving /\ ~Asks(Tail(q)) =>
                Head(q).type = "join" /\ Head(q).ch = ch
<1> DEFINE r == Tail(q)
           n == Len(r)
<1>1. /\ r \in Seq(Messages) /\ Len(q) = n + 1 /\ n \in Nat /\ Head(q) = q[1]
      /\ \A i \in 1..n : r[i] = q[i + 1]
  OBVIOUS
<1> HIDE DEF r, n
<1>2. \A i \in 1..n : i + 1 \in 1..Len(q) BY <1>1
<1>3. \A i \in 1..Len(q) : i = 1 \/ (i - 1 \in 1..n /\ q[i] = r[i - 1]) BY <1>1
<1>4. \A i \in 0..n : \A j \in (i + 2)..Len(q) : j - 1 \in (i + 1)..n /\ q[j] = r[j - 1] BY <1>1
<1>5. \A i \in 0..n : \A j \in (i + 1)..n : j + 1 \in (i + 2)..Len(q) /\ r[j] = q[j + 1] BY <1>1
<1>6. n = Len(r) BY DEF n
<1>7. Listed(r) => Listed(q) BY <1>1, <1>2, <1>6 DEF Listed
<1>8. Listed(q) => q[1].type = "user_list" \/ Listed(r) BY <1>3, <1>6 DEF Listed
<1>9. Asks(r) => Asks(q) BY <1>1, <1>2, <1>6 DEF Asks
<1>10. Asks(q) => q[1].type = "join" \/ Asks(r) BY <1>3, <1>6 DEF Asks
<1>11. ASSUME NEW x, NewKey(r, x) PROVE NewKey(q, x)
  <2>1. PICK i \in 1..n : /\ r[i].type = "media_key" /\ r[i].ch = x
                          /\ \A j \in (i + 1)..n : r[j].type # "user_list"
    BY <1>6, <1>11 DEF NewKey
  <2>2. ASSUME NEW j \in ((i + 1) + 1)..Len(q) PROVE q[j].type # "user_list"
    <3>1. i \in 0..n /\ (i + 1) + 1 = i + 2 BY <1>1
    <3>2. j - 1 \in (i + 1)..n /\ q[j] = r[j - 1] BY <1>4, <3>1
    <3> QED BY <3>2, <2>1
  <2> QED BY <1>1, <1>2, <2>1, <2>2 DEF NewKey
<1>12. ASSUME NEW x, NewKey(q, x)
       PROVE  NewKey(r, x) \/ (q[1].type = "media_key" /\ q[1].ch = x /\ ~Listed(r))
  <2>1. PICK i \in 1..Len(q) : /\ q[i].type = "media_key" /\ q[i].ch = x
                               /\ \A j \in (i + 1)..Len(q) : q[j].type # "user_list"
    BY <1>12 DEF NewKey
  <2>2. CASE i = 1
    <3>1. \A j \in 1..n : r[j].type # "user_list" BY <1>1, <2>1, <2>2
    <3> QED BY <1>6, <2>1, <2>2, <3>1 DEF Listed
  <2>3. CASE i # 1
    <3>1. i - 1 \in 1..n /\ q[i] = r[i - 1] BY <1>3, <2>3
    <3>2. \A j \in ((i - 1) + 1)..n : r[j].type # "user_list" BY <1>1, <2>1, <3>1
    <3> QED BY <1>6, <2>1, <3>1, <3>2 DEF NewKey
  <2> QED BY <2>2, <2>3
<1>13. ASSUME q[1].type = "media_key", ~Listed(r) PROVE NewKey(q, q[1].ch)
  <2>1. ASSUME NEW j \in (1 + 1)..Len(q) PROVE q[j].type # "user_list"
    <3>1. j \in 1..Len(q) /\ j # 1 BY <1>1
    <3>2. j - 1 \in 1..n /\ q[j] = r[j - 1] BY <1>3, <3>1
    <3> QED BY <1>6, <1>13, <3>2 DEF Listed
  <2>2. 1 \in 1..Len(q) BY <1>1
  <2> QED BY <1>13, <2>1, <2>2 DEF NewKey
<1>14. ASSUME NEW x, LastListed(q, x) PROVE LastListed(r, x)
  <2> SUFFICES ASSUME NEW i \in 1..n, r[i].type = "user_list",
                      \A j \in (i + 1)..n : r[j].type # "user_list"
               PROVE  /\ r[i].ch = x
                      /\ x = Lobby \/ \E k \in (i + 1)..n : r[k].type = "media_key" /\ r[k].ch = x
    BY <1>6 DEF LastListed
  <2>1. ASSUME NEW j \in ((i + 1) + 1)..Len(q) PROVE q[j].type # "user_list"
    <3>1. i \in 0..n /\ (i + 1) + 1 = i + 2 BY <1>1
    <3>2. j - 1 \in (i + 1)..n /\ q[j] = r[j - 1] BY <1>4, <3>1
    <3> QED BY <3>2
  <2>2. /\ q[i + 1].ch = x
        /\ x = Lobby \/ \E k \in ((i + 1) + 1)..Len(q) : q[k].type = "media_key" /\ q[k].ch = x
    BY <1>1, <1>2, <1>14, <2>1 DEF LastListed
  <2>3. ASSUME NEW k \in ((i + 1) + 1)..Len(q) PROVE k - 1 \in (i + 1)..n /\ q[k] = r[k - 1]
    BY <1>1
  <2> QED BY <1>1, <2>2, <2>3
<1>15. ASSUME NEW x, LastListed(q, x), q[1].type = "user_list", ~Listed(r)
       PROVE  q[1].ch = x /\ (x = Lobby \/ NewKey(r, x))
  <2>1. \A j \in 1..n : r[j].type # "user_list" BY <1>6, <1>15 DEF Listed
  <2>2. \A j \in (1 + 1)..Len(q) : j - 1 \in 1..n /\ q[j] = r[j - 1] BY <1>1
  <2>3. 1 \in 1..Len(q) BY <1>1
  <2>4. /\ q[1].ch = x
        /\ x = Lobby \/ \E k \in (1 + 1)..Len(q) : q[k].type = "media_key" /\ q[k].ch = x
    BY <1>15, <2>1, <2>2, <2>3 DEF LastListed
  <2>5. ASSUME NEW k \in (1 + 1)..Len(q), q[k].type = "media_key", q[k].ch = x
        PROVE  NewKey(r, x)
    <3>1. k - 1 \in 1..n /\ q[k] = r[k - 1] BY <2>2
    <3>2. \A j \in ((k - 1) + 1)..n : r[j].type # "user_list" BY <1>1, <2>1, <3>1
    <3> QED BY <1>6, <2>5, <3>1, <3>2 DEF NewKey
  <2> QED BY <2>4, <2>5
<1>16. ASSUME NEW ch, LastAsked(q, ch) PROVE LastAsked(r, ch)
  <2> SUFFICES ASSUME NEW i \in 1..n, r[i].type \in Moving,
                      \A j \in (i + 1)..n : r[j].type # "join"
               PROVE  r[i].type = "join" /\ r[i].ch = ch
    BY <1>6 DEF LastAsked
  <2>1. ASSUME NEW j \in ((i + 1) + 1)..Len(q) PROVE q[j].type # "join"
    <3>1. i \in 0..n /\ (i + 1) + 1 = i + 2 BY <1>1
    <3>2. j - 1 \in (i + 1)..n /\ q[j] = r[j - 1] BY <1>4, <3>1
    <3> QED BY <3>2
  <2>2. i + 1 \in 1..Len(q) /\ q[i + 1].type \in Moving BY <1>1, <1>2
  <2>3. q[i + 1].type = "join" /\ q[i + 1].ch = ch BY <1>16, <2>1, <2>2 DEF LastAsked
  <2> QED BY <1>1, <2>3
<1>17. ASSUME NEW ch, LastAsked(q, ch), q[1].type \in Moving, ~Asks(r)
       PROVE  q[1].type = "join" /\ q[1].ch = ch
  <2>1. ASSUME NEW j \in (1 + 1)..Len(q) PROVE q[j].type # "join"
    <3>1. j \in 1..Len(q) /\ j # 1 BY <1>1
    <3>2. j - 1 \in 1..n /\ q[j] = r[j - 1] BY <1>3, <3>1
    <3> QED BY <1>6, <1>17, <3>2 DEF Asks
  <2>2. 1 \in 1..Len(q) BY <1>1
  <2> QED BY <1>17, <2>1, <2>2 DEF LastAsked
<1> QED BY <1>1, <1>7, <1>8, <1>9, <1>10, <1>11, <1>12, <1>13, <1>14, <1>15, <1>16, <1>17 DEF r

\* The answers to a move, and to a kick.
LEMMA Answer ==
    ASSUME NEW q \in Seq(Messages), NEW ch \in Channels
    PROVE  /\ LastListed(q \o Welcome(ch), ch) /\ Listed(q \o Welcome(ch))
           /\ \A x : NewKey(q \o Welcome(ch), x) <=> x = ch
           /\ ch = Lobby => LastListed(Append(q, Msg("user_list", ch)), ch)
<1> DEFINE list == Msg("user_list", ch)
           keyed == Msg("media_key", ch)
           r == Append(q, list)
           n == Len(q)
<1>1. /\ list \in Messages /\ keyed \in Messages
      /\ list.type = "user_list" /\ list.ch = ch /\ keyed.type = "media_key" /\ keyed.ch = ch
  BY MsgType DEF Msg
<1> HIDE DEF list, keyed
<1>2. /\ r \in Seq(Messages) /\ Len(r) = n + 1 /\ n \in Nat /\ r[n + 1] = list
      /\ \A i \in 1..n : r[i] = q[i]
  BY <1>1
<1>3. q \o Welcome(ch) = Append(r, keyed)
  <2>1. q \o <<list, keyed>> = Append(Append(q, list), keyed) BY <1>1
  <2> QED BY <2>1 DEF Welcome, list, keyed, r
<1> DEFINE s == Append(r, keyed)
<1>4. /\ s \in Seq(Messages) /\ Len(s) = n + 2 /\ s[n + 1] = list /\ s[n + 2] = keyed
  BY <1>1, <1>2
<1>5. Listed(s) /\ \A x : NewKey(s, x) <=> x = ch
  BY <1>1, <1>2, Appended
<1>6. ASSUME NEW t, Len(t) \in {n + 1, n + 2}, t[n + 1] = list,
             NEW i \in 1..Len(t), t[i].type = "user_list",
             \A j \in (i + 1)..Len(t) : t[j].type # "user_list"
      PROVE  i >= n + 1
  <2> SUFFICES ASSUME i < n + 1 PROVE FALSE BY <1>2
  <2>1. n + 1 \in (i + 1)..Len(t) BY <1>2, <1>6
  <2> QED BY <1>1, <1>6, <2>1
<1> HIDE DEF r, s
<1>7. LastListed(s, ch)
  <2> SUFFICES ASSUME NEW i \in 1..Len(s), s[i].type = "user_list",
                      \A j \in (i + 1)..Len(s) : s[j].type # "user_list"
               PROVE  s[i].ch = ch /\ \E k \in (i + 1)..Len(s) :
                                         s[k].type = "media_key" /\ s[k].ch = ch
    BY DEF LastListed
  <2>1. i = n + 1 BY <1>1, <1>2, <1>4, <1>6
  <2>2. n + 2 \in (i + 1)..Len(s) BY <1>2, <1>4, <2>1
  <2> QED BY <1>1, <1>4, <2>1, <2>2
<1>8. ch = Lobby => LastListed(r, ch)
  <2> SUFFICES ASSUME NEW i \in 1..Len(r), r[i].type = "user_list",
                      \A j \in (i + 1)..Len(r) : r[j].type # "user_list"
               PROVE  r[i].ch = ch
    BY DEF LastListed
  <2>1. i = n + 1 BY <1>2, <1>6
  <2> QED BY <1>1, <1>2, <2>1
<1> QED BY <1>3, <1>5, <1>7, <1>8 DEF r, s, list

LEMMA EmptyQueue ==
    /\ ~Listed(<<>>) /\ ~Asks(<<>>)
    /\ \A x : ~NewKey(<<>>, x) /\ LastAsked(<<>>, x)
BY DEF Listed, Asks, NewKey, LastAsked

\* What a client that has just connected finds.
LEMMA FirstAnswer ==
    LET q == <<Msg("user_list", Lobby), Msg("media_key", Lobby)>> IN
    LastListed(q, Lobby) /\ Listed(q) /\ \A x : NewKey(q, x) <=> x = Lobby
<1> DEFINE q == <<>> \o Welcome(Lobby)
<1>1. <<>> \in Seq(Messages) /\ Lobby \in Channels BY EmptySeq
<1>2. q = <<Msg("user_list", Lobby), Msg("media_key", Lobby)>>
  BY DEF Welcome
<1>3. LastListed(q, Lobby) /\ Listed(q) /\ \A x : NewKey(q, x) <=> x = Lobby
  BY <1>1, Answer
<1> QED BY <1>2, <1>3

LEMMA ViewInit == Init => View
<1> SUFFICES ASSUME Init PROVE View OBVIOUS
<1>1. cmd = Idle /\ reader = Resting /\ link = "up" /\ srv.chan = Lobby BY DEF Init, NewSession
<1>2. /\ LastListed(toClient, Lobby) /\ Listed(toClient)
      /\ \A x : NewKey(toClient, x) <=> x = Lobby
  BY FirstAnswer DEF Init
<1> QED BY <1>1, <1>2 DEF View, Cut, Told, Asked, Answered, JoinAt, Idle

\* A step that moves nobody and answers nothing.
LEMMA Aside ==
    ASSUME View, UNCHANGED <<link, toClient, reader, channel, key, astray, overtaken>>,
           srv'.chan = srv.chan,
           Asks(toServer') <=> Asks(toServer),
           link # "up" => toServer' = toServer,
           link = "retry" => cmd' = Idle,
           cmd'.op = "disconnect" => link = "lost",
           \/ /\ ~(cmd.op = "join" /\ cmd.at \in {"sent", "stored"})
              /\ ~(cmd'.op = "join" /\ cmd'.at \in {"sent", "stored"})
           \/ cmd' = cmd /\ \A ch : LastAsked(toServer, ch) => LastAsked(toServer', ch)
    PROVE  View'
<1>1. Cut' BY DEF View, Cut
<1>2. Told' BY DEF View, Told
<1>3. Asked' BY DEF View, Asked, JoinAt
<1>4. \A x : KeyComes(x)' <=> KeyComes(x) BY DEF KeyComes
<1>5. Answered'
  <2>1. CASE cmd' = cmd BY <1>4, <2>1 DEF View, Answered, JoinAt
  <2>2. CASE /\ ~(cmd.op = "join" /\ cmd.at \in {"sent", "stored"})
             /\ ~(cmd'.op = "join" /\ cmd'.at \in {"sent", "stored"})
    BY <1>4, <2>2 DEF View, Answered, JoinAt
  <2> QED BY <2>1, <2>2
<1> QED BY <1>1, <1>2, <1>3, <1>5 DEF View

\* A message about neither channels nor keys comes to the client, or is read.
LEMMA Beside ==
    ASSUME View, UNCHANGED <<link, toServer, cmd, reader, channel, key, srv, astray, overtaken>>,
           link = "up",
           Listed(toClient') <=> Listed(toClient),
           \A x : NewKey(toClient', x) <=> NewKey(toClient, x),
           LastListed(toClient, srv.chan) => LastListed(toClient', srv.chan)
    PROVE  View'
<1>1. Cut' BY DEF View, Cut
<1>2. Told' BY DEF View, Told
<1>3. Asked' BY DEF View, Asked, JoinAt
<1>4. \A x : KeyComes(x)' <=> KeyComes(x) BY DEF KeyComes
<1>5. Answered' BY <1>4 DEF View, Answered, JoinAt
<1> QED BY <1>1, <1>2, <1>3, <1>5 DEF View

\* Requests that do not join.
LEMMA SendsAside ==
    ASSUME TypeOK, NEW type \in Ops \ {"join"}, NEW ch \in Channels, Send(type, ch)
    PROVE  /\ Asks(toServer') <=> Asks(toServer)
           /\ link # "up" => toServer' = toServer
<1>1. Msg(type, ch) \in Messages /\ Msg(type, ch).type = type BY MsgType DEF Msg
<1>2. toServer \in Seq(Messages) BY DEF TypeOK
<1>3. Asks(Append(toServer, Msg(type, ch))) <=> Asks(toServer) BY <1>1, <1>2, Appended
<1> QED BY <1>3 DEF Send


\* What the user gives, and what the interface does on its own.
LEMMA CommandsKeepView ==
    ASSUME TypeOK, View, UserStep \/ CommandStep \/ UiStep
    PROVE  View'
<1> USE DEF View, Cut
<1>1. TakeLock => link = "up" /\ cmd = Idle /\ cmd.op = "none" BY DEF TakeLock, Idle
<1>2. ASSUME NEW ch \in Channels, TakeLock, JoinRequest(ch) PROVE View'
  <2>1. /\ cmd'.op = "join" /\ cmd'.at = "sent" /\ cmd'.ch = ch
        /\ UNCHANGED <<link, toClient, reader, srv, channel, key, astray, overtaken>>
    BY <1>2 DEF JoinRequest, shared, ghosts
  <2>2. Msg("join", ch) \in Messages /\ Msg("join", ch).type = "join" /\ Msg("join", ch).ch = ch
    BY MsgType DEF Msg, Ops
  <2>3. toServer' = Append(toServer, Msg("join", ch)) /\ toServer \in Seq(Messages)
    BY <1>1, <1>2 DEF JoinRequest, Send, TypeOK
  <2>4. Asks(toServer') /\ LastAsked(toServer', ch) BY <2>2, <2>3, Appended
  <2>5. link = "up" BY <1>1, <1>2
  <2>6. Told' BY <2>1 DEF Told
  <2> QED BY <2>1, <2>4, <2>5, <2>6 DEF Asked, Answered, JoinAt
<1>3. ASSUME NEW ch \in Channels, Join(ch) PROVE View'
  BY <1>2, <1>3 DEF Join
<1>4. CASE Rejoin
  <2>1. ui.prev \in Channels BY DEF TypeOK, Ui
  <2> QED BY <1>2, <1>4, <2>1 DEF Rejoin
<1>5. ASSUME NEW ch \in Rooms, Accept(ch) PROVE View'
  <2>1. (Asks(toServer') <=> Asks(toServer)) /\ (link # "up" => toServer' = toServer)
    BY <1>5, SendsAside DEF Accept, SendUnshare, Ops
  <2>2. cmd'.op = "accept" BY <1>5 DEF Accept
  <2> QED BY <1>1, <1>5, <2>1, <2>2, Aside DEF Accept, shared, ghosts
<1>6. CASE Create
  <2>1. (Asks(toServer') <=> Asks(toServer)) /\ (link # "up" => toServer' = toServer)
    BY <1>6, SendsAside DEF Create, Ops
  <2> QED BY <1>1, <1>6, <2>1, Aside DEF Create, shared, tasks, ghosts
<1>7. CASE Share
  <2>1. (Asks(toServer') <=> Asks(toServer)) /\ (link # "up" => toServer' = toServer)
    BY <1>7, SendsAside DEF Share, Ops
  <2> QED BY <1>1, <1>7, <2>1, Aside DEF Share, shared, ghosts
<1>8. CASE Unshare
  <2>1. cmd'.op \in {"none", "unshare"} BY <1>1, <1>8 DEF Unshare
  <2> QED BY <1>1, <1>8, <2>1, Aside DEF Unshare, net, ghosts
<1>9. CASE Watch
  <2>1. (Asks(toServer') <=> Asks(toServer)) /\ (link # "up" => toServer' = toServer)
    BY <1>9, SendsAside DEF Watch, Ops
  <2>2. cmd'.op = "watch" BY <1>9 DEF Watch
  <2> QED BY <1>1, <1>9, <2>1, <2>2, Aside DEF Watch, shared, ghosts
<1>10. CASE Unwatch
  <2>1. (Asks(toServer') <=> Asks(toServer)) /\ (link # "up" => toServer' = toServer)
    BY <1>10, SendsAside DEF Unwatch, SendUnwatch, Ops
  <2> QED BY <1>1, <1>10, <2>1, Aside DEF Unwatch, tasks, ghosts
<1>11. CASE Switch
  <2>1. cmd'.op = "switch" BY <1>11 DEF Switch
  <2> QED BY <1>1, <1>11, <2>1, Aside DEF Switch, net, ghosts
<1>12. CASE JoinStore
  <2>1. /\ cmd.op = "join" /\ cmd.at = "sent" /\ channel' = cmd.ch
        /\ UNCHANGED <<link, toServer, toClient, reader, srv, key, astray, overtaken>>
    BY <1>12 DEF JoinStore, net, ghosts
  <2>2. cmd'.op = "join" /\ cmd'.at = "stored" BY <1>12 DEF JoinStore, TypeOK, Commands
  <2>3. Told' BY <2>1 DEF Told
  <2>4. \A x : KeyComes(x)' <=> KeyComes(x) BY <2>1 DEF KeyComes
  <2>5. Answered' BY <2>1, <2>2, <2>4 DEF Answered, JoinAt
  <2>6. link # "retry" BY <2>1 DEF Idle
  <2> QED BY <2>1, <2>2, <2>3, <2>5, <2>6 DEF Asked, JoinAt
<1>13. CASE JoinForgetKey
  <2>1. /\ cmd.op = "join" /\ cmd.at = "stored"
        /\ UNCHANGED <<link, toServer, toClient, reader, srv, channel, astray, overtaken>>
    BY <1>13 DEF JoinForgetKey, net, ghosts
  <2>2. cmd'.op = "join" /\ cmd'.at = "closing" BY <1>13 DEF JoinForgetKey, TypeOK, Commands
  <2>3. Told' BY <2>1 DEF Told
  <2>4. \A x : KeyComes(x)' <=> KeyComes(x) BY <2>1 DEF KeyComes
  <2>5. Answered' BY <2>1, <2>2, <2>4 DEF Answered, JoinAt
  <2>6. link # "retry" BY <2>1 DEF Idle
  <2> QED BY <2>1, <2>2, <2>3, <2>5, <2>6 DEF Asked, JoinAt
<1>14. CASE JoinFinish
  BY <1>14, Aside DEF JoinFinish, Idle, net
<1>15. CASE AcceptFinish
  <2>1. cmd.ch \in Channels BY DEF TypeOK, Commands
  <2>2. (Asks(toServer') <=> Asks(toServer)) /\ (link # "up" => toServer' = toServer)
    BY <1>15, <2>1, SendsAside DEF AcceptFinish, Ops
  <2> QED BY <1>15, <2>2, Aside DEF AcceptFinish, Idle
<1>16. CASE UnshareFinish
  <2>1. (Asks(toServer') <=> Asks(toServer)) /\ (link # "up" => toServer' = toServer)
    BY <1>16, SendsAside DEF UnshareFinish, SendUnshare, Ops
  <2> QED BY <1>16, <2>1, Aside DEF UnshareFinish, Idle, shared
<1>17. CASE WatchFinish
  BY <1>17, Aside DEF WatchFinish, Idle, net, ghosts
<1>18. CASE StopCaptureFinish
  BY <1>18, Aside DEF StopCaptureFinish, Idle, shared, net
<1>19. CASE SwitchFinish
  BY <1>19, Aside DEF SwitchFinish, Idle, net
<1>20. CASE DisconnectFinish
  <2>1. link = "lost" /\ link' = "retry" /\ cmd' = Idle BY <1>20 DEF DisconnectFinish
  <2> QED BY <1>20, <2>1 DEF DisconnectFinish, Told, Asked, Answered, JoinAt, Idle
<1>21. CASE StartCapture
  BY <1>1, <1>21, Aside DEF StartCapture, net, ghosts
<1>22. CASE StopCapture
  <2>1. cmd'.op = "stop" BY <1>22 DEF StopCapture
  <2> QED BY <1>1, <1>22, <2>1, Aside DEF StopCapture, net, ghosts
<1>23. CASE Disconnect
  <2>1. cmd'.op = "disconnect" /\ cmd.op = "none" BY <1>23 DEF Disconnect, Idle
  <2>2. link = "lost" BY <1>23 DEF Disconnect
  <2> QED BY <1>23, <2>1, <2>2, Aside DEF Disconnect, net, ghosts
<1>24. CASE Connect
  <2>1. /\ link' = "up" /\ cmd' = Idle /\ reader' = Resting /\ srv'.chan = Lobby
        /\ channel' = Lobby
    BY <1>24 DEF Connect, NewSession
  <2>2. /\ LastListed(toClient', Lobby) /\ Listed(toClient')
        /\ \A x : NewKey(toClient', x) <=> x = Lobby
    BY <1>24, FirstAnswer DEF Connect
  <2> QED BY <2>1, <2>2 DEF Told, Asked, Answered, JoinAt, Idle
<1> QED BY <1>3, <1>4, <1>5, <1>6, <1>7, <1>8, <1>9, <1>10, <1>11, <1>12, <1>13, <1>14, <1>15,
           <1>16, <1>17, <1>18, <1>19, <1>20, <1>21, <1>22, <1>23, <1>24
        DEF UserStep, CommandStep, UiStep

\* What the reader takes from the queue, and the keys it installs.
LEMMA ReaderKeepsView ==
    ASSUME TypeOK, View, ReaderStep
    PROVE  View'
<1>1. toClient \in Seq(Messages) /\ toServer \in Seq(Messages) BY DEF TypeOK
<1>2. reader # Resting \/ toClient # <<>> => link = "up" BY DEF View, Cut
<1>3. CASE ReadUserList
  <2> DEFINE ch == Head(toClient).ch
  <2>1. /\ reader = Resting /\ toClient # <<>> /\ Head(toClient).type = "user_list"
        /\ toClient' = Tail(toClient)
        /\ channel' = ch /\ (reader' = [at |-> "changed", ch |-> ch] \/ reader' = Resting)
        /\ overtaken' = (overtaken \/ Overtakes)
        /\ UNCHANGED <<link, toServer, cmd, srv, key, astray>>
    BY <1>3 DEF ReadUserList, Reading, Resting
  <2> HIDE DEF ch
  <2>2. link = "up" BY <1>2, <2>1
  <2>3. /\ LastListed(toClient, srv.chan)
        /\ \A x \in Channels : NewKey(toClient, x) => x = srv.chan
    BY <2>2 DEF View, Told
  <2>4. LastListed(toClient', srv.chan) BY <1>1, <2>1, <2>3, Removed
  <2>5. \A x : NewKey(toClient', x) => NewKey(toClient, x) BY <1>1, <2>1, Removed
  <2>6. ~Listed(toClient') => ch = srv.chan /\ (srv.chan = Lobby \/ NewKey(toClient', srv.chan))
    BY <1>1, <2>1, <2>3, Removed DEF ch
  <2>7. Cut' BY <2>1, <2>2 DEF View, Cut
  <2>8. Told' BY <2>1, <2>3, <2>4, <2>5, <2>6 DEF Told, Resting
  <2>9. Asked' BY <2>1 DEF View, Asked, JoinAt
  <2>10. \A x : KeyComes(x)' => KeyComes(x) /\ NewKey(toClient', x)
    BY <2>1, <2>5 DEF KeyComes, Resting
  <2>11. Answered'
    BY <2>1, <2>2, <2>3, <2>5, <2>6, <2>10 DEF View, Answered, JoinAt, Overtakes, KeyComes
  <2> QED BY <2>7, <2>8, <2>9, <2>11 DEF View
<1>4. CASE ReaderLeaves
  <2>1. /\ reader.at = "changed" /\ reader' = Resting
        /\ UNCHANGED <<link, toClient, cmd, srv, channel, astray, overtaken>>
    BY <1>4 DEF ReaderLeaves, ghosts
  <2>2. link = "up" BY <1>2, <2>1 DEF Resting
  <2> DEFINE unshare == Msg("unshare", Lobby)
             unwatch == Msg("unwatch", Lobby)
  <2>3. /\ unshare \in Messages /\ unwatch \in Messages
        /\ unshare.type = "unshare" /\ unwatch.type = "unwatch"
    BY MsgType DEF Msg, Ops
  <2> HIDE DEF unshare, unwatch
  <2>4. \E mid \in {toServer, Append(toServer, unshare)} :
           toServer' \in {mid, Append(mid, unwatch)}
    <3>1. toServer' = toServer \o (IF active THEN <<unshare>> ELSE <<>>)
                               \o (IF watchShared THEN <<unwatch>> ELSE <<>>)
      BY <1>4, <2>2 DEF ReaderLeaves, unshare, unwatch
    <3> DEFINE mid == IF active THEN Append(toServer, unshare) ELSE toServer
    <3>2. mid = toServer \o (IF active THEN <<unshare>> ELSE <<>>)
      BY <1>1, <2>3
    <3>3. mid \in Seq(Messages) BY <1>1, <2>3
    <3> HIDE DEF mid
    <3>4. toServer' = mid \o (IF watchShared THEN <<unwatch>> ELSE <<>>) BY <3>1, <3>2
    <3>5. watchShared => toServer' = Append(mid, unwatch) BY <2>3, <3>3, <3>4
    <3>6. ~watchShared => toServer' = mid BY <3>3, <3>4
    <3> QED BY <3>5, <3>6 DEF mid
  <2>5. PICK mid \in {toServer, Append(toServer, unshare)} :
           toServer' \in {mid, Append(mid, unwatch)}
    BY <2>4
  <2>6. /\ mid \in Seq(Messages) /\ (Asks(mid) <=> Asks(toServer))
        /\ \A c : LastAsked(toServer, c) => LastAsked(mid, c)
    <3>1. /\ Append(toServer, unshare) \in Seq(Messages)
          /\ Asks(Append(toServer, unshare)) <=> Asks(toServer)
          /\ \A c : LastAsked(toServer, c) => LastAsked(Append(toServer, unshare), c)
      BY <1>1, <2>3, Queued, Appended DEF Moving
    <3> QED BY <1>1, <2>5, <3>1
  <2>7. /\ Asks(toServer') <=> Asks(toServer)
        /\ \A c : LastAsked(toServer, c) => LastAsked(toServer', c)
    <3>1. /\ Asks(Append(mid, unwatch)) <=> Asks(mid)
          /\ \A c : LastAsked(mid, c) => LastAsked(Append(mid, unwatch), c)
      BY <2>3, <2>6, Appended DEF Moving
    <3> QED BY <2>5, <2>6, <3>1
  <2>8. Cut' BY <2>1, <2>2 DEF View, Cut
  <2>9. Told' BY <2>1 DEF View, Told, Resting
  <2>10. Asked' BY <2>1, <2>7 DEF View, Asked, JoinAt
  <2>11. \A x : KeyComes(x)' => KeyComes(x) BY <2>1 DEF KeyComes, Resting
  <2>12. ~Listed(toClient) => srv.chan = Lobby \/ KeyComes(srv.chan)'
    BY <2>1, <2>2 DEF View, Told, KeyComes
  <2>13. Answered' BY <2>1, <2>2, <2>7, <2>11, <2>12 DEF View, Answered, JoinAt
  <2> QED BY <2>8, <2>9, <2>10, <2>13 DEF View
<1>5. CASE ReadMediaKey
  <2> DEFINE ch == Head(toClient).ch
  <2>1. /\ reader = Resting /\ toClient # <<>> /\ Head(toClient).type = "media_key"
        /\ toClient' = Tail(toClient)
        /\ reader' = IF ch = channel THEN [at |-> "install", ch |-> ch] ELSE Resting
        /\ UNCHANGED <<link, toServer, cmd, srv, channel, key, astray, overtaken>>
    BY <1>5 DEF ReadMediaKey, Reading, shared, ghosts
  <2>2. ch \in Channels BY <1>1, <2>1, Taken DEF Messages
  <2> HIDE DEF ch
  <2>3. link = "up" BY <1>2, <2>1
  <2>4. /\ LastListed(toClient, srv.chan)
        /\ \A x \in Channels : NewKey(toClient, x) => x = srv.chan
    BY <2>3 DEF View, Told
  <2>5. LastListed(toClient', srv.chan) BY <1>1, <2>1, <2>4, Removed
  <2>6. Listed(toClient') <=> Listed(toClient) BY <1>1, <2>1, Removed
  <2>7. \A x : NewKey(toClient', x) => NewKey(toClient, x) BY <1>1, <2>1, Removed
  <2>8. ~Listed(toClient') => NewKey(toClient, ch) BY <1>1, <2>1, Removed DEF ch
  <2>9. \A x : NewKey(toClient, x) => NewKey(toClient', x) \/ (ch = x /\ ~Listed(toClient'))
    BY <1>1, <2>1, Removed DEF ch
  <2>10. Cut' BY <2>1, <2>3 DEF View, Cut
  <2>11. reader'.at # "changed" /\ (reader'.at = "install" => reader'.ch = ch /\ ch = channel)
    BY <2>1 DEF Resting
  <2>12. Told' BY <2>1, <2>2, <2>4, <2>5, <2>7, <2>8, <2>11 DEF Told
  <2>13. Asked' BY <2>1 DEF View, Asked, JoinAt
  <2>14. \A x : KeyComes(x)' => KeyComes(x) BY <2>7, <2>8, <2>11 DEF KeyComes
  <2>15. KeyComes(channel) => KeyComes(channel)'
    <3>1. KeyComes(channel) => NewKey(toClient, channel) BY <2>1 DEF KeyComes, Resting
    <3>2. ch = channel => reader'.at = "install" /\ reader'.ch = channel BY <2>1
    <3> QED BY <2>1, <2>9, <3>1, <3>2 DEF KeyComes
  <2>16. Answered' BY <2>1, <2>3, <2>6, <2>14, <2>15 DEF View, Answered, JoinAt
  <2> QED BY <2>10, <2>12, <2>13, <2>16 DEF View
<1>6. CASE InstallKey
  <2>1. /\ reader.at = "install" /\ key' = reader.ch /\ reader' = Resting
        /\ overtaken' = Overtakes
        /\ UNCHANGED <<link, toServer, toClient, cmd, srv, channel, astray>>
    BY <1>6 DEF InstallKey, net
  <2>2. link = "up" BY <1>2, <2>1 DEF Resting
  <2>3. Cut' BY <2>1, <2>2 DEF View, Cut
  <2>4. Told' BY <2>1 DEF View, Told, Resting
  <2>5. Asked' BY <2>1 DEF View, Asked, JoinAt
  <2>6. \A x : KeyComes(x)' => KeyComes(x) BY <2>1 DEF KeyComes, Resting
  <2>7. reader.ch \in Channels BY DEF TypeOK, Readers
  <2>8. ~Listed(toClient) => reader.ch = srv.chan /\ KeyComes(reader.ch)
    BY <2>1, <2>2 DEF View, Told, KeyComes
  <2>9. Answered' BY <2>1, <2>2, <2>6, <2>7, <2>8 DEF View, Answered, JoinAt, Overtakes
  <2> QED BY <2>3, <2>4, <2>5, <2>9 DEF View
<1>7. CASE ReadViewers
  <2>1. /\ toClient # <<>> /\ Head(toClient).type = "viewers" /\ toClient' = Tail(toClient)
        /\ UNCHANGED <<link, toServer, cmd, reader, channel, key, srv, astray, overtaken>>
    BY <1>7 DEF ReadViewers, Reading, shared, ghosts
  <2>2. link = "up" BY <1>2, <2>1
  <2>3. Listed(toClient') <=> Listed(toClient) BY <1>1, <2>1, Removed
  <2>4. \A x : NewKey(toClient', x) <=> NewKey(toClient, x) BY <1>1, <2>1, Removed
  <2>5. LastListed(toClient, srv.chan) => LastListed(toClient', srv.chan)
    BY <1>1, <2>1, Removed
  <2> QED BY <2>1, <2>2, <2>3, <2>4, <2>5, Beside
<1> QED BY <1>3, <1>4, <1>5, <1>6, <1>7 DEF ReaderStep

\* What the server does with a request, and what it does on its own.
LEMMA ServerKeepsView ==
    ASSUME TypeOK, View, ServerStep \/ Kick \/ ViewersChange \/ Lose \/ RecorderEnds
    PROVE  View'
<1>1. toClient \in Seq(Messages) /\ toServer \in Seq(Messages) BY DEF TypeOK
<1>2. toServer # <<>> => link = "up" BY DEF View, Cut
<1>3. CASE ServerMoves
  <2> DEFINE ch == Head(toServer).ch
  <2>1. /\ toServer # <<>> /\ Head(toServer).type \in Moving /\ toServer' = Tail(toServer)
        /\ toClient' = toClient \o Welcome(ch) /\ astray' = FALSE
        /\ UNCHANGED <<link, cmd, reader, channel, key, overtaken>>
    BY <1>3 DEF ServerMoves, Serving, shared, tasks
  <2>2. srv'.chan = ch BY <1>3 DEF ServerMoves, TypeOK, Known
  <2>3. ch \in Channels BY <1>1, <2>1, Taken DEF Messages
  <2> HIDE DEF ch
  <2>4. link = "up" BY <1>2, <2>1
  <2>5. /\ LastListed(toClient', ch) /\ Listed(toClient')
        /\ \A x : NewKey(toClient', x) <=> x = ch
    BY <1>1, <2>1, <2>3, Answer
  <2>6. \A c : LastAsked(toServer, c) => LastAsked(toServer', c) BY <1>1, <2>1, Removed
  <2>7. \A c : LastAsked(toServer, c) /\ ~Asks(toServer') => ch = c
    BY <1>1, <2>1, Removed DEF ch
  <2>8. Cut' BY <2>1, <2>4 DEF View, Cut
  <2>9. Told' BY <2>2, <2>5 DEF Told
  <2>10. Asked' BY <2>1, <2>6 DEF View, Asked, JoinAt
  <2>11. \A x : KeyComes(x)' => x = ch BY <2>5 DEF KeyComes
  <2>12. JoinAt({"sent"}) /\ ~Asks(toServer') => ch = cmd.ch BY <2>7 DEF View, Asked
  <2>13. Answered' BY <2>1, <2>5, <2>11, <2>12 DEF Answered, JoinAt
  <2> QED BY <2>8, <2>9, <2>10, <2>13 DEF View
<1>4. CASE ServerRefuses
  <2>1. /\ toServer # <<>> /\ Head(toServer).type \in Moving /\ toServer' = Tail(toServer)
        /\ astray' = (astray \/ Head(toServer).type = "join")
        /\ UNCHANGED <<link, toClient, srv, cmd, reader, channel, key, overtaken>>
    BY <1>4 DEF ServerRefuses, Serving, shared, tasks
  <2>2. link = "up" BY <1>2, <2>1
  <2>3. \A c : LastAsked(toServer, c) => LastAsked(toServer', c) BY <1>1, <2>1, Removed
  <2>4. Asks(toServer) => Head(toServer).type = "join" \/ Asks(toServer')
    BY <1>1, <2>1, Removed
  <2>5. Cut' BY <2>1, <2>2 DEF View, Cut
  <2>6. Told' BY <2>1 DEF View, Told
  <2>7. Asked' BY <2>1, <2>3 DEF View, Asked, JoinAt
  <2>8. \A x : KeyComes(x)' <=> KeyComes(x) BY <2>1 DEF KeyComes
  <2>9. Answered' BY <2>1, <2>2, <2>4, <2>8 DEF View, Answered, JoinAt
  <2> QED BY <2>5, <2>6, <2>7, <2>9 DEF View
<1>5. ASSUME NEW type \in {"share", "unshare", "watch", "unwatch"}, Serving({type}),
             srv'.chan = srv.chan,
             UNCHANGED <<link, toClient, cmd, reader, channel, key, astray, overtaken>>
      PROVE  View'
  <2>1. /\ toServer # <<>> /\ Head(toServer).type = type /\ toServer' = Tail(toServer)
    BY <1>5 DEF Serving
  <2>2. link = "up" BY <1>2, <2>1
  <2>3. \A c : LastAsked(toServer, c) => LastAsked(toServer', c) BY <1>1, <2>1, Removed
  <2>4. Asks(toServer') <=> Asks(toServer) BY <1>1, <2>1, Removed
  <2> QED BY <1>5, <2>2, <2>3, <2>4, Aside DEF View, Cut
<1>6. CASE ServerShares
  BY <1>5, <1>6 DEF ServerShares, shared, tasks, ghosts, TypeOK, Known
<1>7. CASE ServerUnshares
  BY <1>5, <1>7 DEF ServerUnshares, shared, tasks, ghosts, TypeOK, Known
<1>8. CASE ServerWatches
  BY <1>5, <1>8 DEF ServerWatches, shared, tasks, ghosts, TypeOK, Known
<1>9. CASE ServerUnwatches
  BY <1>5, <1>9 DEF ServerUnwatches, shared, tasks, ghosts, TypeOK, Known
<1>10. CASE Kick
  <2>1. /\ link = "up" /\ toClient' = Append(toClient, Msg("user_list", Lobby))
        /\ UNCHANGED <<link, toServer, cmd, reader, channel, key, overtaken>>
    BY <1>10 DEF Kick, shared, tasks
  <2>2. srv'.chan = Lobby BY <1>10 DEF Kick, TypeOK, Known
  <2>3. Msg("user_list", Lobby) \in Messages /\ Msg("user_list", Lobby).type = "user_list"
    BY MsgType DEF Msg
  <2>4. Listed(toClient') /\ \A x : ~NewKey(toClient', x) BY <1>1, <2>1, <2>3, Appended
  <2>5. LastListed(toClient', Lobby) BY <1>1, <2>1, Answer
  <2>6. Cut' BY <2>1 DEF View, Cut
  <2>7. Told' BY <2>2, <2>4, <2>5 DEF Told
  <2>8. Asked' BY <2>1 DEF View, Asked, JoinAt
  <2>9. \A x : ~KeyComes(x)' BY <2>4 DEF KeyComes
  <2>10. Answered' BY <2>4, <2>9 DEF Answered
  <2> QED BY <2>6, <2>7, <2>8, <2>10 DEF View
<1>11. CASE ViewersChange
  <2>1. PICK n \in 0..1 : toClient' = Append(toClient, [Msg("viewers", srv.chan) EXCEPT !.n = n])
    BY <1>11 DEF ViewersChange
  <2>2. /\ link = "up"
        /\ UNCHANGED <<link, toServer, cmd, reader, channel, key, srv, astray, overtaken>>
    BY <1>11 DEF ViewersChange, shared, tasks, ghosts
  <2> DEFINE m == [Msg("viewers", srv.chan) EXCEPT !.n = n]
  <2>3. m \in Messages /\ m.type = "viewers" BY DEF Msg, Messages, TypeOK, Known
  <2> HIDE DEF m
  <2>4. toClient' = Append(toClient, m) BY <2>1 DEF m
  <2>5. Listed(toClient') <=> Listed(toClient) BY <1>1, <2>3, <2>4, Appended
  <2>6. \A x : NewKey(toClient', x) <=> NewKey(toClient, x) BY <1>1, <2>3, <2>4, Appended
  <2>7. LastListed(toClient, srv.chan) => LastListed(toClient', srv.chan)
    BY <1>1, <2>3, <2>4, Appended
  <2> QED BY <2>2, <2>5, <2>6, <2>7, Beside
<1>12. CASE Lose
  <2>1. /\ link = "up" /\ link' = "lost" /\ toServer' = <<>> /\ toClient' = <<>>
        /\ reader' = Resting /\ cmd' = cmd
    BY <1>12 DEF Lose
  <2>2. Asked' BY <2>1, EmptyQueue DEF Asked
  <2> QED BY <2>1, <2>2 DEF View, Cut, Told, Answered
<1>13. CASE RecorderEnds
  BY <1>13, Aside DEF RecorderEnds, shared, net, ghosts, View, Cut
<1> QED BY <1>3, <1>4, <1>6, <1>7, <1>8, <1>9, <1>10, <1>11, <1>12, <1>13 DEF ServerStep

LEMMA ViewAlways == Spec => []View
<1>1. ASSUME IInv, View, [Next]_vars PROVE View'
  <2>1. CASE Next
    BY <1>1, <2>1, CommandsKeepView, ReaderKeepsView, ServerKeepsView DEF IInv, Next
  <2>2. CASE UNCHANGED vars
    <3>1. UNCHANGED <<link, toServer, toClient, reader, cmd, srv, channel, key, astray, overtaken>>
      BY <2>2 DEF vars, shared, tasks, net, ghosts
    <3> QED BY <1>1, <3>1 DEF View, Cut, Told, Asked, Answered, JoinAt, KeyComes
  <2> QED BY <1>1, <2>1, <2>2
<1> QED BY <1>1, ViewInit, IInvAlways, PTL DEF Spec

\* Once nothing is under way, the channel current_channel_id names is the one the
\* server has the client in, and outside of the lobby the client holds its media
\* key: however the requests of join_channel, the user lists and keys that
\* handle_server_message reads, and kicks crossed each other.  Not when the last
\* join was refused, nor when its answer came before join_channel had recorded it.
THEOREM ViewAlwaysAgrees == Spec => []ViewAgrees
<1>1. View => ViewAgrees
  <2> SUFFICES ASSUME View, Settled, ~astray, ~overtaken
               PROVE  channel = srv.chan /\ (channel # Lobby => key = channel)
    BY DEF ViewAgrees
  <2>1. /\ link = "up" /\ toServer = <<>> /\ toClient = <<>> /\ cmd.op = "none"
        /\ reader.at = "recv"
    BY DEF Settled, Idle, Resting
  <2> QED BY <2>1, EmptyQueue DEF View, Answered, JoinAt, KeyComes
<1> QED BY <1>1, ViewAlways, PTL


----------------------------------------------------------------------------
(* What the server keeps for the client: its share, and what it watches.   *)

\* A request of the type is in the queue, and nothing after it that ends it.
Opens(q, type, ends) ==
    \E i \in 1..Len(q) : /\ q[i].type = type
                         /\ \A j \in (i + 1)..Len(q) : q[j].type \notin ends

\* Nothing in the queue ends what stands now.
Left(q, ends) == \A i \in 1..Len(q) : q[i].type \notin ends

EndsShare == {"unshare"} \cup Moving
EndsWatch == {"unwatch"} \cup Moving

\* The client is aware of its share: it will announce the end of it.  A join and an
\* invite have done so when they let go of it.
HoldsShare == sharing /\ cmd.op \notin {"join", "accept"}
HoldsWatch == cmd.op = "watch" \/ (watchShared /\ cmd.op # "join")

\* Whatever the server keeps, or will keep when it comes to the requests in the
\* queue, is ended by one of them or held by the client.
Held ==
    /\ session = sharing /\ (cmd.op = "switch" => sharing)
    /\ link # "up" => ~srv.watching /\ srv.shares = {}
    /\ Lobby \notin srv.shares
    /\ ~leftover => srv.shares \subseteq {srv.chan} /\ (srv.watching => srv.chan # Lobby)
    /\ Opens(toServer, "share", EndsShare) => HoldsShare
    /\ ~leftover /\ srv.chan \in srv.shares /\ Left(toServer, EndsShare) => HoldsShare
    /\ Opens(toServer, "watch", EndsWatch) => HoldsWatch
    /\ ~leftover /\ srv.watching /\ Left(toServer, EndsWatch) => HoldsWatch

\* A request put at the end of the queue.
LEMMA Requested ==
    ASSUME NEW q \in Seq(Messages), NEW m \in Messages, NEW type, NEW ends
    PROVE  /\ Left(Append(q, m), ends) => Left(q, ends) /\ m.type \notin ends
           /\ Opens(Append(q, m), type, ends) =>
                \/ m.type = type
                \/ m.type \notin ends /\ Opens(q, type, ends)
<1> DEFINE r == Append(q, m)
           n == Len(q)
<1>1. /\ r \in Seq(Messages) /\ Len(r) = n + 1 /\ n \in Nat /\ r[n + 1] = m
      /\ \A i \in 1..n : r[i] = q[i]
  OBVIOUS
<1> HIDE DEF r
<1>2. ASSUME Left(r, ends) PROVE Left(q, ends) /\ m.type \notin ends
  <2>1. n + 1 \in 1..Len(r) /\ \A i \in 1..n : i \in 1..Len(r) BY <1>1
  <2> QED BY <1>1, <1>2, <2>1 DEF Left
<1>3. ASSUME Opens(r, type, ends), m.type # type
      PROVE  m.type \notin ends /\ Opens(q, type, ends)
  <2>1. PICK i \in 1..Len(r) : /\ r[i].type = type
                               /\ \A j \in (i + 1)..Len(r) : r[j].type \notin ends
    BY <1>3 DEF Opens
  <2>2. i # n + 1 BY <1>1, <1>3, <2>1
  <2>3. i \in 1..n BY <1>1, <2>2
  <2>4. n + 1 \in (i + 1)..Len(r) BY <1>1, <2>3
  <2>5. m.type \notin ends BY <1>1, <2>1, <2>4
  <2>6. ASSUME NEW j \in (i + 1)..n PROVE q[j].type \notin ends
    <3>1. j \in (i + 1)..Len(r) /\ j \in 1..n BY <1>1, <2>3
    <3> QED BY <1>1, <2>1, <3>1
  <2>7. q[i].type = type BY <1>1, <2>1, <2>3
  <2> QED BY <2>3, <2>5, <2>6, <2>7 DEF Opens
<1> QED BY <1>2, <1>3 DEF r

\* A request taken from the front.
LEMMA Served ==
    ASSUME NEW q \in Seq(Messages), q # <<>>, NEW type, NEW ends
    PROVE  /\ Opens(Tail(q), type, ends) => Opens(q, type, ends)
           /\ Head(q).type = type /\ Left(Tail(q), ends) => Opens(q, type, ends)
           /\ Head(q).type \notin ends /\ Left(Tail(q), ends) => Left(q, ends)
<1> DEFINE r == Tail(q)
           n == Len(r)
<1>1. /\ r \in Seq(Messages) /\ Len(q) = n + 1 /\ n \in Nat /\ Head(q) = q[1]
      /\ \A i \in 1..n : r[i] = q[i + 1]
  OBVIOUS
<1>2. n = Len(r) OBVIOUS
<1> HIDE DEF r, n
<1>3. ASSUME NEW j \in 1..Len(q), j # 1 PROVE j - 1 \in 1..n /\ q[j] = r[j - 1]
  BY <1>1, <1>3
<1>4. ASSUME Opens(r, type, ends) PROVE Opens(q, type, ends)
  <2>1. PICK i \in 1..n : /\ r[i].type = type
                          /\ \A j \in (i + 1)..n : r[j].type \notin ends
    BY <1>2, <1>4 DEF Opens
  <2>2. ASSUME NEW j \in ((i + 1) + 1)..Len(q) PROVE q[j].type \notin ends
    <3>1. j \in 1..Len(q) /\ j # 1 /\ j - 1 \in (i + 1)..n BY <1>1
    <3>2. q[j] = r[j - 1] BY <1>3, <3>1
    <3> QED BY <2>1, <3>1, <3>2
  <2>3. i + 1 \in 1..Len(q) /\ q[i + 1].type = type BY <1>1, <2>1
  <2> QED BY <2>2, <2>3 DEF Opens
<1>5. ASSUME q[1].type = type, Left(r, ends) PROVE Opens(q, type, ends)
  <2>1. ASSUME NEW j \in (1 + 1)..Len(q) PROVE q[j].type \notin ends
    <3>1. j \in 1..Len(q) /\ j # 1 BY <1>1
    <3>2. j - 1 \in 1..n /\ q[j] = r[j - 1] BY <1>3, <3>1
    <3> QED BY <1>2, <1>5, <3>2 DEF Left
  <2>2. 1 \in 1..Len(q) BY <1>1
  <2> QED BY <1>5, <2>1, <2>2 DEF Opens
<1>6. ASSUME q[1].type \notin ends, Left(r, ends) PROVE Left(q, ends)
  <2> SUFFICES ASSUME NEW j \in 1..Len(q), j # 1 PROVE q[j].type \notin ends
    BY <1>6 DEF Left
  <2>1. j - 1 \in 1..n /\ q[j] = r[j - 1] BY <1>3
  <2> QED BY <1>2, <1>6, <2>1 DEF Left
<1> QED BY <1>1, <1>4, <1>5, <1>6 DEF r

LEMMA NoRequest ==
    /\ Left(<<>>, EndsShare) /\ Left(<<>>, EndsWatch)
    /\ \A type, ends : ~Opens(<<>>, type, ends)
BY DEF Opens, Left

LEMMA HeldInit == Init => Held
<1> SUFFICES ASSUME Init PROVE Held OBVIOUS
<1>1. /\ session = sharing /\ cmd.op # "switch" /\ toServer = <<>>
      /\ srv.shares = {} /\ ~srv.watching
  BY DEF Init, NewSession, Idle
<1>2. ~Opens(toServer, "share", EndsShare) /\ ~Opens(toServer, "watch", EndsWatch)
  BY <1>1, NoRequest
<1> QED BY <1>1, <1>2 DEF Held

\* A step in which the server does nothing: a share or a watch that was under way or
\* standing is still held, or its end was sent, or there is no server to hold it.
LEMMA HeldKept ==
    ASSUME Held, UNCHANGED <<link, srv, leftover>>,
           session' = sharing', cmd'.op = "switch" => sharing',
           \/ HoldsShare'
           \/ link # "up" /\ toServer' = <<>>
           \/ ~Opens(toServer', "share", EndsShare) /\ ~Left(toServer', EndsShare)
           \/ /\ Opens(toServer', "share", EndsShare) => Opens(toServer, "share", EndsShare)
              /\ Left(toServer', EndsShare) => Left(toServer, EndsShare)
              /\ HoldsShare => HoldsShare',
           \/ HoldsWatch'
           \/ link # "up" /\ toServer' = <<>>
           \/ ~Opens(toServer', "watch", EndsWatch) /\ ~Left(toServer', EndsWatch)
           \/ /\ Opens(toServer', "watch", EndsWatch) => Opens(toServer, "watch", EndsWatch)
              /\ Left(toServer', EndsWatch) => Left(toServer, EndsWatch)
              /\ HoldsWatch => HoldsWatch'
    PROVE  Held'
<1>1. /\ Opens(toServer', "share", EndsShare) => HoldsShare'
      /\ ~leftover /\ srv.chan \in srv.shares /\ Left(toServer', EndsShare) => HoldsShare'
  BY NoRequest DEF Held
<1>2. /\ Opens(toServer', "watch", EndsWatch) => HoldsWatch'
      /\ ~leftover /\ srv.watching /\ Left(toServer', EndsWatch) => HoldsWatch'
  BY NoRequest DEF Held
<1> QED BY <1>1, <1>2 DEF Held

LEMMA SendsHeld ==
    ASSUME TypeOK, NEW type \in Ops, NEW ch \in Channels, Send(type, ch)
    PROVE  /\ link = "up" /\ type \in EndsShare =>
                ~Opens(toServer', "share", EndsShare) /\ ~Left(toServer', EndsShare)
           /\ link = "up" /\ type \in EndsWatch =>
                ~Opens(toServer', "watch", EndsWatch) /\ ~Left(toServer', EndsWatch)
           /\ type # "share" /\ Opens(toServer', "share", EndsShare) =>
                Opens(toServer, "share", EndsShare)
           /\ type # "watch" /\ Opens(toServer', "watch", EndsWatch) =>
                Opens(toServer, "watch", EndsWatch)
           /\ Left(toServer', EndsShare) => Left(toServer, EndsShare)
           /\ Left(toServer', EndsWatch) => Left(toServer, EndsWatch)
           /\ link # "up" => toServer' = toServer
<1> DEFINE m == Msg(type, ch)
<1>1. m \in Messages /\ m.type = type BY MsgType DEF Msg
<1>2. toServer \in Seq(Messages) BY DEF TypeOK
<1> HIDE DEF m
<1>3. link = "up" => toServer' = Append(toServer, m) BY DEF Send, m
<1>4. link # "up" => toServer' = toServer BY DEF Send
<1>5. /\ Left(Append(toServer, m), EndsShare) => Left(toServer, EndsShare) /\ type \notin EndsShare
      /\ Opens(Append(toServer, m), "share", EndsShare) =>
           type = "share" \/ (type \notin EndsShare /\ Opens(toServer, "share", EndsShare))
  BY <1>1, <1>2, Requested
<1>6. /\ Left(Append(toServer, m), EndsWatch) => Left(toServer, EndsWatch) /\ type \notin EndsWatch
      /\ Opens(Append(toServer, m), "watch", EndsWatch) =>
           type = "watch" \/ (type \notin EndsWatch /\ Opens(toServer, "watch", EndsWatch))
  BY <1>1, <1>2, Requested
<1>7. "share" \notin EndsShare /\ "watch" \notin EndsWatch BY DEF EndsShare, EndsWatch, Moving
<1> QED BY <1>3, <1>4, <1>5, <1>6, <1>7


\* A step of the client that sends nothing and does not let go of anything.
LEMMA HeldSame ==
    ASSUME Held, UNCHANGED <<link, srv, leftover, toServer>>,
           session' = sharing', cmd'.op = "switch" => sharing',
           HoldsShare => HoldsShare', HoldsWatch => HoldsWatch'
    PROVE  Held'
BY HeldKept

LEMMA UserKeepsHeld ==
    ASSUME TypeOK, Cut, Held, UserStep \/ Rejoin
    PROVE  Held'
<1> USE DEF HoldsShare, HoldsWatch
<1>1. TakeLock => link = "up" /\ cmd.op = "none" BY DEF TakeLock, Idle
<1>2. /\ session = sharing
      /\ Opens(toServer, "share", EndsShare) => HoldsShare
  BY DEF Held
<1>3. ASSUME NEW ch \in Channels, TakeLock, JoinRequest(ch) PROVE Held'
  <2>1. link = "up" /\ "join" \in EndsShare /\ "join" \in EndsWatch
    BY <1>1, <1>3 DEF EndsShare, EndsWatch, Moving
  <2>2. /\ ~Opens(toServer', "share", EndsShare) /\ ~Left(toServer', EndsShare)
        /\ ~Opens(toServer', "watch", EndsWatch) /\ ~Left(toServer', EndsWatch)
    BY <1>3, <2>1, SendsHeld DEF JoinRequest, Ops
  <2>3. /\ UNCHANGED <<link, srv, leftover, session, sharing>>
        /\ cmd'.op = "join"
    BY <1>3 DEF JoinRequest, fields, ghosts
  <2> QED BY <1>2, <2>2, <2>3, HeldKept
<1>4. ASSUME NEW ch \in Channels, Join(ch) PROVE Held'
  BY <1>3, <1>4 DEF Join
<1>5. CASE Rejoin
  <2>1. ui.prev \in Channels BY DEF TypeOK, Ui
  <2> QED BY <1>3, <1>5, <2>1 DEF Rejoin
<1>6. ASSUME NEW ch \in Rooms, Accept(ch) PROVE Held'
  <2>1. /\ UNCHANGED <<link, srv, leftover, session, sharing, watchShared>>
        /\ cmd'.op = "accept" /\ cmd.op = "none" /\ link = "up"
    BY <1>1, <1>6 DEF Accept, fields, ghosts
  <2>2. CASE sharing
    <3>1. /\ ~Opens(toServer', "share", EndsShare) /\ ~Left(toServer', EndsShare)
          /\ Opens(toServer', "watch", EndsWatch) => Opens(toServer, "watch", EndsWatch)
          /\ Left(toServer', EndsWatch) => Left(toServer, EndsWatch)
      BY <1>6, <2>1, <2>2, SendsHeld DEF Accept, SendUnshare, Ops, EndsShare
    <3> QED BY <1>2, <2>1, <3>1, HeldKept
  <2>3. CASE ~sharing
    <3>1. toServer' = toServer BY <1>6, <2>3 DEF Accept
    <3> QED BY <1>2, <2>1, <2>3, <3>1, HeldSame
  <2> QED BY <2>2, <2>3
<1>7. CASE Create
  <2>1. link = "up" /\ "create" \in EndsShare /\ "create" \in EndsWatch
    BY <1>1, <1>7 DEF Create, EndsShare, EndsWatch, Moving
  <2>2. /\ ~Opens(toServer', "share", EndsShare) /\ ~Left(toServer', EndsShare)
        /\ ~Opens(toServer', "watch", EndsWatch) /\ ~Left(toServer', EndsWatch)
    BY <1>7, <2>1, SendsHeld DEF Create, Ops
  <2>3. /\ UNCHANGED <<link, srv, leftover, session, sharing, cmd>>
        /\ cmd.op = "none"
    BY <1>1, <1>7 DEF Create, fields, tasks, ghosts
  <2> QED BY <1>2, <2>2, <2>3, HeldKept
<1>8. CASE Share
  <2>1. /\ UNCHANGED <<link, srv, leftover, watchShared, cmd>> /\ cmd.op = "none"
    BY <1>1, <1>8 DEF Share, shared, ghosts
  <2>2. CASE channel # Lobby /\ ~sharing
    <3>1. /\ Opens(toServer', "watch", EndsWatch) => Opens(toServer, "watch", EndsWatch)
          /\ Left(toServer', EndsWatch) => Left(toServer, EndsWatch)
          /\ session' = TRUE /\ sharing' = TRUE
      BY <1>8, <2>2, SendsHeld DEF Share, Ops
    <3> QED BY <2>1, <3>1, HeldKept
  <2>3. CASE ~(channel # Lobby /\ ~sharing)
    <3>1. UNCHANGED <<toServer, session, sharing>> BY <1>8, <2>3 DEF Share
    <3> QED BY <1>2, <2>1, <3>1, HeldSame
  <2> QED BY <2>2, <2>3
<1>9. CASE Unshare
  <2>1. /\ UNCHANGED <<link, toServer, srv, leftover, session, sharing, watchShared>>
        /\ cmd'.op \in {"none", "unshare"} /\ cmd.op = "none"
    BY <1>1, <1>9 DEF Unshare, fields, net, ghosts
  <2> QED BY <1>2, <2>1, HeldSame
<1>10. CASE Watch
  <2>1. /\ UNCHANGED <<link, srv, leftover, session, sharing>>
        /\ cmd'.op = "watch" /\ cmd.op = "none"
    BY <1>1, <1>10 DEF Watch, fields, ghosts
  <2>2. /\ Opens(toServer', "share", EndsShare) => Opens(toServer, "share", EndsShare)
        /\ Left(toServer', EndsShare) => Left(toServer, EndsShare)
    BY <1>10, SendsHeld DEF Watch, Ops
  <2> QED BY <1>2, <2>1, <2>2, HeldKept
<1>11. CASE Unwatch
  <2>1. /\ UNCHANGED <<link, srv, leftover, session, sharing, cmd>>
        /\ cmd.op = "none" /\ link = "up"
    BY <1>1, <1>11 DEF Unwatch, tasks, ghosts
  <2>2. /\ Opens(toServer', "share", EndsShare) => Opens(toServer, "share", EndsShare)
        /\ Left(toServer', EndsShare) => Left(toServer, EndsShare)
        /\ ~Opens(toServer', "watch", EndsWatch) /\ ~Left(toServer', EndsWatch)
    BY <1>11, <2>1, SendsHeld DEF Unwatch, SendUnwatch, Ops, EndsWatch
  <2> QED BY <1>2, <2>1, <2>2, HeldKept
<1>12. CASE Switch
  <2>1. /\ UNCHANGED <<link, toServer, srv, leftover, session, sharing, watchShared>>
        /\ cmd'.op = "switch" /\ cmd.op = "none" /\ sharing
    BY <1>1, <1>12 DEF Switch, fields, net, ghosts
  <2> QED BY <1>2, <2>1, HeldSame
<1> QED BY <1>4, <1>5, <1>6, <1>7, <1>8, <1>9, <1>10, <1>11, <1>12 DEF UserStep

\* The rest of a command, and what the interface does on its own.
LEMMA CommandsKeepHeld ==
    ASSUME TypeOK, Cut, Held, CommandStep \/ UiStep \/ RecorderEnds
    PROVE  Held'
<1> USE DEF HoldsShare, HoldsWatch
<1>1. /\ session = sharing /\ (cmd.op = "switch" => sharing)
      /\ link # "up" => toServer = <<>>
  BY DEF Held, Cut
<1>2. TakeLock => link = "up" /\ cmd.op = "none" BY DEF TakeLock, Idle
<1>3. CASE JoinStore \/ JoinForgetKey
  <2>1. /\ UNCHANGED <<link, toServer, srv, leftover, session, sharing, watchShared>>
        /\ cmd.op = "join" /\ cmd'.op = "join"
    BY <1>3 DEF JoinStore, JoinForgetKey, TypeOK, Commands, fields, net, ghosts
  <2> QED BY <1>1, <2>1, HeldSame
<1>4. CASE JoinFinish
  <2>1. /\ UNCHANGED <<link, toServer, srv, leftover>>
        /\ cmd.op = "join" /\ cmd'.op = "none" /\ session' = sharing'
    BY <1>1, <1>4 DEF JoinFinish, EndShare, Idle, net
  <2> QED BY <2>1, HeldSame
<1>5. CASE AcceptFinish
  <2>1. /\ UNCHANGED <<link, srv, leftover>>
        /\ cmd.op = "accept" /\ cmd'.op = "none" /\ session' = sharing'
    BY <1>1, <1>5 DEF AcceptFinish, EndShare, Idle
  <2>2. cmd.ch \in Channels /\ "accept" \in EndsShare /\ "accept" \in EndsWatch
    BY DEF TypeOK, Commands, EndsShare, EndsWatch, Moving
  <2>3. /\ link = "up" => ~Opens(toServer', "share", EndsShare) /\ ~Left(toServer', EndsShare)
        /\ link = "up" => ~Opens(toServer', "watch", EndsWatch) /\ ~Left(toServer', EndsWatch)
        /\ link # "up" => toServer' = <<>>
    BY <1>1, <1>5, <2>2, SendsHeld DEF AcceptFinish, Ops
  <2> QED BY <2>1, <2>3, HeldKept
<1>6. CASE UnshareFinish
  <2>1. /\ UNCHANGED <<link, srv, leftover, watchShared>>
        /\ cmd.op = "unshare" /\ cmd'.op = "none" /\ session' = sharing'
    BY <1>6 DEF UnshareFinish, EndShare, Idle, shared
  <2>2. /\ link = "up" => ~Opens(toServer', "share", EndsShare) /\ ~Left(toServer', EndsShare)
        /\ Opens(toServer', "watch", EndsWatch) => Opens(toServer, "watch", EndsWatch)
        /\ Left(toServer', EndsWatch) => Left(toServer, EndsWatch)
        /\ link # "up" => toServer' = <<>>
    BY <1>1, <1>6, SendsHeld DEF UnshareFinish, SendUnshare, Ops, EndsShare
  <2> QED BY <2>1, <2>2, HeldKept
<1>7. CASE WatchFinish
  <2>1. /\ UNCHANGED <<link, toServer, srv, leftover, session, sharing>>
        /\ cmd.op = "watch" /\ cmd'.op = "none" /\ watchShared'
    BY <1>7 DEF WatchFinish, Idle, net, ghosts
  <2> QED BY <1>1, <2>1, HeldSame
<1>8. CASE StopCaptureFinish
  <2>1. /\ UNCHANGED <<link, toServer, srv, leftover, session, sharing, watchShared>>
        /\ cmd.op = "stop" /\ cmd'.op = "none"
    BY <1>8 DEF StopCaptureFinish, Idle, net, shared
  <2> QED BY <1>1, <2>1, HeldSame
<1>9. CASE SwitchFinish
  <2>1. /\ UNCHANGED <<link, toServer, srv, leftover, sharing, watchShared>>
        /\ cmd.op = "switch" /\ cmd'.op = "none" /\ session' = TRUE
    BY <1>9 DEF SwitchFinish, Idle, net
  <2>2. session' = sharing' BY <1>1, <2>1 DEF TypeOK
  <2> QED BY <2>1, <2>2, HeldSame
<1>10. CASE DisconnectFinish
  <2>1. /\ link # "up" /\ UNCHANGED <<toServer, srv, leftover>>
        /\ cmd'.op = "none" /\ session' = sharing'
    BY <1>10 DEF DisconnectFinish, EndShare, Idle, Cut
  <2>2. toServer' = <<>> /\ srv'.shares = {} /\ ~srv'.watching BY <1>1, <2>1 DEF Held
  <2> QED BY <2>1, <2>2, NoRequest DEF Held
<1>11. CASE StartCapture
  <2>1. /\ UNCHANGED <<link, toServer, srv, leftover, session, sharing, watchShared, cmd>>
    BY <1>11 DEF StartCapture, net, ghosts
  <2> QED BY <1>1, <2>1, HeldSame
<1>12. CASE StopCapture
  <2>1. /\ UNCHANGED <<link, toServer, srv, leftover, session, sharing, watchShared>>
        /\ cmd.op = "none" /\ cmd'.op = "stop"
    BY <1>2, <1>12 DEF StopCapture, net, ghosts, fields
  <2> QED BY <1>1, <2>1, HeldSame
<1>13. CASE Disconnect
  <2>1. /\ UNCHANGED <<link, toServer, srv, leftover, session, sharing, watchShared>>
        /\ cmd.op = "none" /\ cmd'.op = "disconnect"
    BY <1>13 DEF Disconnect, Idle, net, ghosts, fields
  <2> QED BY <1>1, <2>1, HeldSame
<1>14. CASE Connect
  <2>1. /\ UNCHANGED <<session, sharing, cmd>> /\ cmd.op = "none"
        /\ toServer' = <<>> /\ srv'.shares = {} /\ ~srv'.watching
    BY <1>14 DEF Connect, fields, NewSession, Cut, Idle
  <2> QED BY <1>1, <2>1, NoRequest DEF Held
<1>15. CASE RecorderEnds
  <2>1. /\ UNCHANGED <<link, toServer, srv, leftover, session, sharing, watchShared, cmd>>
    BY <1>15 DEF RecorderEnds, net, ghosts, fields, shared
  <2> QED BY <1>1, <2>1, HeldSame
<1>16. CASE Rejoin BY <1>16, UserKeepsHeld
<1> QED BY <1>3, <1>4, <1>5, <1>6, <1>7, <1>8, <1>9, <1>10, <1>11, <1>12, <1>13, <1>14, <1>15,
           <1>16 DEF CommandStep, UiStep

LEMMA ReaderKeepsHeld ==
    ASSUME TypeOK, Cut, Held, ReaderStep
    PROVE  Held'
<1> USE DEF HoldsShare, HoldsWatch
<1>1. session = sharing /\ (cmd.op = "switch" => sharing) BY DEF Held
<1>2. CASE ReadUserList \/ ReadMediaKey \/ InstallKey \/ ReadViewers
  <2>1. /\ UNCHANGED <<link, toServer, srv, leftover, session, sharing, watchShared, cmd>>
    BY <1>2 DEF ReadUserList, ReadMediaKey, InstallKey, ReadViewers, fields, shared, net, ghosts
  <2> QED BY <1>1, <2>1, HeldSame
<1>3. CASE ReaderLeaves
  <2>1. /\ UNCHANGED <<link, srv, leftover, session, sharing, cmd>> /\ ~watchShared'
        /\ reader.at = "changed"
    BY <1>3 DEF ReaderLeaves, ghosts, fields
  <2>2. link = "up" BY <2>1 DEF Cut, Resting
  <2> DEFINE unshare == Msg("unshare", Lobby)
             unwatch == Msg("unwatch", Lobby)
             mid == IF active THEN Append(toServer, unshare) ELSE toServer
  <2>3. /\ unshare \in Messages /\ unwatch \in Messages
        /\ unshare.type = "unshare" /\ unwatch.type = "unwatch"
    BY MsgType DEF Msg, Ops
  <2>4. toServer' = toServer \o (IF active THEN <<unshare>> ELSE <<>>)
                             \o (IF watchShared THEN <<unwatch>> ELSE <<>>)
    BY <1>3, <2>2 DEF ReaderLeaves
  <2> HIDE DEF unshare, unwatch
  <2>5. toServer \in Seq(Messages) BY DEF TypeOK
  <2>6. mid = toServer \o (IF active THEN <<unshare>> ELSE <<>>) /\ mid \in Seq(Messages)
    BY <2>3, <2>5
  <2>7. /\ Left(mid, EndsShare) => Left(toServer, EndsShare)
        /\ Left(mid, EndsWatch) => Left(toServer, EndsWatch)
        /\ Opens(mid, "share", EndsShare) => Opens(toServer, "share", EndsShare)
        /\ Opens(mid, "watch", EndsWatch) => Opens(toServer, "watch", EndsWatch)
    <3>1. CASE active BY <2>3, <2>5, <3>1, Requested
    <3>2. CASE ~active BY <3>2
    <3> QED BY <3>1, <3>2
  <2> HIDE DEF mid
  <2>8. CASE watchShared
    <3>1. toServer' = Append(mid, unwatch) BY <2>3, <2>4, <2>6, <2>8
    <3>2. "unwatch" \in EndsWatch BY DEF EndsWatch
    <3>3. /\ ~Left(toServer', EndsWatch) /\ ~Opens(toServer', "watch", EndsWatch)
          /\ Left(toServer', EndsShare) => Left(mid, EndsShare)
          /\ Opens(toServer', "share", EndsShare) => Opens(mid, "share", EndsShare)
      <4>1. /\ Left(Append(mid, unwatch), EndsWatch) => unwatch.type \notin EndsWatch
            /\ Opens(Append(mid, unwatch), "watch", EndsWatch) =>
                 unwatch.type = "watch" \/ unwatch.type \notin EndsWatch
        BY <2>3, <2>6, Requested
      <4>2. /\ Left(Append(mid, unwatch), EndsShare) => Left(mid, EndsShare)
            /\ Opens(Append(mid, unwatch), "share", EndsShare) =>
                 unwatch.type = "share" \/ Opens(mid, "share", EndsShare)
        BY <2>3, <2>6, Requested
      <4> QED BY <2>3, <3>1, <3>2, <4>1, <4>2
    <3> QED BY <1>1, <2>1, <2>7, <3>3, HeldKept
  <2>9. CASE ~watchShared
    <3>1. toServer' = mid BY <2>4, <2>6, <2>9
    <3> QED BY <1>1, <2>1, <2>7, <2>9, <3>1, HeldKept
  <2> QED BY <2>8, <2>9
<1> QED BY <1>2, <1>3 DEF ReaderStep

LEMMA ServerKeepsHeld ==
    ASSUME TypeOK, Cut, Held, ServerStep \/ Kick \/ ViewersChange \/ Lose
    PROVE  Held'
<1> USE DEF HoldsShare, HoldsWatch
<1>1. toServer \in Seq(Messages) /\ srv.chan \in Channels /\ srv \in Known BY DEF TypeOK, Known
<1>2. toServer # <<>> => link = "up" BY DEF Cut
<1>3. "share" \notin EndsShare /\ "watch" \notin EndsShare /\ "unwatch" \notin EndsShare
      /\ "share" \notin EndsWatch /\ "watch" \notin EndsWatch /\ "unshare" \notin EndsWatch
  BY DEF EndsShare, EndsWatch, Moving
<1>4. ASSUME NEW types, Serving(types),
             UNCHANGED <<link, session, sharing, watchShared, cmd>>
      PROVE  /\ link' = "up" /\ toServer # <<>> /\ toServer' = Tail(toServer)
             /\ session' = sharing' /\ (cmd'.op = "switch" => sharing')
             /\ Opens(toServer', "share", EndsShare) => HoldsShare'
             /\ Opens(toServer', "watch", EndsWatch) => HoldsWatch'
  <2>1. toServer # <<>> /\ toServer' = Tail(toServer) BY <1>4 DEF Serving
  <2>2. /\ Opens(toServer', "share", EndsShare) => Opens(toServer, "share", EndsShare)
        /\ Opens(toServer', "watch", EndsWatch) => Opens(toServer, "watch", EndsWatch)
    BY <1>1, <2>1, Served
  <2> QED BY <1>2, <1>4, <2>1, <2>2 DEF Held
<1>5. CASE ServerMoves
  <2> DEFINE ch == Head(toServer).ch
             leaves == srv.chan # ch /\ srv.chan # Lobby
  <2>1. /\ Serving(Moving) /\ UNCHANGED <<link, session, sharing, watchShared, cmd>>
        /\ srv'.chan = ch /\ srv'.shares = (IF leaves THEN srv.shares \ {srv.chan} ELSE srv.shares)
        /\ srv'.watching = (srv.watching /\ ~leaves)
        /\ leftover' = ((leftover /\ (~leaves \/ srv'.shares # {})) \/ srv.chan = ch)
    BY <1>1, <1>5 DEF ServerMoves, shared, tasks, fields, Known
  <2> HIDE DEF ch
  <2>2. Lobby \notin srv'.shares BY <2>1 DEF Held
  <2>3. ~leftover' => srv'.shares = {} /\ ~srv'.watching BY <2>1 DEF Held
  <2> HIDE DEF leaves
  <2> QED BY <1>4, <2>1, <2>2, <2>3 DEF Held
<1>6. CASE ServerRefuses
  <2>1. /\ Serving(Moving) /\ UNCHANGED <<link, session, sharing, watchShared, cmd, srv>>
        /\ leftover'
    BY <1>6 DEF ServerRefuses, shared, tasks, fields
  <2> QED BY <1>4, <2>1 DEF Held
<1>7. CASE ServerShares
  <2>1. /\ Serving({"share"}) /\ UNCHANGED <<link, session, sharing, watchShared, cmd, leftover>>
        /\ srv'.chan = srv.chan /\ srv'.watching = srv.watching
        /\ srv'.shares = srv.shares \/ (srv.chan # Lobby /\ srv'.shares = srv.shares \cup {srv.chan})
    BY <1>1, <1>7 DEF ServerShares, shared, tasks, fields, ghosts, Known
  <2>2. Head(toServer).type = "share" BY <2>1 DEF Serving
  <2>3. Left(toServer', EndsShare) => HoldsShare'
    <3>1. Left(toServer', EndsShare) => Opens(toServer, "share", EndsShare)
      BY <1>1, <1>4, <2>1, <2>2, Served
    <3> QED BY <2>1, <3>1 DEF Held
  <2>4. ~leftover /\ srv.watching /\ Left(toServer', EndsWatch) => HoldsWatch'
    <3>1. Left(toServer', EndsWatch) => Left(toServer, EndsWatch)
      BY <1>1, <1>3, <1>4, <2>1, <2>2, Served
    <3> QED BY <2>1, <3>1 DEF Held
  <2>5. Lobby \notin srv'.shares BY <2>1 DEF Held
  <2>6. ~leftover => srv'.shares \subseteq {srv.chan} /\ (srv.watching => srv.chan # Lobby)
    BY <2>1 DEF Held
  <2> QED BY <1>4, <2>1, <2>3, <2>4, <2>5, <2>6 DEF Held
<1>8. CASE ServerUnshares
  <2>1. /\ Serving({"unshare"})
        /\ UNCHANGED <<link, session, sharing, watchShared, cmd, leftover>>
        /\ srv'.chan = srv.chan /\ srv'.watching = srv.watching
        /\ srv'.shares = srv.shares \ {srv.chan}
    BY <1>1, <1>8 DEF ServerUnshares, shared, tasks, fields, ghosts, Known
  <2>2. Head(toServer).type = "unshare" BY <2>1 DEF Serving
  <2>3. ~leftover /\ srv.watching /\ Left(toServer', EndsWatch) => HoldsWatch'
    <3>1. Left(toServer', EndsWatch) => Left(toServer, EndsWatch)
      BY <1>1, <1>3, <1>4, <2>1, <2>2, Served
    <3> QED BY <2>1, <3>1 DEF Held
  <2> QED BY <1>4, <2>1, <2>3 DEF Held
<1>9. ASSUME NEW type \in {"watch", "unwatch"}, Serving({type}),
             UNCHANGED <<link, session, sharing, watchShared, cmd, leftover>>,
             srv'.chan = srv.chan, srv'.shares = srv.shares,
             srv'.watching => srv.watching \/ srv.chan # Lobby,
             ~leftover /\ srv'.watching /\ Left(toServer', EndsWatch) => HoldsWatch'
      PROVE  Held'
  <2>1. Head(toServer).type = type BY <1>9 DEF Serving
  <2>2. ~leftover /\ srv.chan \in srv.shares /\ Left(toServer', EndsShare) => HoldsShare'
    <3>1. Left(toServer', EndsShare) => Left(toServer, EndsShare)
      BY <1>1, <1>3, <1>4, <1>9, <2>1, Served
    <3> QED BY <1>9, <3>1 DEF Held
  <2> QED BY <1>4, <1>9, <2>2 DEF Held
<1>10. CASE ServerWatches
  <2>1. /\ Serving({"watch"}) /\ UNCHANGED <<link, session, sharing, watchShared, cmd, leftover>>
        /\ srv'.chan = srv.chan /\ srv'.shares = srv.shares
        /\ srv'.watching => srv.watching \/ srv.chan # Lobby
    BY <1>1, <1>10 DEF ServerWatches, shared, tasks, fields, ghosts, Known
  <2>2. Head(toServer).type = "watch" BY <2>1 DEF Serving
  <2>3. Left(toServer', EndsWatch) => Opens(toServer, "watch", EndsWatch)
    BY <1>1, <1>4, <2>1, <2>2, Served
  <2>4. Left(toServer', EndsWatch) => HoldsWatch' BY <2>1, <2>3 DEF Held
  <2> QED BY <1>9, <2>1, <2>4
<1>11. CASE ServerUnwatches
  <2>1. /\ Serving({"unwatch"})
        /\ UNCHANGED <<link, session, sharing, watchShared, cmd, leftover>>
        /\ srv'.chan = srv.chan /\ srv'.shares = srv.shares /\ ~srv'.watching
    BY <1>1, <1>11 DEF ServerUnwatches, shared, tasks, fields, ghosts, Known
  <2> QED BY <1>9, <2>1
<1>12. CASE Kick
  <2>1. /\ UNCHANGED <<link, toServer, session, sharing, watchShared, cmd>>
        /\ srv'.chan = Lobby /\ srv'.shares = srv.shares /\ srv'.watching = srv.watching
        /\ link = "up" /\ leftover' = (leftover \/ srv.shares # {} \/ srv.watching)
    BY <1>1, <1>12 DEF Kick, shared, tasks, fields, Known
  <2>2. Lobby \notin srv'.shares BY <2>1 DEF Held
  <2>3. ~leftover' => srv'.shares = {} /\ ~srv'.watching BY <2>1
  <2>4. /\ session' = sharing' /\ (cmd'.op = "switch" => sharing')
        /\ Opens(toServer', "share", EndsShare) => HoldsShare'
        /\ Opens(toServer', "watch", EndsWatch) => HoldsWatch'
    BY <2>1 DEF Held
  <2> QED BY <2>1, <2>2, <2>3, <2>4 DEF Held
<1>13. CASE ViewersChange
  <2>1. /\ UNCHANGED <<link, toServer, srv, leftover, session, sharing, watchShared, cmd>>
    BY <1>13 DEF ViewersChange, shared, tasks, fields, ghosts
  <2>2. session = sharing /\ (cmd.op = "switch" => sharing) BY DEF Held
  <2> QED BY <2>1, <2>2, HeldSame
<1>14. CASE Lose
  <2>1. /\ UNCHANGED <<session, sharing, cmd>> /\ toServer' = <<>>
        /\ srv'.shares = {} /\ ~srv'.watching
    BY <1>14 DEF Lose, fields, NewSession
  <2> QED BY <2>1, NoRequest DEF Held
<1> QED BY <1>5, <1>6, <1>7, <1>8, <1>10, <1>11, <1>12, <1>13, <1>14 DEF ServerStep

LEMMA HeldAlways == Spec => []Held
<1>1. ASSUME IInv, View, Held, [Next]_vars PROVE Held'
  <2>1. CASE Next
    BY <1>1, <2>1, UserKeepsHeld, CommandsKeepHeld, ReaderKeepsHeld, ServerKeepsHeld
    DEF IInv, View, Next
  <2>2. CASE UNCHANGED vars
    <3>1. UNCHANGED <<link, toServer, srv, leftover, session, sharing, watchShared, cmd>>
      BY <2>2 DEF vars, shared, fields, tasks, net, ghosts
    <3> QED BY <1>1, <3>1 DEF Held, HoldsShare, HoldsWatch
  <2> QED BY <1>1, <2>1, <2>2
<1> QED BY <1>1, HeldInit, IInvAlways, ViewAlways, PTL DEF Spec

\* What the server shows or forwards for the client is something the client knows
\* of: once nothing is under way, the share in its channel has its capture session,
\* and the share it is sent frames of is the one it records as watched.  Every path
\* of commands.rs and network.rs on which the client lets go of them has sent the
\* end before, or moves the client away, and no request crosses it that would make
\* the server keep them.  Not after a move that was refused or led nowhere, nor
\* after a kick.
THEOREM NothingIsAbandoned == Spec => []NothingAbandoned
<1>1. Cut /\ Held => NothingAbandoned
  <2> SUFFICES ASSUME Held, Settled, ~leftover
               PROVE  /\ srv.chan \in srv.shares => sharing /\ session
                      /\ srv.watching /\ srv.chan # Lobby => watchShared
    BY DEF NothingAbandoned
  <2>1. toServer = <<>> /\ cmd.op = "none" BY DEF Settled, Idle
  <2> QED BY <2>1, NoRequest DEF Held, HoldsShare, HoldsWatch
<1>2. View => Cut BY DEF View
<1> QED BY <1>1, <1>2, ViewAlways, HeldAlways, PTL

=============================================================================
