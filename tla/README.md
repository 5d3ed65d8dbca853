# A verification project for VoIPC

TLA+ modules of the parts of VoIPC in which several tasks act on shared state,
TLC instances of them, and TLAPS proofs of the properties that matter most.
Every definition is translated from the source; `PROJECT.json` names, for each
of them, the lines it stands for, and lists the hazards the properties are for.

## The system

VoIPC is a voice chat: a server (Rust, tokio) and clients (Rust under Tauri,
Svelte user interface, Android shell). Control messages go over TLS/TCP, voice
and screen-share video over UDP through the server, encrypted end to end.

| Component | Source | State | Operations | What is hard | What makes it correct | Modelled |
|---|---|---|---|---|---|---|
| Channel membership | `voipc-server` `state.rs`, `tcp.rs` | `channels` (members, password, invitations, creator, delete timer) behind one `RwLock`; `sessions`, `user_to_session` in DashMaps | join, create, set password, invite, decline, kick, disconnect, delete timer | one task per connection in parallel; a join is validated, then the old channel left, then the new one entered, each under its own lock; timers | capacity, authorization, unique names, only empty channels deleted, nobody in two channels or for ever in none, empty channels go away | yes |
| Screen shares | `state.rs`, `tcp.rs` | `screen_shares` with viewers in the channel, `is_screen_sharing` and `watching_screenshare` in the session | start, stop, watch, stop watching, clean-up on leaving | session and channel are changed in separate steps | shares belong to members, flags tell the truth | yes |
| Connection admission | `main.rs`, `tcp.rs` | two connection counters, `sessions`, `username_to_session` | accept, authenticate, end of a connection | counters without a lock, a check long before the insertion, a failing write | limits hold, names are unique | yes |
| UDP relay | `udp.rs`, `state.rs` | `addr_to_session`, `udp_addr` | learn an address, evict, forward, remove | one task reads one map at a time while sessions come, move and go | the two records agree; media only to members and viewers; whoever sends becomes known | yes |
| Message relay | `tcp.rs` | queues to the clients | forward chat, sender keys, media keys, pre-keys, pokes | the addressee may be between two channels | what is relayed arrives, or its sender can tell | partly |
| Persistent channels file, rate limiter | `channels.rs`, `state.rs` | `channels.json`, token buckets | load, save; consume | | | partly (as constants and as a refusal) |
| Push to talk and transmission | client `global_keys.rs`, `commands.rs`, `network.rs` | `held_keys`, `ptt_active`, `transmitting`, `capture_task` | press, release, start, stop, the capture task | each press spawns a task; a stop waits two seconds for a blocking thread | one recording, silence after the release, the end is the last packet | yes |
| Jitter buffer | `voipc-audio/jitter.rs` | packets by number, next number | push, pop, drain, reset | loss, reordering, numbers that wrap or restart | in order, each once, nothing wasted | yes |
| Video stream | `voipc-protocol/video.rs`, client `screenshare/mod.rs`, `network.rs` | frame numbers, `FrameAssembler`, decode queue, `needs_keyframe` | fragment, assemble, hand on, decode, render, ask for a keyframe | loss, duplicates, interleaved frames, a flag that two threads raise and clear | a frame is of one piece; a gap is signalled; no picture without its references | yes |
| Screen capture and codecs | client `screenshare/*`, `voipc-video` | platform handles, capture task | start, stop, switch the source | as for transmissions | one recorder | partly (life of the task, frame processing) |
| Client session | client `commands.rs`, `network.rs`, `app_state.rs`, `App.svelte` | channel, media key, share and watching flags, some behind the lock of `connection`, some atomics of other tasks | join, create, accept, share, watch, switch, handle a message, reconnect | commands, reader and interface write the same fields; the view changes before the server answers | once all is handled the view is the server's | yes |
| End-to-end encryption | `voipc-crypto`, client `network.rs`, `commands.rs` | sessions, sender keys, waiting messages, media keys | exchange keys, send and queue messages, drop keys | keys and messages cross; users move meanwhile | members can decrypt, queued messages are sent | partly (who holds which key) |
| Chat history | client `commands.rs`, `lib.rs`, `ChatHistorySetup.svelte`, `chat.ts` | file, `ChatState`, dialog, stores | create, unlock, change location, delete, save, flush, clear | written in place; debounced saves; a dialog of many steps | nothing readable is lost unasked; what is shown is saved | yes |
| Wire protocol; settings, TLS, TS3 bridge; audio devices; other commands; Android shell | `voipc-protocol`, `voipc-server`, `voipc-audio`, the rest of the client | | | | | no, see the end |

How they interact: a connection task (`handle_connection`) authenticates, joins
General and then handles the messages of its client one at a time. Handlers
take the lock of `channels`, let it go, send to other sessions' queues and take
it again, so handlers of different connections interleave between any two
critical sections. A delete timer is a task of its own that calls
`delete_channel`. The UDP loop reads the same maps, one at a time.

In the client, the commands of the interface run under the write lock of
`connection`; the task that reads TCP takes no lock and writes the atomics the
commands read; capture tasks run on blocking threads and share one flag with
the commands that start and stop them; the UDP receiver feeds the jitter
buffers and the frame assembler, and the decoder, on a thread of its own,
shares a queue and a flag with it. The interface answers the reader's events
with commands.

## Modules

* `VoipcServer`: membership and screen shares. One action per critical section
  of the channels lock. The locals a handler carries from one section to the
  next (the channel asked for, the password tried, the old channel, the target
  of a kick, the emptiness it saw) are in `task[u]`, and `task[u].at` is where
  it is. A request (`Request`) is the client's choice, a `Continue` action the
  handler's next section, `TimerFires` the delete timer.
  `handle_join_channel` is `JoinRequest`, `JoinCleanup`, `JoinLeave`,
  `JoinTimer` and one of `JoinEnter` and `JoinRefused` with `JoinFallback`;
  `handle_create_channel` is `CreateChannel` and the join; `handle_kick_user`
  is `KickUser`, `KickMove`, `KickTimer`; `cleanup_session` is `Quit`,
  `QuitLeave`, `QuitTimer`, `QuitRemove`, `QuitPurge`. A connection is one
  element of `Users`: its user id and session id are both fresh.
* `Membership`: what the server promises about places, without locks, handlers
  and timers: a connected user enters one open channel at a time while there is
  room, leaves it, and channels open once and close while empty.
  `VoipcMembership` maps `VoipcServer` to it (`M == INSTANCE Membership WITH`):
  `places` is computed from the member sets and `stage` from `task` and
  `online`. A kick is two critical sections between which its target may act,
  so the refinement is claimed where nobody is kicked.
* `Admission`: the accept loop, authentication and the end of a connection.
  One action per access of a counter or map.
* `UdpRelay`: the UDP task and what it races with. `Receive` is the lookup of
  the session, the eviction of an old entry and the binding of the address
  (`udp.rs`); `Insert` caches it; `Route` reads the channel of the sender;
  `Forward` looks up members or viewers. The connection tasks enter, leave,
  watch, `Remove` a session and `Unmap` its address in separate steps.
* `PushToTalk`, extended by `VoiceStream`: the key listener spawns one task per
  change (`KeyPress`, `KeyRelease`, `WindowRequest`), the tasks run in any
  order once they get the lock (`StartTransmit`, `StopTransmit`, `StopEnds`),
  the capture task shares `transmitting`. `VoiceStream` adds the packets, a
  network that loses, duplicates and reorders them, and the jitter buffer
  (`push`, `pop`, `drain`, `reset`) with numbers modulo `SeqSpace`.
* `VideoStream`: `FrameProcessor`, the network, `FrameAssembler` as
  `udp_receiver_task` drives it, the bounded queue, and the decode and render
  task, which reads the queue in batches and shares `needs_keyframe`.
* `ClientSession`: one client, and the server as far as it concerns it. `cmd` is
  the command that holds the lock and where it is in it, `reader` the TCP
  reader, `recorders` the capture tasks, `ui` and `invoked` what `App.svelte`
  knows and has asked for. The server handles a message in one step, may refuse
  a join, may kick, and forgets the session when the link breaks.
* `GroupKeys`: clients in channels, each with a reader (`ReaderStep`, a message
  is handled to its end) and a user who writes messages meanwhile
  (`WriterStep`: look for keys, then send or queue, under two locks). The server
  handles a join in two steps, between which the user is in no channel. The
  cryptography is reduced to who holds whose key and who has a session. The
  messages that wait are a set, in the order of their numbers since a user writes
  one at a time (`Queued`); the bundles of several users are asked for in any
  order (`Orders`), that of the user list in the code.
* `ChatHistory`: the file at each location, `ChatState`, the dialog, the stores
  and the debounced save. `std::fs::write` is two steps, truncate and fill: a
  crash or a full disk may come between them. `Crash` and `Quit` end the
  process at any point, and it starts again.
* `MC*`: values for the constants. `*_proofs`: the theorems.

What is abstracted. In the server: messages to clients that no property is
about, password hashing (a password matches or does not), rate limits (a limited
request changes nothing and is no step; the limiter of password attempts
matters, because a created channel is already there when it refuses, and is part
of `CreateJoinFails`; that of UDP packets is the first branch of `Route`), mute
and deafen flags. In the client: byte layouts, samples and pixels; a frame is its number,
whether it is a keyframe and how many fragments it has. In the history: sealing
is a record of key and contents, and the archive is a set of messages. Accesses
of a task to its own session that no other task can disturb are merged with the
critical section next to them. Names are model values.

## Runs

| Run | Instance | Shows |
|---|---|---|
| membership | 2 users, 1 persistent channel with one place and a password, ids for 2 created channels of which 1 may exist at a time, everything but screen shares | `CapacityRespected`, `RegistryOk`, `HomeChannelHasUser`, `EntryAuthorized`, `DeletedOnlyEmpty`, `TypeOK` |
| shares | 2 users, 2 created channels, screen shares, moves, disconnections; no kicks | `SharesOfMembers`, `SharingFlagMatches`, `MembershipMatchesSession` |
| cleanup | 2 users, the persistent channel and 2 created ids, no kicks, fairness | `Implements` (the refinement), `EveryoneSettles`, `EmptyChannelRemoved` |
| admission | 5 connections, 3 from one address and 2 from another, two pairs with one user name each; 3 in total, 2 per address, 2 users | `TotalRespected`, `NoLockout`, `NamesExclusive` |
| relay | 3 sessions over 3 addresses, one of them shared by two sessions of which one moves and keeps sending; 2 channels, 2 places in the cache | `CacheSound`, `SentInChannel`, `TalkerLearned` |
| voice | a binding of 1 key, 3 requests, 4 frames, numbers modulo 8, a late window of 3, 1 duplicate | `OneCapture`, `ReleasedIsSilent`, `EndIsLast`, `EveryRequestAnswered`, `PlaysInOrder`, `NothingWasted` |
| video | 4 frames of up to 3 fragments, a keyframe every 3, 3 packets under way, a queue of 2, 1 duplicate | `OneFrameAtATime`, `SkipIsSignalled`, `CorruptionHasCause` |
| client | 2 rooms and the lobby, 3 commands, 1 kick or viewer, 1 broken link | `ViewAgrees`, `NothingAbandoned`, `OneRecorder`, `ComesToRest` |
| keys | 2 users, the lobby and a room, 3 joins, 1 message to the channel or to the other | `TypeOK`, `KeysExchanged`, `MessagesKept`, `ReadableByHolders`, `ExchangeEnds` |
| history | 2 locations with every content, 2 passwords, 1 message besides an old one, 1 end of the process, 1 failing write | `OpenIsOnDisk`, `ArchiveIsStore`, `LostKnowingly`, `ShownIsSaved` |
| ghost_member | 2 users, kicks and disconnections | `MembershipMatchesSession` fails: a kicked user who joins elsewhere at that moment is a member twice |
| corrupt_picture | as video | `NoCorruptPicture` fails: a keyframe and, after a loss, a delta frame decoded in one batch; the keyframe clears the flag that was raised for the later loss |

All instances turn the deadlock check off: clients may all have disconnected,
every bound may be used up, and then nothing is left to do.

Some properties make exceptions. Each is a variable that observes the run, is
raised only by the step in which the thing happens, and guards nothing:
`abandoned` and `gaveUp` (a wait of two seconds for a capture task ran out),
`overtaken` (a task was handled before an older one), `raced` (in `UdpRelay` a
removal between the two halves of learning an address, in `ChatHistory` a save
that crossed the clearing), `astray` (a refused join the client already
recorded), `leftover` (the client was kicked, or dropped a share or a watch for
a move that was refused), `wasted` (a sender key dropped because its addressee was
between two channels), `late` (a message queued after what it waits for had
come), `broken` (a write failed), `strayed` (a change of location left half done),
`causes` (the ways a picture can miss its reference). The properties say that
nothing else goes wrong.

### Bounds

Two users are enough for every race of the server that is modelled: each of
them is between two tasks, or between a task and a timer. One place makes every
join race for it; one permitted channel and two ids let a channel be deleted and
its successor be created while a task still holds the old id. Two names let a
creation succeed and fail on its name. Four connections are what it takes for a
count to be lost and for a subtraction to meet a count that is 0 already, and a
fifth lets the two addresses together ask for more than the total.

In `relay` two sessions share an address, as after a reconnect behind one
translator, so that an entry of the first meets the second; three addresses
fill a cache of two. In `voice` three requests are a start, its stop and the
next start, which is what two captures at once, and a second transmission that
meets a buffer that was not reset, take; eight numbers wrap around the late
window. In `video` a keyframe, its successors, the next keyframe and one after
it fit in four frames; three fragments let frames interleave; a queue of two
fills. In `client` three commands let one cross another's answers and a third
find what they left; in `keys` three joins bring one user back, or both into the
room while one is on its way; every message has one writer, and the two users
are alike. In `history` two locations are those of a change of location, and one
crash or failing write is enough to be in any of the writes.

Bounds that have no counterpart in the code are `MaxChannelId` (a 32-bit counter
in the code, which would wrap after four thousand million channels), `MaxFrames`,
`MaxInFlight`, `MaxDuplicates`, `MaxRequests`, `MaxCommands`, `MaxPushes`,
`MaxLosses`, `MaxJoins`, `MaxChats`, `MaxMessages`, `MaxStops` and `MaxFailures`;
they cap what the environment does. `MaxInvites` is 50 in the code, `LateWindow`
1000, `SeqSpace` 2^32, `QueueSize` 64. Most of the safety properties are
also proved, for all values.

The largest instances have 0.5 to 3 million states and take about a minute with
two workers.

### Fairness

Nothing is assumed of users, of the network or of the passing of time except
where stated; what is assumed is that tasks that can go on are polled.

* `VoipcServer`: weak fairness of the rest of a handler that began (the runtime
  polls it and the lock is fair), and of a delete timer that sleeps
  (`tokio::time::sleep` ends).
* `VoiceStream`: weak fairness of the tasks of requests only. A stop waits for
  two seconds at most (`WaitOver`); the capture device may hang for ever.
* `UdpRelay`: weak fairness of the UDP task and of a removal that began. For the
  clients that keep sending, strong fairness of the receipt of voice: the
  network loses some packets, not all of them. A single ping has no fairness.
* `ClientSession`: weak fairness of a command that began, of the commands the
  interface issues, of the reader, of the server's handling of what was sent,
  and of the end of a capture task whose flag was cleared. With them
  `ComesToRest` holds although reader, interface and server answer each other.
* `GroupKeys`: weak fairness, for each user, of the reader, the server and a
  message that is being written.
* `ChatHistory`: weak fairness of the debounce timer, the save, the flush task,
  a write that began and a clearing. The process may end and stay ended, which
  empties the stores `ShownIsSaved` speaks of.

## Statements the code does not keep

Two of them are runs (`ghost_member`, `corrupt_picture`) and are among the
findings in `PROJECT.json`. The others have a configuration each; TLC refutes
the one property it checks in a few seconds.

| Configuration (module) | Statement | What happens |
|---|---|---|
| `MCDumped.cfg` (`MCVoipcServer`) | `RefusedJoinStaysPut` | two users for one place: the refusal under the lock comes after the user left, who ends in General |
| `MCStranded.cfg` (`MCVoipcServer`) | `EmptyChannelRemoved` with the limiter of password attempts | the creator's join is limited: nobody ever enters, so no timer is ever started |
| `MCKickedSharer.cfg` (`MCVoipcServer`) | `NoShareLeftBehind` | a kick stops no share |
| `MCStaleViewer.cfg` (`MCVoipcServer`) | `ViewersAreMembers` | watch again while the share restarts |
| `MCLostCount.cfg` (`MCAdmission`) | `PerAddrRespected` | the removal of an entry that reached 0 also removes a new count |
| `MCLeakedSession.cfg` (`MCAdmission`) | `SessionsActive` | the answer cannot be written: session and name stay |
| `MCLostPing.cfg` (`MCUdpRelay`) | `PingTeachesAddress` | the only ping is lost, and a client that only listens hears nothing |
| `MCEndLost.cfg` (`MCVoiceStream`) | `LostMeansLater` | the end of a transmission is lost or overtaken; the numbers of the next one are older than what is expected, and are reported lost |
| `MCRefusedJoin.cfg` (`MCClientSession`) | `JoinIsConfirmed` | a refused join: the client goes on in a channel it is not in |
| `MCQueuedDirect.cfg` (`MCGroupKeys`) | `SentWithSession` | a session that comes with the other side's message empties no queue |
| `MCExit.cfg` (`MCChatHistory`) | `ExitFlushes` | nothing flushes on an orderly exit |
| `MCNotFound.cfg` (`MCChatHistory`) | `NotFoundMeansNone` | after a change of location that failed, the dialog speaks of a location that has a history |

## Proofs

All of these hold for every value of the constants that the modules' own
assumptions admit (`UsersAssumption`, `RelayAssumption` and so on: sets of users,
connections and addresses are finite, limits are natural numbers, the persistent
channels are numbered from 1, `None` is no password and no set of messages, the
numbers of the frames and the late window together do not wrap). Nothing else is
assumed, except where a theorem about the server says so in its statement:
`"kick" \notin Ops` for the membership and the refinement, `"rejoin" \notin Ops`
besides for the shares.

* `VoipcServer_proofs`. `TypeCorrect`: `TypeOK` is inductive only together with
  `KickHasTarget`, a task between the two halves of a kick knows whom it moves.
  `CapacityAlwaysRespected` and `EntryAlwaysAuthorized` follow from one lemma,
  `MembersStep`: a channel other than General gains members only in `JoinEnter`,
  one at a time, by a task whose checks just passed under the lock. What
  `validate_join` found out before plays no part, which is why the race is
  harmless here. `RegistryAlwaysOk` and `DeletionsOnlyOfEmpty` follow from
  `LiveStep`: only a creation adds and only a timer that found the channel empty
  removes; `PermanentLive` (General and the persistent channels are always
  there) is part of the invariant. `UsersNeverLost`: the invariant `Homed` adds
  that a task that has not reached the end of its clean-up has a session.
  `MembersMatchSessions`, `ImplementsMembership` and `NobodyInTwoPlaces`: the
  invariant adds `Placed` to those of the server, a member's channel exists, is
  the one of its session, and its task is not at one of the places where it is
  outside. From it every step is shown to be a step of `Membership` or a stutter;
  that nobody is in two places is then a fact about the small abstract module.
  `SharesAlwaysOfMembers` and `SharingFlagAlwaysMatches`: `SharePlaced` says of
  each user that its shares are in the channel of its session and that the flag
  tells of them except while a handler is between the flag and the map, and what
  the handlers that clean up hold in their locals: `join_cleanup` the channel of
  the session, `create_join` never that channel. Two kinds of requests are
  excluded because TLC refutes the properties with them: a kick leaves the share
  behind, and who joins the channel it is in skips the clean-up.
* `Admission_proofs`. `TypeCorrect`, `TotalAlwaysRespected`, `NeverLockedOut`,
  `NamesAlwaysExclusive`. The invariant `Safe`: the total equals the number of
  connections that count, the count of an address is at most that number (it may
  be less), and a user name is held by its session until the session is gone.
* `UdpRelay_proofs`. `TypeCorrect`, `CacheAlwaysSound`, `AlwaysSentInChannel`.
  The invariant relates the steps of the connection tasks to the maps (`Places`,
  `Watching`: a viewer is a member of the sharer's channel), says that an
  address is bound before it is cached (`Bound`), that what is about to be
  cached after its session ended has raced (`Gone`), and that it had room
  (`Capped`): the UDP task is the only one that adds entries.
* `VoiceStream_proofs`. `RequestsTyped`, `OneCaptureAtATime`, `EndAlwaysLast`,
  `ReleasedAlwaysSilent`. `CaptureInv`: a capture that may still record is the
  remembered one or was abandoned, and a client that does not transmit and waits
  for none remembers none. `OrderInv` carries the order of requests: while the
  client transmits, a stop that was handled and is younger than the start has
  overtaken it. `AlwaysPlaysInOrder` and `NothingEverWasted`: `HeardInv` says
  that the packets under way are those that were recorded, that a buffer holds
  fewer packets than start it and none once playing began, and, of one
  transmission, that all that arrived is buffered until then, and that afterwards
  the next number is the one after the last played and beyond all that arrived
  and all that was concealed. `Modulo` and `AheadIs` take the wrapped comparison
  of the code back to the numbers of the frames; `MaxFrames + LateWindow <
  SeqSpace` is what they need. What a drain plays is an enumeration of a finite
  set in ascending order (`InOrder`), so no induction over the buffer is needed.
* `VideoStream_proofs`. `TypeCorrect`, `AlwaysOneFrame`, `SkipsAreSignalled`,
  `CorruptionAlwaysHasCause`. `Assembling`: packets of one frame agree about its
  fragments, and the slots are those of one frame with `received` counting the
  filled ones, also after a slot vector was cleared. `Sound`: as long as none of
  the named causes occurred, a loss no queued keyframe makes up for has its flag
  raised, a gap in the queue is such a loss, and a decoder without its references
  is told, suppresses, or finds a keyframe in what it is about to take.
* `ClientSession_proofs`. `TypeCorrect`, `OneRecorderAtATime`, `ViewAlwaysAgrees`,
  `NothingIsAbandoned`. `Recorders`: a client that holds no capture task has none
  running unless a command gave up. `View` follows the channel through both
  queues: as long as requests to join are under way the last of them is the
  channel the client records, then the last user list in the other queue names
  the channel of the server, and once that is read the client's channel is the
  server's and its media key is there or behind the list. `Held` does it for
  shares and watches: what the server holds, or will hold when it comes to the
  requests in the queue, is ended by a request in the queue or held by the
  client.
* `ChatHistory_proofs`. `TypeCorrect`, `OpenAlwaysOnDisk`, `AlwaysLostKnowingly`,
  `ArchiveAlwaysStore`. The invariant says where there is no history to lose:
  during a write at its path (`Truncated`), where the dialog is about to create
  one (`NothingThere`), and that the dialog speaks of the file the next command
  acts on (`Named`) unless a change of location was left half done. `Saved` says
  what a save in flight and a clearing leave of the archive: the save carries
  what is shown unless the timer will send another, and a clearing that began
  finds no save in flight unless one crossed it.
* `GroupKeys_proofs`. `KeysAlwaysTyped`, with the queues of both directions in
  the invariant. `NothingEverLost`: a message that was written is in exactly one
  of its places; `Apart` adds that no two places hold messages of one number,
  and that a message in a queue of its writer is not also being written.
  `AlwaysReadableByHolders`: `KeysInv` follows a key through both queues. Whoever
  is counted as a holder holds it, or the server did not relay it, or it is on its
  way in one of the queues; and ahead of every chat message in a queue is, for
  each holder it was encrypted for, that key, unless it arrived already. The
  steps of the clients are shown to do no more than `ClientDoes`, take one message in
  and put keys and covered messages at the end of the queue, those of the server no more
  than `ServerDoes`.
  `KeysAlwaysExchanged` and `MessagesAlwaysKept` speak of what is true when
  nothing is under way any more, so their invariant says, of two users and all
  that their four queues can hold, which of them still owes the other something.
  `PairInv` has four parts. `Given`: a key that somebody is counted to hold is
  held, was wasted, or is in one of the queues. `Answer`: when v, in a room or on
  its way there for good, counts u as a holder and u will not move, that key is
  under way and nothing behind it makes u forget v, or u has given its own key in
  return and sent what waited for it, or the key was wasted. `Both`: of two users
  in a room who will not move, one gives its key to the other; it has done so, or
  the bundle for it is coming, or it has asked for the bundle, or will when it
  reads that the other joined; of two who are between channels at least one has
  still to learn of the other, because it was told that the other left. This is
  where the two steps of a move on the server matter: whoever enters second is
  told of the first in its list, and the first is told of the second, so at least
  one of them asks. `Agrees`: the last list on its way to a user names the channel
  the server has it in, which is the one the reader gives its key for. What comes
  after what in a queue is said with `After`: a message of one kind with none of
  another behind it. As before the steps are abstracted first, to `ClientActs`
  and `ServerActs`, and the invariant is preserved once for each of them.
  `MessagesAlwaysKept` adds `WithSession`, a direct message that waits for a user
  one has a session with is late, and `NothingLost`.

Checked by TLC only: everything under fairness (`EveryoneSettles`,
`EmptyChannelRemoved`, `EveryRequestAnswered`, `TalkerLearned`, `ComesToRest`,
`ExchangeEnds`, `ShownIsSaved`), since liveness and `ENABLED` are beyond the
prover. Every invariant of a passing run, and every other action property, is
stated by a theorem.

## Not modelled, and why

* Settings, configuration parsing, the atomic rewrite of `channels.json`, TLS
  set-up: read once at the start, no shared state. What is loaded is in the
  constants.
* The TS3 bridge (`ts3_bridge.rs`): no module of the crate declares it, so it is
  not compiled.
* Wire encodings (`voipc-protocol` besides `video.rs`): messages are abstract.
* Codecs, pixel conversion, the platforms' capture and key hooks, audio devices,
  mixing, noise suppression: signal processing and platform calls. Their task
  life cycles and what they share with the rest are in `PushToTalk`,
  `VideoStream` and `ClientSession`.
* The cryptography of libsignal, the ratchets' state on disk, and the store of
  one-time pre-keys with its replenishment.
* Pokes, mute and deafen, volumes, device choice: one call or assignment each.
* Rendering, and the Android shell (the platform's activity and service life
  cycle).
* The token arithmetic of `RateLimiter` (floating point): a limiter may refuse.
* Two hazards of the server's runtime. Broadcasts wait for room in a client's
  queue of 64 while they hold a guard of a DashMap shard (`tcp.rs:1702`): whether
  two tasks meet there depends on the hashes of their keys. And `delete_channel`
  aborts the timer task it runs in (`state.rs:545`), which may cut off the
  notification of the clients; the server's own state does not depend on it.

## What is left

The store of one-time pre-keys; the queues of notifications, which would carry
the two hazards above.
