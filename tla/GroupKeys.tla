----------------------------- MODULE GroupKeys -----------------------------
(***************************************************************************)
(* The exchange of sender keys between the members of a channel            *)
(* (client/src-tauri/src/network.rs, the E2E helpers), the messages that   *)
(* wait for it (commands.rs, send_channel_message), the direct messages    *)
(* that wait for a session (send_direct_message) and the relay of the      *)
(* server (tcp.rs).  The keys let the members of a channel read each       *)
(* other's messages: who does not hold the sender's key shows a failure.   *)
(*                                                                         *)
(* Each client has one task that reads TCP and handles a message to its    *)
(* end, and a user who joins channels and writes messages meanwhile; both  *)
(* change SignalState under its lock.  The server handles the messages of  *)
(* a client in order; a join is two steps there, since the user has left   *)
(* one channel, and everybody was told, before it enters the other.  The   *)
(* cryptography of libsignal is reduced to who holds which key: decrypting *)
(* pairwise messages in order succeeds, and a message of a session whose   *)
(* other side has not answered carries the session with it ("prekey").     *)
(***************************************************************************)
EXTENDS Naturals, Sequences, FiniteSets, Functions

CONSTANTS
    Users,
    Rooms,          \* the channels besides the lobby
    Nowhere,        \* where a user is who has left one channel for another
    MaxJoins,       \* bound: requests to join
    Writers,        \* bound: who writes messages
    MaxChats        \* bound: messages, to channels and to users

Lobby == 0
Channels == Rooms \cup {Lobby}
Chats == 1..MaxChats

ASSUME KeysAssumption ==
    /\ IsFiniteSet(Users) /\ Writers \subseteq Users
    /\ Rooms \subseteq Nat \ {Lobby} /\ Users \cap Channels = {}
    /\ Nowhere \notin Channels
    /\ {MaxJoins, MaxChats} \subseteq Nat

VARIABLES
    \* --- the server ---
    chan,           \* the channel of each user
    entering,       \* the channel its connection task is about to enter
    toServer, toClient,
    \* --- SignalState of each client, and its current_channel_id ---
    channel,
    established,    \* established_sessions
    pending,        \* pending_sessions
    distributed,    \* sender_key_distributed
    holds,          \* the sender keys in the store: <<channel, user>>
    fresh,          \* the sessions whose other side has not answered
    waiting,        \* pending_messages: for a channel or a user, in the order of
                    \* their ids, since a user writes one at a time
    writer,         \* where send_channel_message or send_direct_message is
    \* --- counters and history ---
    joins, chats,
    rejected,       \* <<channel, from, to>>: keys the server did not relay
    wasted,         \* those its sender counts as distributed
    late,           \* messages queued after what they wait for had come, and
                    \* direct ones whose session came with a message instead
    sent,           \* messages handed to the connection
    expired,        \* messages dropped after a minute in the queue
    failed          \* what receivers could not read, and if they should have:
                    \* they were counted as holders and no key of theirs was rejected

server  == <<chan, entering>>
signal  == <<channel, established, pending, distributed, holds, fresh>>
counts  == <<joins, chats>>
history == <<rejected, wasted, late, sent, expired, failed>>
vars == <<server, toServer, toClient, signal, waiting, writer, counts, history>>

Others(u) == Users \ {u}

\* The messages; `to' on a chat message is history: who had the sender's key.
RequestJoin(ch)        == [type |-> "join", ch |-> ch]
RequestBundle(v)       == [type |-> "bundle_please", user |-> v]
SendKey(ch, v, prekey) == [type |-> "key", ch |-> ch, user |-> v, prekey |-> prekey]
SendChat(ch, id, to)   == [type |-> "chat", ch |-> ch, id |-> id, to |-> to]
SendDirect(v, prekey)  == [type |-> "direct", user |-> v, prekey |-> prekey]
UserList(ch, us)       == [type |-> "user_list", ch |-> ch, users |-> us]
UserJoined(v)          == [type |-> "joined", user |-> v]
UserLeft(v)            == [type |-> "left", user |-> v]
Bundle(v)              == [type |-> "bundle", user |-> v]
KeyReceived(ch, v, p)  == [type |-> "key", ch |-> ch, user |-> v, prekey |-> p]
ChatReceived(v, m)     == [type |-> "chat", ch |-> m.ch, user |-> v, id |-> m.id,
                           to |-> m.to]
DirectReceived(v, p)   == [type |-> "direct", user |-> v, prekey |-> p]

Targets == Rooms \cup Users       \* PendingTarget
Message == [for: Targets, id: Chats, old: BOOLEAN]
Writer  == [at: {"idle", "check", "queue"}, for: Targets \cup {Lobby}, id: 0..MaxChats]
NotWriting == [at |-> "idle", for |-> Lobby, id |-> 0]

TypeOK ==
    /\ chan \in [Users -> Channels \cup {Nowhere}]
    /\ entering \in [Users -> Channels]
    /\ channel \in [Users -> Channels]
    /\ {established[u] : u \in Users} \cup {pending[u] : u \in Users}
         \cup {fresh[u] : u \in Users} \subseteq SUBSET Users
    /\ distributed \in [Users -> [Rooms -> SUBSET Users]]
    /\ holds \in [Users -> SUBSET (Rooms \X Users)]
    /\ writer \in [Users -> Writer]
    /\ waiting \in [Users -> SUBSET Message]
    /\ joins \in 0..MaxJoins /\ chats \in 0..MaxChats
    /\ wasted \cup rejected \subseteq Rooms \X Users \X Users
    /\ late \cup sent \cup expired \subseteq Chats
    /\ failed \subseteq Chats \X BOOLEAN

\* Everybody is in the lobby and made a session with everybody else there;
\* nothing was sent over these sessions yet.
Init ==
    /\ chan = [u \in Users |-> Lobby] /\ entering = [u \in Users |-> Lobby]
    /\ toServer = [u \in Users |-> <<>>] /\ toClient = [u \in Users |-> <<>>]
    /\ channel = [u \in Users |-> Lobby]
    /\ established = [u \in Users |-> Others(u)] /\ pending = [u \in Users |-> {}]
    /\ distributed = [u \in Users |-> [r \in Rooms |-> {}]]
    /\ holds = [u \in Users |-> {}] /\ fresh = [u \in Users |-> Others(u)]
    /\ waiting = [u \in Users |-> {}] /\ writer = [u \in Users |-> NotWriting]
    /\ joins = 0 /\ chats = 0
    /\ rejected = {} /\ wasted = {} /\ late = {} /\ sent = {} /\ expired = {} /\ failed = {}

----------------------------------------------------------------------------
(* The user.                                                               *)

Post(u, ms) == toServer' = [toServer EXCEPT ![u] = @ \o ms]

\* Nobody in ch has our key any more, as far as we know.
Forget(u, ch) ==
    IF ch \in Rooms
    THEN /\ distributed' = [distributed EXCEPT ![u][ch] = {}]
         /\ wasted' = {w \in wasted : <<w[1], w[2]>> # <<ch, u>>}
    ELSE UNCHANGED <<distributed, wasted>>

\* join_channel: sends, takes the channel over, and forgets to whom the key of
\* that channel was distributed.
Join(u, ch) ==
    /\ joins < MaxJoins /\ joins' = joins + 1
    /\ Post(u, <<RequestJoin(ch)>>)
    /\ channel' = [channel EXCEPT ![u] = ch]
    /\ Forget(u, ch)
    /\ UNCHANGED <<server, toClient, established, pending, holds, fresh, waiting, writer,
                   chats, rejected, late, sent, expired, failed>>

BeginWriting(u, target) ==
    /\ u \in Writers /\ writer[u] = NotWriting
    /\ chats < MaxChats /\ chats' = chats + 1
    /\ writer' = [writer EXCEPT ![u] = [at |-> "check", for |-> target, id |-> chats + 1]]
    /\ UNCHANGED <<server, toServer, toClient, signal, waiting, joins, history>>

\* send_channel_message reads the channel under the lock of the connection,
\* then looks for its keys under the lock of SignalState.
Write(u) == channel[u] # Lobby /\ BeginWriting(u, channel[u])

\* send_direct_message is for anybody, whatever channel they are in.
WriteTo(u, v) == u # v /\ BeginWriting(u, v)

\* What a message needs: a key at one member of the channel or more, or a
\* session with the user.
KeysFor(u, target) ==
    IF target \in Users THEN established[u] \cap {target} ELSE distributed[u][target]

\* With it the message is encrypted and sent.
CheckKeys(u) ==
    LET target == writer[u].for
        to == KeysFor(u, target) IN
    /\ writer[u].at = "check"
    /\ IF to # {}
       THEN /\ Post(u, <<IF target \in Users THEN SendDirect(target, target \in fresh[u])
                                             ELSE SendChat(target, writer[u].id, to)>>)
            /\ sent' = sent \cup {writer[u].id}
            /\ writer' = [writer EXCEPT ![u] = NotWriting]
       ELSE /\ writer' = [writer EXCEPT ![u].at = "queue"]
            /\ UNCHANGED <<toServer, sent>>
    /\ UNCHANGED <<server, toClient, signal, waiting, counts, rejected, wasted, late, expired, failed>>

\* Otherwise it is queued, after the lock was let go and taken again.
Queue(u) ==
    LET target == writer[u].for IN
    /\ writer[u].at = "queue"
    /\ waiting' = [waiting EXCEPT ![u] =
                      @ \cup {[for |-> target, id |-> writer[u].id, old |-> FALSE]}]
    /\ late' = IF KeysFor(u, target) # {} THEN late \cup {writer[u].id} ELSE late
    /\ writer' = [writer EXCEPT ![u] = NotWriting]
    /\ UNCHANGED <<server, toServer, toClient, signal, counts, rejected, wasted, sent,
                   expired, failed>>

\* A minute passes.
Age(u) ==
    /\ \E m \in waiting[u] : ~m.old
    /\ waiting' = [waiting EXCEPT ![u] = {[m EXCEPT !.old = TRUE] : m \in @}]
    /\ UNCHANGED <<server, toServer, toClient, signal, writer, counts, history>>

----------------------------------------------------------------------------
(* The reader of each client.                                              *)

Reading(u, type) ==
    /\ toClient[u] # <<>> /\ Head(toClient[u]).type = type
    /\ toClient' = [toClient EXCEPT ![u] = Tail(@)]

\* request_prekey_bundles_for_users: in the order of the list, which is any.
Unknown(u, vs) == vs \ ({u} \cup established[u] \cup pending[u])
Orders(set) == Injection(1..Cardinality(set), set)
Ask(u, vs) ==
    /\ pending' = [pending EXCEPT ![u] = @ \cup Unknown(u, vs)]
    /\ \E asked \in Orders(Unknown(u, vs)) :
         Post(u, [i \in DOMAIN asked |-> RequestBundle(asked[i])])

ReadUserList(u) ==
    /\ Reading(u, "user_list")
    /\ LET m == Head(toClient[u]) IN
       /\ channel' = [channel EXCEPT ![u] = m.ch]
       /\ Forget(u, IF m.ch # channel[u] THEN m.ch ELSE Lobby)
       /\ Ask(u, m.users)
    /\ UNCHANGED <<server, established, holds, fresh, waiting, writer, counts, rejected,
                   late, sent, expired, failed>>

ReadUserJoined(u) ==
    /\ Reading(u, "joined")
    /\ Ask(u, {Head(toClient[u]).user})
    /\ UNCHANGED <<server, channel, established, distributed, holds, fresh, waiting, writer,
                   counts, history>>

\* Whoever moves is forgotten, in every channel: a new session will be made.
ReadUserLeft(u) ==
    /\ Reading(u, "left")
    /\ LET v == Head(toClient[u]).user IN
       /\ established' = [established EXCEPT ![u] = @ \ {v}]
       /\ pending' = [pending EXCEPT ![u] = @ \ {v}]
       /\ distributed' = [distributed EXCEPT ![u] = [r \in Rooms |-> @[r] \ {v}]]
       /\ wasted' = {w \in wasted : <<w[2], w[3]>> # <<u, v>>}
    /\ UNCHANGED <<server, toServer, channel, holds, fresh, waiting, writer, counts, rejected,
                   late, sent, expired, failed>>

\* For mutation testing: what is sent is kept.
KeptAll(u, target) == waiting[u]

\* drain_pending_dms and drain_pending_channel_messages: what is due is sent,
\* what is overdue dropped, what is for another target kept.
For(u, target)     == {m \in waiting[u] : m.for = target}
Due(u, target)     == {m \in For(u, target) : ~m.old}
Overdue(u, target) == {m \in For(u, target) : m.old}
Kept(u, target)    == {m \in waiting[u] : m.for # target}
Ids(ms) == {m.id : m \in ms}

\* Messages one after the other, as they were queued.
Queued(ms) == {s \in Orders(ms) : \A i, j \in DOMAIN s : i < j => s[i].id < s[j].id}

Drained(u, target) ==
    /\ waiting' = [waiting EXCEPT ![u] = Kept(u, target)]
    /\ sent' = sent \cup Ids(Due(u, target))
    /\ expired' = expired \cup Ids(Overdue(u, target))

\* handle_prekey_bundle: the session is made, the direct messages that waited for
\* it are sent, then our key for the channel we believe to be in.
ReadBundle(u) ==
    /\ Reading(u, "bundle")
    /\ LET v == Head(toClient[u]).user
           ch == channel[u]
           direct == [i \in 1..Cardinality(Due(u, v)) |-> SendDirect(v, TRUE)] IN
       /\ established' = [established EXCEPT ![u] = @ \cup {v}]
       /\ pending' = [pending EXCEPT ![u] = @ \ {v}]
       /\ fresh' = [fresh EXCEPT ![u] = @ \cup {v}]
       /\ Drained(u, v)
       /\ Post(u, direct \o IF ch # Lobby THEN <<SendKey(ch, v, TRUE)>> ELSE <<>>)
       /\ distributed' = IF ch # Lobby THEN [distributed EXCEPT ![u][ch] = @ \cup {v}]
                         ELSE distributed
    /\ UNCHANGED <<server, channel, holds, writer, counts, rejected, wasted, late, failed>>

\* A message of v can carry the session with it.  Nothing drains the direct
\* messages that wait for one.
TakeSession(u, v, prekey) ==
    /\ established' = IF prekey THEN [established EXCEPT ![u] = @ \cup {v}] ELSE established
    /\ pending' = IF prekey THEN [pending EXCEPT ![u] = @ \ {v}] ELSE pending
    /\ fresh' = [fresh EXCEPT ![u] = @ \ {v}]
    /\ late' = IF prekey THEN late \cup Ids(For(u, v)) ELSE late

\* Variants for mutation testing: nothing is owed in return, everything always is.
NeverOwed(u, v, ch)  == FALSE
AlwaysOwed(u, v, ch) == TRUE
Owed(u, v, ch) == v \notin distributed[u][ch]

\* Our key goes ahead of the messages; for mutation testing, behind them.
KeyLast(ours, due)  == due \o ours
KeyFirst(ours, due) == ours \o due

\* handle_sender_key_received: keep the key, send ours if the sender has not
\* had it, and send what waited for it.
ReadKey(u) ==
    /\ Reading(u, "key")
    /\ LET m == Head(toClient[u])
           ch == m.ch
           v == m.user
           ours == IF Owed(u, v, ch) THEN <<SendKey(ch, v, FALSE)>> ELSE <<>>
           to == distributed[u][ch] \cup {v} IN
       /\ holds' = [holds EXCEPT ![u] = @ \cup {<<ch, v>>}]
       /\ TakeSession(u, v, m.prekey)
       /\ distributed' = [distributed EXCEPT ![u][ch] = to]
       /\ \E due \in Queued(Due(u, ch)) :
            Post(u, KeyFirst(ours, [i \in DOMAIN due |-> SendChat(ch, due[i].id, to)]))
       /\ Drained(u, ch)
    /\ UNCHANGED <<server, channel, writer, counts, rejected, wasted, failed>>

\* handle_encrypted_direct_message: our own, which the server echoes, are skipped.
ReadDirect(u) ==
    /\ Reading(u, "direct")
    /\ LET m == Head(toClient[u]) IN
       IF m.user = u THEN UNCHANGED <<established, pending, fresh, late>>
       ELSE TakeSession(u, m.user, m.prekey)
    /\ UNCHANGED <<server, toServer, channel, distributed, holds, waiting, writer, counts,
                   rejected, wasted, sent, expired, failed>>

\* handle_encrypted_channel_message: shown, or shown as a failure.
ReadChat(u) ==
    /\ Reading(u, "chat")
    /\ LET m == Head(toClient[u]) IN
       failed' = IF <<m.ch, m.user>> \in holds[u] THEN failed
                 ELSE failed \cup {<<m.id, u \in m.to /\ <<m.ch, m.user, u>> \notin rejected>>}
    /\ UNCHANGED <<server, toServer, signal, waiting, writer, counts, rejected, wasted, late, sent,
                   expired>>

----------------------------------------------------------------------------
(* The server.                                                             *)

Serving(u, type) ==
    /\ chan[u] # Nowhere
    /\ toServer[u] # <<>> /\ Head(toServer[u]).type = type
    /\ toServer' = [toServer EXCEPT ![u] = Tail(@)]

Tell(vs, m) == toClient' = [v \in Users |-> IF v \in vs THEN Append(toClient[v], m)
                                            ELSE toClient[v]]

ServerLeaves(u) ==
    /\ Serving(u, "join")
    /\ chan' = [chan EXCEPT ![u] = Nowhere]
    /\ entering' = [entering EXCEPT ![u] = Head(toServer[u]).ch]
    /\ Tell(Others(u), UserLeft(u))
    /\ UNCHANGED <<signal, waiting, writer, counts, history>>

\* Who enters is told the channel it entered; for mutation testing, the one its
\* session named before.
ToldOld(u) == chan[u]
Told(u)    == entering[u]

ServerEnters(u) ==
    /\ chan[u] = Nowhere
    /\ chan' = [chan EXCEPT ![u] = entering[u]]
    /\ toClient' = [v \in Users |->
           Append(toClient[v],
                  IF v = u THEN UserList(Told(u), {w \in Users : chan'[w] = entering[u]})
                  ELSE UserJoined(u))]
    /\ UNCHANGED <<entering, toServer, signal, waiting, writer, counts, history>>

ServerBundle(u) ==
    /\ Serving(u, "bundle_please")
    /\ Tell({u}, Bundle(Head(toServer[u]).user))
    /\ UNCHANGED <<server, signal, waiting, writer, counts, history>>

\* A sender key is relayed between members of its channel only.
ServerKey(u) ==
    /\ Serving(u, "key")
    /\ LET m == Head(toServer[u])
           relayed == chan[u] = m.ch /\ chan[m.user] = m.ch IN
       /\ IF relayed THEN Tell({m.user}, KeyReceived(m.ch, u, m.prekey))
                     ELSE UNCHANGED toClient
       /\ wasted' = IF relayed THEN wasted ELSE wasted \cup {<<m.ch, u, m.user>>}
       /\ rejected' = rejected \cup (wasted' \ wasted)
    /\ UNCHANGED <<server, signal, waiting, writer, counts, late, sent, expired, failed>>

\* A channel message goes to the channel its sender is in.
ServerChat(u) ==
    /\ Serving(u, "chat")
    /\ IF chan[u] # Lobby
       THEN Tell({v \in Others(u) : chan[v] = chan[u]}, ChatReceived(u, Head(toServer[u])))
       ELSE UNCHANGED toClient
    /\ UNCHANGED <<server, signal, waiting, writer, counts, history>>

\* A direct message goes to its target, wherever that is, and back as an echo.
ServerDirect(u) ==
    /\ Serving(u, "direct")
    /\ LET m == Head(toServer[u]) IN Tell({m.user, u}, DirectReceived(u, m.prekey))
    /\ UNCHANGED <<server, signal, waiting, writer, counts, history>>

----------------------------------------------------------------------------
ReaderStep(u) ==
    \/ ReadUserList(u) \/ ReadUserJoined(u) \/ ReadUserLeft(u)
    \/ ReadBundle(u) \/ ReadKey(u) \/ ReadChat(u) \/ ReadDirect(u)
ServerStep(u) ==
    \/ ServerLeaves(u) \/ ServerEnters(u)
    \/ ServerBundle(u) \/ ServerKey(u) \/ ServerChat(u) \/ ServerDirect(u)
WriterStep(u) == CheckKeys(u) \/ Queue(u)
UserStep(u) ==
    \/ Write(u)
    \/ \E v \in Users : WriteTo(u, v)
    \/ Age(u)
    \/ \E ch \in Channels : Join(u, ch)

Next == \E u \in Users : ReaderStep(u) \/ ServerStep(u) \/ WriterStep(u) \/ UserStep(u)

Spec == Init /\ [][Next]_vars

\* Tasks that can run do; users need not do anything, and time need not pass.
FairSpec ==
    /\ Spec
    /\ \A u \in Users : WF_vars(ReaderStep(u)) /\ WF_vars(ServerStep(u)) /\ WF_vars(WriterStep(u))

----------------------------------------------------------------------------
(* Properties.                                                             *)

Settled == \A u \in Users :
    /\ toServer[u] = <<>> /\ toClient[u] = <<>>
    /\ chan[u] # Nowhere /\ writer[u] = NotWriting

Together(u, v, r) == u # v /\ chan[u] = r /\ chan[v] = r

\* Neither was told apart from the other's key by a relay that came too early.
Relayed(u, v, r) == {<<r, u, v>>, <<r, v, u>>} \cap wasted = {}

\* Once nothing is under way, the members of a channel hold each other's sender
\* keys, in whatever order they came, however their handshakes crossed and
\* however often they moved.  Excepted are keys that reached the server while
\* their addressee was between two channels: they are counted as distributed,
\* and nothing distributes them again.
KeysExchanged ==
    Settled => \A r \in Rooms : \A u, v \in Users :
        Together(u, v, r) /\ Relayed(u, v, r) => <<r, u>> \in holds[v]

\* Where the messages are that were not handed over, and not dropped either.
Unsent == (UNION {Ids(waiting[u]) : u \in Users}) \cup ({writer[u].id : u \in Users} \ {0})

\* No message is lost between the writer, the queue, which is emptied and
\* refilled for every key and every session that comes, and the connection; and
\* none that was sent, or dropped, is still to be sent.
NothingLost ==
    /\ 1..chats = sent \cup expired \cup Unsent
    /\ sent \cap expired = {} /\ (sent \cup expired) \cap Unsent = {}

\* No message is lost, and a queued message does not outlast what it waits for:
\* when nothing is under way and its writer shares its channel with another
\* member, or has a session with the user it is for, it has been sent, unless it
\* was queued after the keys had come or its session came with a message of the
\* other side.
MessagesKept ==
    /\ NothingLost
    /\ Settled => \A u, v \in Users : \A m \in waiting[u] :
         (\/ Together(u, v, m.for) /\ Relayed(u, v, m.for)
          \/ m.for = v /\ v \in established[u]) => m.id \in late

\* What send_direct_message says of its queue: a message in it is sent when the
\* session is established.
SentWithSession ==
    Settled => \A u, v \in Users : v \in established[u] => For(u, v) = {}

\* Only a receiver the sender had not counted among the holders of its key is
\* shown a failure: the key travels ahead of the message, through both queues.
ReadableByHolders == \A f \in failed : ~f[2]

\* Keys are not sent back and forth for ever: an exchange that nobody disturbs
\* comes to its end.
ExchangeEnds == <>[]Settled
=============================================================================
