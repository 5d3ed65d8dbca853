-------------------------- MODULE GroupKeys_proofs --------------------------
(***************************************************************************)
(* Theorems about GroupKeys, for any number of users, rooms, joins and     *)
(* messages, whoever writes them.                                          *)
(***************************************************************************)
EXTENDS GroupKeys, FiniteSetTheorems, TLAPS

USE KeysAssumption

----------------------------------------------------------------------------
(* Types.                                                                  *)

\* What a client can have under way to the server, and the server to a client.
ToServer ==
    [type: {"join"}, ch: Channels] \cup [type: {"bundle_please"}, user: Users]
    \cup [type: {"key"}, ch: Rooms, user: Users, prekey: BOOLEAN]
    \cup [type: {"chat"}, ch: Rooms, id: Chats, to: SUBSET Users]
    \cup [type: {"direct"}, user: Users, prekey: BOOLEAN]

ToClient ==
    [type: {"user_list"}, ch: Channels, users: SUBSET Users]
    \cup [type: {"joined", "left", "bundle"}, user: Users]
    \cup [type: {"key"}, ch: Rooms, user: Users, prekey: BOOLEAN]
    \cup [type: {"chat"}, ch: Rooms, user: Users, id: Chats, to: SUBSET Users]
    \cup [type: {"direct"}, user: Users, prekey: BOOLEAN]

QueuesTyped ==
    /\ toServer \in [Users -> Seq(ToServer)]
    /\ toClient \in [Users -> Seq(ToClient)]

ServerTyped == chan \in [Users -> Channels \cup {Nowhere}] /\ entering \in [Users -> Channels]
SignalTyped ==
    /\ channel \in [Users -> Channels]
    /\ established \in [Users -> SUBSET Users] /\ pending \in [Users -> SUBSET Users]
    /\ fresh \in [Users -> SUBSET Users]
    /\ distributed \in [Users -> [Rooms -> SUBSET Users]]
    /\ holds \in [Users -> SUBSET (Rooms \X Users)]
WritingTyped ==
    /\ writer \in [Users -> Writer]
    /\ waiting \in [Users -> SUBSET Message]
    /\ \A u \in Users :
         /\ IsFiniteSet(waiting[u])
         /\ writer[u].at = "idle" <=> writer[u] = NotWriting
         /\ writer[u].at # "idle" => writer[u].for \in Targets /\ writer[u].id # 0
    /\ chats \in 0..MaxChats
    /\ late \cup sent \cup expired \subseteq Chats
KeysTyped ==
    /\ wasted \cup rejected \subseteq Rooms \X Users \X Users
    /\ failed \subseteq Chats \X BOOLEAN

\* The inductive type invariant, by what changes together.
Typed ==
    /\ QueuesTyped /\ ServerTyped /\ SignalTyped /\ WritingTyped /\ KeysTyped
    /\ joins \in 0..MaxJoins

LEMMA TypedOK == Typed => TypeOK
<1> SUFFICES ASSUME Typed PROVE TypeOK OBVIOUS
<1> USE DEF Typed, ServerTyped, SignalTyped, WritingTyped, KeysTyped
<1>1. {established[u] : u \in Users} \cup {pending[u] : u \in Users}
        \cup {fresh[u] : u \in Users} \subseteq SUBSET Users
  OBVIOUS
<1> QED BY <1>1 DEF TypeOK

LEMMA Places ==
    /\ Lobby \in Channels /\ Rooms \subseteq Channels /\ Lobby \notin Rooms
    /\ \A ch \in Channels : ch # Lobby => ch \in Rooms
    /\ Rooms \subseteq Targets /\ Users \subseteq Targets
    /\ \A t \in Targets : t \notin Users => t \in Rooms
    /\ Users \cap Rooms = {} /\ Lobby \notin Targets
BY DEF Lobby, Channels, Targets

LEMMA Constructors ==
    /\ \A ch \in Channels : RequestJoin(ch) \in ToServer
    /\ \A v \in Users : RequestBundle(v) \in ToServer
    /\ \A ch \in Rooms, v \in Users, p \in BOOLEAN : SendKey(ch, v, p) \in ToServer
    /\ \A ch \in Rooms, id \in Chats, to \in SUBSET Users : SendChat(ch, id, to) \in ToServer
    /\ \A v \in Users, p \in BOOLEAN : SendDirect(v, p) \in ToServer
    /\ \A ch \in Channels, us \in SUBSET Users : UserList(ch, us) \in ToClient
    /\ \A v \in Users : /\ UserJoined(v) \in ToClient /\ UserLeft(v) \in ToClient
                        /\ Bundle(v) \in ToClient
    /\ \A ch \in Rooms, v \in Users, p \in BOOLEAN : KeyReceived(ch, v, p) \in ToClient
    /\ \A v \in Users, p \in BOOLEAN : DirectReceived(v, p) \in ToClient
<1> USE DEF ToServer, ToClient
<1>1. \A ch \in Channels : RequestJoin(ch) \in ToServer BY DEF RequestJoin
<1>2. \A v \in Users : RequestBundle(v) \in ToServer BY DEF RequestBundle
<1>3. \A ch \in Rooms, v \in Users, p \in BOOLEAN : SendKey(ch, v, p) \in ToServer
  BY DEF SendKey
<1>4. \A ch \in Rooms, id \in Chats, to \in SUBSET Users : SendChat(ch, id, to) \in ToServer
  BY DEF SendChat
<1>5. \A v \in Users, p \in BOOLEAN : SendDirect(v, p) \in ToServer BY DEF SendDirect
<1>6. \A ch \in Channels, us \in SUBSET Users : UserList(ch, us) \in ToClient BY DEF UserList
<1>7. \A v \in Users : /\ UserJoined(v) \in ToClient /\ UserLeft(v) \in ToClient
                       /\ Bundle(v) \in ToClient
  BY DEF UserJoined, UserLeft, Bundle
<1>8. \A ch \in Rooms, v \in Users, p \in BOOLEAN : KeyReceived(ch, v, p) \in ToClient
  BY DEF KeyReceived
<1>9. \A v \in Users, p \in BOOLEAN : DirectReceived(v, p) \in ToClient BY DEF DirectReceived
<1> HIDE DEF ToServer, ToClient
<1> QED BY <1>1, <1>2, <1>3, <1>4, <1>5, <1>6, <1>7, <1>8, <1>9

\* The fields of a message by its type.
LEMMA Fields ==
    /\ \A m \in ToServer :
         /\ m.type \in {"join", "bundle_please", "key", "chat", "direct"}
         /\ m.type = "join" => m.ch \in Channels
         /\ m.type \in {"bundle_please", "key", "direct"} => m.user \in Users
         /\ m.type \in {"key", "chat"} => m.ch \in Rooms
         /\ m.type \in {"key", "direct"} => m.prekey \in BOOLEAN
         /\ m.type = "chat" => m.id \in Chats /\ m.to \in SUBSET Users
    /\ \A m \in ToClient :
         /\ m.type \in {"user_list", "joined", "left", "bundle", "key", "chat", "direct"}
         /\ m.type = "user_list" => m.ch \in Channels /\ m.users \in SUBSET Users
         /\ m.type # "user_list" => m.user \in Users
         /\ m.type \in {"key", "chat"} => m.ch \in Rooms
         /\ m.type \in {"key", "direct"} => m.prekey \in BOOLEAN
         /\ m.type = "chat" => m.id \in Chats /\ m.to \in SUBSET Users
<1>1. \A m \in ToServer :
         /\ m.type \in {"join", "bundle_please", "key", "chat", "direct"}
         /\ m.type = "join" => m.ch \in Channels
         /\ m.type \in {"bundle_please", "key", "direct"} => m.user \in Users
         /\ m.type \in {"key", "chat"} => m.ch \in Rooms
         /\ m.type \in {"key", "direct"} => m.prekey \in BOOLEAN
         /\ m.type = "chat" => m.id \in Chats /\ m.to \in SUBSET Users
  BY DEF ToServer
<1>2. \A m \in ToClient :
         /\ m.type \in {"user_list", "joined", "left", "bundle", "key", "chat", "direct"}
         /\ m.type = "user_list" => m.ch \in Channels /\ m.users \in SUBSET Users
         /\ m.type # "user_list" => m.user \in Users
         /\ m.type \in {"key", "chat"} => m.ch \in Rooms
         /\ m.type \in {"key", "direct"} => m.prekey \in BOOLEAN
         /\ m.type = "chat" => m.id \in Chats /\ m.to \in SUBSET Users
  BY DEF ToClient
<1> QED BY <1>1, <1>2

\* A chat message goes on as it is.
LEMMA ChatGoesOn ==
    ASSUME NEW m \in ToServer, m.type = "chat", NEW v \in Users
    PROVE  /\ ChatReceived(v, m) \in ToClient
           /\ ChatReceived(v, m) = [type |-> "chat", ch |-> m.ch, user |-> v, id |-> m.id,
                                    to |-> m.to]
<1>1. m.ch \in Rooms /\ m.id \in Chats /\ m.to \in SUBSET Users BY Fields
<1> QED BY <1>1 DEF ChatReceived, ToClient

\* What the operations do to the queues.
LEMMA Posted ==
    ASSUME QueuesTyped, NEW u \in Users, NEW ms \in Seq(ToServer), Post(u, ms)
    PROVE  /\ toServer' \in [Users -> Seq(ToServer)]
           /\ toServer'[u] = toServer[u] \o ms
           /\ \A v \in Users : v # u => toServer'[v] = toServer[v]
BY DEF QueuesTyped, Post

LEMMA Read ==
    ASSUME QueuesTyped, NEW u \in Users, NEW type, Reading(u, type)
    PROVE  /\ toClient' \in [Users -> Seq(ToClient)]
           /\ toClient[u] # <<>> /\ toClient'[u] = Tail(toClient[u])
           /\ Head(toClient[u]) \in ToClient /\ Head(toClient[u]).type = type
           /\ \A v \in Users : v # u => toClient'[v] = toClient[v]
<1>1. toClient[u] \in Seq(ToClient) /\ toClient[u] # <<>> BY DEF QueuesTyped, Reading
<1>2. Head(toClient[u]) \in ToClient /\ Tail(toClient[u]) \in Seq(ToClient) BY <1>1
<1> QED BY <1>1, <1>2 DEF QueuesTyped, Reading

LEMMA ServedIs ==
    ASSUME QueuesTyped, NEW u \in Users, NEW type, Serving(u, type)
    PROVE  /\ toServer' \in [Users -> Seq(ToServer)]
           /\ toServer[u] # <<>> /\ toServer'[u] = Tail(toServer[u])
           /\ Head(toServer[u]) \in ToServer /\ Head(toServer[u]).type = type
           /\ \A v \in Users : v # u => toServer'[v] = toServer[v]
           /\ chan[u] # Nowhere
<1>1. toServer[u] \in Seq(ToServer) /\ toServer[u] # <<>> BY DEF QueuesTyped, Serving
<1>2. Head(toServer[u]) \in ToServer /\ Tail(toServer[u]) \in Seq(ToServer) BY <1>1
<1> QED BY <1>1, <1>2 DEF QueuesTyped, Serving

LEMMA Tells ==
    ASSUME QueuesTyped, NEW vs, NEW m \in ToClient, Tell(vs, m)
    PROVE  /\ toClient' \in [Users -> Seq(ToClient)]
           /\ \A v \in Users : toClient'[v] = IF v \in vs THEN Append(toClient[v], m)
                                              ELSE toClient[v]
BY DEF QueuesTyped, Tell

LEMMA Single == ASSUME NEW S, NEW x \in S PROVE <<x>> \in Seq(S)
OBVIOUS

LEMMA Ordered ==
    ASSUME NEW set, IsFiniteSet(set), NEW s \in Orders(set)
    PROVE  /\ Cardinality(set) \in Nat /\ DOMAIN s = 1..Cardinality(set)
           /\ s \in Seq(set) /\ Len(s) = Cardinality(set)
           /\ \A i \in DOMAIN s : s[i] \in set
           /\ \A x \in set : \E i \in DOMAIN s : s[i] = x
<1> DEFINE n == Cardinality(set)
<1>1. n \in Nat BY FS_CardinalityType
<1>2. s \in [1..n -> set] BY DEF Orders, Injection
<1>3. s \in Injection(1..n, set) BY DEF Orders
<1>4. IsFiniteSet(1..n) /\ Cardinality(1..n) = n BY <1>1, FS_Interval
<1>5. s \in Surjection(1..n, set) BY <1>3, <1>4, FS_Injection
<1>6. \A x \in set : \E i \in 1..n : s[i] = x BY <1>5 DEF Surjection
<1> QED BY <1>1, <1>2, <1>6

\* What is asked of the server.
LEMMA Asks ==
    ASSUME QueuesTyped, NEW u \in Users, NEW vs \in SUBSET Users, Ask(u, vs)
    PROVE  /\ \E ms \in Seq(ToServer) :
                /\ Post(u, ms) /\ Len(ms) \in Nat
                /\ \A i \in 1..Len(ms) : \E v \in Unknown(u, vs) : ms[i] = RequestBundle(v)
                /\ \A v \in Unknown(u, vs) : \E i \in 1..Len(ms) : ms[i] = RequestBundle(v)
           /\ pending' = [pending EXCEPT ![u] = @ \cup Unknown(u, vs)]
           /\ Unknown(u, vs) \subseteq Users
<1>1. Unknown(u, vs) \subseteq Users BY DEF Unknown
<1>2. IsFiniteSet(Unknown(u, vs)) BY <1>1, FS_Subset
<1>3. PICK asked \in Orders(Unknown(u, vs)) :
        Post(u, [i \in DOMAIN asked |-> RequestBundle(asked[i])])
  BY DEF Ask
<1> DEFINE n == Cardinality(Unknown(u, vs))
<1> DEFINE ms == [i \in DOMAIN asked |-> RequestBundle(asked[i])]
<1>4. /\ n \in Nat /\ DOMAIN asked = 1..n /\ \A i \in 1..n : asked[i] \in Unknown(u, vs)
      /\ \A v \in Unknown(u, vs) : \E i \in 1..n : asked[i] = v
  BY <1>2, Ordered
<1>5. \A i \in 1..n : RequestBundle(asked[i]) \in ToServer BY <1>1, <1>4, Constructors
<1>6. ms \in [1..n -> ToServer] BY <1>4, <1>5
<1>7. ms \in Seq(ToServer) /\ Len(ms) = n BY <1>4, <1>6
<1>8. \A i \in 1..Len(ms) : \E v \in Unknown(u, vs) : ms[i] = RequestBundle(v)
  BY <1>4, <1>7
<1>9. \A v \in Unknown(u, vs) : \E i \in 1..Len(ms) : ms[i] = RequestBundle(v)
  BY <1>4, <1>7
<1> QED BY <1>1, <1>3, <1>4, <1>7, <1>8, <1>9 DEF Ask

LEMMA InitTyped == Init => Typed
<1> SUFFICES ASSUME Init PROVE Typed OBVIOUS
<1> USE DEF Init
<1>1. QueuesTyped BY DEF QueuesTyped
<1>2. NotWriting \in Writer BY DEF NotWriting, Writer
<1>3. ServerTyped BY Places DEF ServerTyped
<1>4. SignalTyped BY Places DEF SignalTyped, Others
<1>5. WritingTyped BY <1>2, FS_EmptySet DEF WritingTyped, NotWriting
<1>6. KeysTyped BY DEF KeysTyped
<1> QED BY <1>1, <1>3, <1>4, <1>5, <1>6 DEF Typed

LEMMA Forgets ==
    ASSUME SignalTyped, KeysTyped, NEW u \in Users, NEW ch \in Channels, Forget(u, ch)
    PROVE  /\ distributed' \in [Users -> [Rooms -> SUBSET Users]]
           /\ wasted' \subseteq wasted
           /\ \A v \in Users, r \in Rooms : distributed'[v][r] \subseteq distributed[v][r]
<1>1. CASE ch \in Rooms
  <2>1. distributed' = [distributed EXCEPT ![u][ch] = {}]
        /\ wasted' = {w \in wasted : <<w[1], w[2]>> # <<ch, u>>}
    BY <1>1 DEF Forget
  <2> QED BY <1>1, <2>1 DEF SignalTyped
<1>2. CASE ch \notin Rooms BY <1>2 DEF Forget, SignalTyped
<1> QED BY <1>1, <1>2

LEMMA WritingSame ==
    ASSUME WritingTyped, UNCHANGED <<waiting, writer, chats, late, sent, expired>>
    PROVE  WritingTyped'
BY DEF WritingTyped

LEMMA JoinTyped == ASSUME Typed, NEW u \in Users, NEW ch \in Channels, Join(u, ch) PROVE Typed'
<1> USE DEF Typed
<1>1. <<RequestJoin(ch)>> \in Seq(ToServer) BY Constructors
<1>2. QueuesTyped' BY <1>1, Posted DEF Join, QueuesTyped
<1>3. Forget(u, ch) BY DEF Join
<1>4. ServerTyped' BY DEF Join, ServerTyped, server
<1>5. SignalTyped' BY <1>3, Forgets DEF Join, SignalTyped
<1>6. WritingTyped' BY WritingSame DEF Join
<1>7. KeysTyped' BY <1>3, Forgets DEF Join, KeysTyped
<1>8. joins' \in 0..MaxJoins BY DEF Join
<1> QED BY <1>2, <1>4, <1>5, <1>6, <1>7, <1>8

LEMMA BeginTyped ==
    ASSUME Typed, NEW u \in Users, NEW target \in Targets, BeginWriting(u, target)
    PROVE  Typed'
<1> USE DEF Typed
<1>1. UNCHANGED <<server, toServer, toClient, signal, waiting, joins, history>>
      /\ chats < MaxChats /\ chats' = chats + 1
      /\ writer' = [writer EXCEPT ![u] = [at |-> "check", for |-> target, id |-> chats + 1]]
  BY DEF BeginWriting
<1>2. QueuesTyped' /\ ServerTyped' /\ SignalTyped' /\ KeysTyped' /\ joins' \in 0..MaxJoins
  BY <1>1 DEF QueuesTyped, ServerTyped, SignalTyped, KeysTyped, server, signal, history
<1>3. chats' \in 0..MaxChats /\ chats + 1 \in 0..MaxChats /\ chats + 1 # 0
  BY <1>1 DEF WritingTyped
<1>4. [at |-> "check", for |-> target, id |-> chats + 1] \in Writer BY <1>3 DEF Writer
<1>5. writer' \in [Users -> Writer] BY <1>1, <1>4 DEF WritingTyped
<1>6. waiting' = waiting /\ late' = late /\ sent' = sent /\ expired' = expired
  BY <1>1 DEF history
<1>7. ASSUME NEW v \in Users
      PROVE  /\ writer'[v].at = "idle" <=> writer'[v] = NotWriting
             /\ writer'[v].at # "idle" => writer'[v].for \in Targets /\ writer'[v].id # 0
  <2>1. CASE v = u BY <1>1, <1>3, <2>1 DEF WritingTyped, NotWriting
  <2>2. CASE v # u
    <3>1. writer'[v] = writer[v] BY <1>1, <2>2 DEF WritingTyped
    <3> QED BY <3>1 DEF WritingTyped
  <2> QED BY <2>1, <2>2
<1>8. WritingTyped' BY <1>3, <1>5, <1>6, <1>7 DEF WritingTyped
<1> QED BY <1>2, <1>8

\* A writer that is done.
LEMMA WriterRests ==
    ASSUME WritingTyped, NEW u \in Users, writer' = [writer EXCEPT ![u] = NotWriting],
           chats' = chats, waiting' \in [Users -> SUBSET Message],
           \A v \in Users : IsFiniteSet(waiting'[v]),
           late' \cup sent' \cup expired' \subseteq Chats
    PROVE  WritingTyped'
<1>1. NotWriting \in Writer BY DEF NotWriting, Writer
<1>2. writer' \in [Users -> Writer] BY <1>1 DEF WritingTyped
<1>3. \A v \in Users : writer'[v] = IF v = u THEN NotWriting ELSE writer[v] BY DEF WritingTyped
<1>4. NotWriting.at = "idle" BY DEF NotWriting
<1>5. ASSUME NEW v \in Users
      PROVE  /\ writer'[v].at = "idle" <=> writer'[v] = NotWriting
             /\ writer'[v].at # "idle" => writer'[v].for \in Targets /\ writer'[v].id # 0
  <2>1. CASE v = u BY <1>3, <1>4, <2>1
  <2>2. CASE v # u BY <1>3, <2>2 DEF WritingTyped
  <2> QED BY <2>1, <2>2
<1> QED BY <1>2, <1>5 DEF WritingTyped

\* Who writes is writing to a room or a user.
LEMMA WriterAt ==
    ASSUME WritingTyped, NEW u \in Users, writer[u].at # "idle"
    PROVE  writer[u].for \in Targets /\ writer[u].id \in Chats /\ writer[u] \in Writer
<1>1. writer[u] \in Writer /\ writer[u].id # 0 BY DEF WritingTyped
<1>2. writer[u].id \in 0..MaxChats BY <1>1 DEF Writer
<1>3. writer[u].id \in Chats BY <1>1, <1>2 DEF Chats
<1> QED BY <1>1, <1>3 DEF WritingTyped

LEMMA KeysForType ==
    ASSUME SignalTyped, NEW u \in Users, NEW target \in Targets
    PROVE  /\ KeysFor(u, target) \subseteq Users
           /\ target \notin Users => target \in Rooms /\ KeysFor(u, target) = distributed[u][target]
BY Places DEF KeysFor, SignalTyped

LEMMA CheckTyped == ASSUME Typed, NEW u \in Users, CheckKeys(u) PROVE Typed'
<1> USE DEF Typed
<1> DEFINE target == writer[u].for
<1> DEFINE to == KeysFor(u, target)
<1>1. writer[u].at = "check" BY DEF CheckKeys
<1>2. target \in Targets /\ writer[u].id \in Chats /\ writer[u] \in Writer BY <1>1, WriterAt
<1>3. to \subseteq Users /\ (target \notin Users => target \in Rooms) BY <1>2, KeysForType
<1>4. ServerTyped' /\ SignalTyped' /\ KeysTyped' /\ joins' \in 0..MaxJoins
  BY DEF CheckKeys, ServerTyped, SignalTyped, KeysTyped, server, signal, counts
<1>5. CASE to # {}
  <2> DEFINE m == IF target \in Users THEN SendDirect(target, target \in fresh[u])
                  ELSE SendChat(target, writer[u].id, to)
  <2>0. Post(u, <<m>>) BY <1>5, Zenon DEF CheckKeys
  <2>1. sent' = sent \cup {writer[u].id} /\ writer' = [writer EXCEPT ![u] = NotWriting]
        /\ UNCHANGED <<toClient, waiting, chats, late, expired>>
    BY <1>5 DEF CheckKeys, counts
  <2>2. m \in ToServer
    <3>1. CASE target \in Users
      <4>1. (target \in fresh[u]) \in BOOLEAN OBVIOUS
      <4>2. SendDirect(target, target \in fresh[u]) \in ToServer
        BY <3>1, <4>1, Constructors, Zenon
      <4> QED BY <3>1, <4>2, Zenon
    <3>2. CASE target \notin Users
      <4>1. SendChat(target, writer[u].id, to) \in ToServer BY <1>2, <1>3, <3>2, Constructors
      <4> QED BY <3>2, <4>1, Zenon
    <3> QED BY <3>1, <3>2
  <2> HIDE DEF m
  <2>3. <<m>> \in Seq(ToServer) BY <2>2
  <2>4. toServer' \in [Users -> Seq(ToServer)] BY <2>0, <2>3, Posted
  <2>5. QueuesTyped' BY <2>1, <2>4 DEF QueuesTyped
  <2>6. WritingTyped' BY <1>2, <2>1, WriterRests DEF WritingTyped
  <2> QED BY <1>4, <2>5, <2>6
<1>6. CASE to = {}
  <2>1. writer' = [writer EXCEPT ![u].at = "queue"]
        /\ UNCHANGED <<toServer, toClient, sent, waiting, chats, late, expired>>
    BY <1>6 DEF CheckKeys, counts
  <2>2. QueuesTyped' BY <2>1 DEF QueuesTyped
  <2>3. [writer[u] EXCEPT !.at = "queue"] \in Writer BY <1>2 DEF Writer
  <2>4. writer' \in [Users -> Writer] BY <2>1, <2>3 DEF WritingTyped
  <2>5. ASSUME NEW v \in Users
        PROVE  /\ writer'[v].at = "idle" <=> writer'[v] = NotWriting
               /\ writer'[v].at # "idle" => writer'[v].for \in Targets /\ writer'[v].id # 0
    <3>1. CASE v = u
      <4>1. writer'[v] = [writer[u] EXCEPT !.at = "queue"] BY <2>1, <3>1 DEF WritingTyped
      <4>2. /\ writer'[v].at = "queue" /\ writer'[v].for = writer[u].for
            /\ writer'[v].id = writer[u].id
        BY <1>2, <4>1 DEF Writer
      <4>3. writer[u].id # 0 BY <1>1 DEF WritingTyped
      <4> QED BY <1>2, <4>2, <4>3 DEF NotWriting
    <3>2. CASE v # u
      <4>1. writer'[v] = writer[v] BY <2>1, <3>2 DEF WritingTyped
      <4> QED BY <4>1 DEF WritingTyped
    <3> QED BY <3>1, <3>2
  <2>6. WritingTyped' BY <2>1, <2>4, <2>5 DEF WritingTyped
  <2> QED BY <1>4, <2>2, <2>6
<1> QED BY <1>5, <1>6

LEMMA QueueTyped == ASSUME Typed, NEW u \in Users, Queue(u) PROVE Typed'
<1> USE DEF Typed
<1> DEFINE new == [for |-> writer[u].for, id |-> writer[u].id, old |-> FALSE]
<1>1. /\ writer[u].at = "queue" /\ waiting' = [waiting EXCEPT ![u] = @ \cup {new}]
      /\ late' \subseteq late \cup {writer[u].id} /\ writer' = [writer EXCEPT ![u] = NotWriting]
      /\ UNCHANGED <<server, toServer, toClient, signal, joins, chats, rejected, wasted, sent,
                     expired, failed>>
  BY DEF Queue, counts
<1>2. writer[u].for \in Targets /\ writer[u].id \in Chats BY <1>1, WriterAt
<1>3. QueuesTyped' /\ ServerTyped' /\ SignalTyped' /\ KeysTyped' /\ joins' \in 0..MaxJoins
  BY <1>1 DEF QueuesTyped, ServerTyped, SignalTyped, KeysTyped, server, signal
<1>4. new \in Message BY <1>2 DEF Message
<1> HIDE DEF new
<1>5. waiting' \in [Users -> SUBSET Message] BY <1>1, <1>4 DEF WritingTyped
<1>6. ASSUME NEW v \in Users PROVE IsFiniteSet(waiting'[v])
  <2>1. IsFiniteSet(waiting[v]) BY DEF WritingTyped
  <2>2. waiting'[v] = waiting[v] \/ waiting'[v] = waiting[v] \cup {new}
    BY <1>1 DEF WritingTyped
  <2> QED BY <2>1, <2>2, FS_AddElement
<1>7. late' \cup sent' \cup expired' \subseteq Chats BY <1>1, <1>2 DEF WritingTyped
<1>8. WritingTyped' BY <1>1, <1>5, <1>6, <1>7, WriterRests
<1> QED BY <1>3, <1>8

LEMMA AgeTyped == ASSUME Typed, NEW u \in Users, Age(u) PROVE Typed'
<1> USE DEF Typed
<1>1. /\ waiting' = [waiting EXCEPT ![u] = {[m EXCEPT !.old = TRUE] : m \in @}]
      /\ UNCHANGED <<server, toServer, toClient, signal, writer, counts, history>>
  BY DEF Age
<1>2. QueuesTyped' /\ ServerTyped' /\ SignalTyped' /\ KeysTyped' /\ joins' \in 0..MaxJoins
  BY <1>1 DEF QueuesTyped, ServerTyped, SignalTyped, KeysTyped, server, signal, counts, history
<1>3. UNCHANGED <<writer, chats, late, sent, expired>> BY <1>1 DEF counts, history
<1>4. waiting[u] \subseteq Message /\ IsFiniteSet(waiting[u]) BY DEF WritingTyped
<1> DEFINE aged == {[m EXCEPT !.old = TRUE] : m \in waiting[u]}
<1>5. aged \subseteq Message BY <1>4 DEF Message
<1>6. IsFiniteSet(aged)
  <2> DEFINE f == [m \in waiting[u] |-> [m EXCEPT !.old = TRUE]]
  <2>1. f \in Surjection(waiting[u], aged) BY DEF Surjection
  <2> QED BY <1>4, <2>1, FS_Surjection
<1> HIDE DEF aged
<1>7. waiting' = [waiting EXCEPT ![u] = aged] BY <1>1 DEF aged
<1>8. waiting' \in [Users -> SUBSET Message] BY <1>5, <1>7 DEF WritingTyped
<1>9. \A v \in Users : IsFiniteSet(waiting'[v]) BY <1>6, <1>7 DEF WritingTyped
<1>10. WritingTyped' BY <1>3, <1>8, <1>9 DEF WritingTyped
<1> QED BY <1>2, <1>10

LEMMA DueIs ==
    ASSUME WritingTyped, NEW u \in Users, NEW target
    PROVE  /\ Due(u, target) \subseteq Message /\ IsFiniteSet(Due(u, target))
           /\ Cardinality(Due(u, target)) \in Nat
           /\ Ids(For(u, target)) \subseteq Chats
           /\ Ids(Due(u, target)) \subseteq Chats /\ Ids(Overdue(u, target)) \subseteq Chats
           /\ Kept(u, target) \subseteq Message /\ IsFiniteSet(Kept(u, target))
<1>1. waiting[u] \subseteq Message /\ IsFiniteSet(waiting[u]) BY DEF WritingTyped
<1>2. For(u, target) \subseteq waiting[u] BY DEF For
<1>3. Due(u, target) \subseteq For(u, target) /\ Overdue(u, target) \subseteq For(u, target)
      /\ Kept(u, target) \subseteq waiting[u]
  BY DEF Due, Overdue, Kept
<1>4. \A m \in waiting[u] : m.id \in Chats BY <1>1 DEF Message
<1>5. IsFiniteSet(Due(u, target)) /\ IsFiniteSet(Kept(u, target))
  BY <1>1, <1>2, <1>3, FS_Subset
<1>6. Cardinality(Due(u, target)) \in Nat BY <1>5, FS_CardinalityType
<1> QED BY <1>1, <1>2, <1>3, <1>4, <1>5, <1>6 DEF Ids

LEMMA DrainTyped ==
    ASSUME WritingTyped, NEW u \in Users, NEW target, Drained(u, target),
           late' \subseteq Chats, UNCHANGED <<writer, chats>>
    PROVE  WritingTyped'
<1>1. waiting' = [waiting EXCEPT ![u] = Kept(u, target)]
      /\ sent' = sent \cup Ids(Due(u, target)) /\ expired' = expired \cup Ids(Overdue(u, target))
  BY DEF Drained
<1>2. Kept(u, target) \subseteq Message /\ IsFiniteSet(Kept(u, target))
      /\ Ids(Due(u, target)) \subseteq Chats /\ Ids(Overdue(u, target)) \subseteq Chats
  BY DueIs
<1>3. waiting' \in [Users -> SUBSET Message] BY <1>1, <1>2 DEF WritingTyped
<1>4. \A v \in Users : IsFiniteSet(waiting'[v]) BY <1>1, <1>2 DEF WritingTyped
<1>5. late' \cup sent' \cup expired' \subseteq Chats BY <1>1, <1>2 DEF WritingTyped
<1> QED BY <1>3, <1>4, <1>5 DEF WritingTyped

LEMMA SessionTyped ==
    ASSUME SignalTyped, WritingTyped, NEW u \in Users, NEW v \in Users, NEW p \in BOOLEAN,
           TakeSession(u, v, p)
    PROVE  /\ established' \in [Users -> SUBSET Users] /\ pending' \in [Users -> SUBSET Users]
           /\ fresh' \in [Users -> SUBSET Users] /\ late' \subseteq Chats
<1>1. Ids(For(u, v)) \subseteq Chats BY DueIs
<1>2. CASE p = TRUE
  BY <1>1, <1>2 DEF TakeSession, SignalTyped, WritingTyped
<1>3. CASE p = FALSE
  BY <1>3 DEF TakeSession, SignalTyped, WritingTyped
<1> QED BY <1>2, <1>3

LEMMA DistributedTyped ==
    ASSUME SignalTyped, NEW u \in Users, NEW v \in Users, NEW ch \in Rooms,
           distributed' = [distributed EXCEPT ![u][ch] = @ \cup {v}]
    PROVE  distributed' \in [Users -> [Rooms -> SUBSET Users]]
BY DEF SignalTyped

LEMMA ListTyped == ASSUME Typed, NEW u \in Users, ReadUserList(u) PROVE Typed'
<1> USE DEF Typed
<1> DEFINE m == Head(toClient[u])
<1>1. Reading(u, "user_list") BY DEF ReadUserList
<1>2. toClient' \in [Users -> Seq(ToClient)] /\ m \in ToClient /\ m.type = "user_list"
  BY <1>1, Read
<1>3. m.ch \in Channels /\ m.users \in SUBSET Users BY <1>2, Fields
<1>4. /\ channel' = [channel EXCEPT ![u] = m.ch]
      /\ Forget(u, IF m.ch # channel[u] THEN m.ch ELSE Lobby) /\ Ask(u, m.users)
      /\ UNCHANGED <<server, established, holds, fresh, waiting, writer, counts, rejected,
                     late, sent, expired, failed>>
  BY DEF ReadUserList
<1> HIDE DEF m
<1>5. (IF m.ch # channel[u] THEN m.ch ELSE Lobby) \in Channels BY <1>3, Places
<1>6. distributed' \in [Users -> [Rooms -> SUBSET Users]] /\ wasted' \subseteq wasted
  BY <1>4, <1>5, Forgets
<1>7. PICK ms \in Seq(ToServer) : Post(u, ms) BY <1>3, <1>4, Asks
<1>8. pending' = [pending EXCEPT ![u] = @ \cup Unknown(u, m.users)]
      /\ Unknown(u, m.users) \subseteq Users
  BY <1>3, <1>4, Asks
<1>9. QueuesTyped' BY <1>2, <1>7, Posted DEF QueuesTyped
<1>10. SignalTyped' BY <1>3, <1>4, <1>6, <1>8 DEF SignalTyped
<1>11. KeysTyped' BY <1>4, <1>6 DEF KeysTyped
<1>12. WritingTyped' BY <1>4, WritingSame DEF counts
<1> QED BY <1>4, <1>9, <1>10, <1>11, <1>12 DEF ServerTyped, server, counts

LEMMA JoinedTyped == ASSUME Typed, NEW u \in Users, ReadUserJoined(u) PROVE Typed'
<1> USE DEF Typed
<1> DEFINE v == Head(toClient[u]).user
<1>1. Reading(u, "joined") BY DEF ReadUserJoined
<1>2. toClient' \in [Users -> Seq(ToClient)] /\ Head(toClient[u]) \in ToClient
      /\ Head(toClient[u]).type = "joined"
  BY <1>1, Read
<1>3. v \in Users /\ {v} \in SUBSET Users BY <1>2, Fields
<1>4. /\ Ask(u, {v})
      /\ UNCHANGED <<server, channel, established, distributed, holds, fresh, waiting, writer,
                     counts, history>>
  BY DEF ReadUserJoined
<1> HIDE DEF v
<1>5. PICK ms \in Seq(ToServer) : Post(u, ms) BY <1>3, <1>4, Asks
<1>6. pending' = [pending EXCEPT ![u] = @ \cup Unknown(u, {v})] /\ Unknown(u, {v}) \subseteq Users
  BY <1>3, <1>4, Asks
<1>7. QueuesTyped' BY <1>2, <1>5, Posted DEF QueuesTyped
<1>8. SignalTyped' BY <1>4, <1>6 DEF SignalTyped
<1>9. KeysTyped' /\ WritingTyped' BY <1>4, WritingSame DEF counts, history, KeysTyped
<1> QED BY <1>4, <1>7, <1>8, <1>9 DEF ServerTyped, server, counts

LEMMA LeftTyped == ASSUME Typed, NEW u \in Users, ReadUserLeft(u) PROVE Typed'
<1> USE DEF Typed
<1> DEFINE v == Head(toClient[u]).user
<1>1. Reading(u, "left") BY DEF ReadUserLeft
<1>2. toClient' \in [Users -> Seq(ToClient)] BY <1>1, Read
<1>3. /\ established' = [established EXCEPT ![u] = @ \ {v}]
      /\ pending' = [pending EXCEPT ![u] = @ \ {v}]
      /\ distributed' = [distributed EXCEPT ![u] = [r \in Rooms |-> @[r] \ {v}]]
      /\ wasted' \subseteq wasted
      /\ UNCHANGED <<server, toServer, channel, holds, fresh, waiting, writer, counts, rejected,
                     late, sent, expired, failed>>
  BY DEF ReadUserLeft
<1> HIDE DEF v
<1>4. QueuesTyped' BY <1>2, <1>3 DEF QueuesTyped
<1>5. distributed' \in [Users -> [Rooms -> SUBSET Users]] BY <1>3 DEF SignalTyped
<1>6. SignalTyped' BY <1>3, <1>5 DEF SignalTyped
<1>7. KeysTyped' /\ WritingTyped' BY <1>3, WritingSame DEF counts, KeysTyped
<1> QED BY <1>3, <1>4, <1>6, <1>7 DEF ServerTyped, server, counts

\* What a client sends when the keys of another user come.
DirectDue(u, v) == [i \in 1..Cardinality(Due(u, v)) |-> SendDirect(v, TRUE)]
OurKey(u, v)    == IF channel[u] # Lobby THEN <<SendKey(channel[u], v, TRUE)>> ELSE <<>>
InReturn(u, v, ch) == IF Owed(u, v, ch) THEN <<SendKey(ch, v, FALSE)>> ELSE <<>>
ChatsDue(u, v, ch, due) ==
    [i \in DOMAIN due |-> SendChat(ch, due[i].id, distributed[u][ch] \cup {v})]

LEMMA BundleSends ==
    ASSUME Typed, NEW u \in Users, NEW v \in Users
    PROVE  /\ DirectDue(u, v) \in Seq(ToServer) /\ OurKey(u, v) \in Seq(ToServer)
           /\ DirectDue(u, v) \o OurKey(u, v) \in Seq(ToServer)
<1>1. Cardinality(Due(u, v)) \in Nat BY DueIs DEF Typed
<1>2. SendDirect(v, TRUE) \in ToServer BY Constructors
<1>3. DirectDue(u, v) \in [1..Cardinality(Due(u, v)) -> ToServer] BY <1>2 DEF DirectDue
<1>4. DirectDue(u, v) \in Seq(ToServer) BY <1>1, <1>3
<1>5. OurKey(u, v) \in Seq(ToServer)
  <2>1. CASE channel[u] # Lobby
    <3>1. channel[u] \in Rooms BY <2>1, Places DEF Typed, SignalTyped
    <3>2. SendKey(channel[u], v, TRUE) \in ToServer BY <3>1, Constructors
    <3>3. <<SendKey(channel[u], v, TRUE)>> \in Seq(ToServer) BY <3>2, Single, Zenon
    <3> QED BY <2>1, <3>3 DEF OurKey
  <2>2. CASE channel[u] = Lobby BY <2>2 DEF OurKey
  <2> QED BY <2>1, <2>2
<1> QED BY <1>4, <1>5

LEMMA KeySends ==
    ASSUME Typed, NEW u \in Users, NEW v \in Users, NEW ch \in Rooms,
           NEW due \in Queued(Due(u, ch))
    PROVE  /\ InReturn(u, v, ch) \in Seq(ToServer)
           /\ ChatsDue(u, v, ch, due) \in Seq(ToServer)
           /\ Len(ChatsDue(u, v, ch, due)) \in Nat
           /\ \A i \in 1..Len(ChatsDue(u, v, ch, due)) :
                /\ due[i] \in Due(u, ch)
                /\ ChatsDue(u, v, ch, due)[i] = SendChat(ch, due[i].id, distributed[u][ch] \cup {v})
           /\ InReturn(u, v, ch) \o ChatsDue(u, v, ch, due) \in Seq(ToServer)
<1> DEFINE n == Cardinality(Due(u, ch))
<1> DEFINE to == distributed[u][ch] \cup {v}
<1>1. /\ IsFiniteSet(Due(u, ch)) /\ Due(u, ch) \subseteq Message
  BY DueIs DEF Typed
<1>2. due \in Orders(Due(u, ch)) BY DEF Queued
<1>3. n \in Nat /\ DOMAIN due = 1..n /\ \A i \in 1..n : due[i] \in Due(u, ch)
  BY <1>1, <1>2, Ordered
<1>4. to \in SUBSET Users BY DEF Typed, SignalTyped
<1>5. \A i \in 1..n : due[i].id \in Chats BY <1>1, <1>3 DEF Message
<1>6. \A i \in 1..n : SendChat(ch, due[i].id, to) \in ToServer BY <1>4, <1>5, Constructors
<1>7. /\ ChatsDue(u, v, ch, due) \in [1..n -> ToServer]
      /\ \A i \in 1..n : ChatsDue(u, v, ch, due)[i] = SendChat(ch, due[i].id, to)
  BY <1>3, <1>6 DEF ChatsDue
<1>8. ChatsDue(u, v, ch, due) \in Seq(ToServer) /\ Len(ChatsDue(u, v, ch, due)) = n
  BY <1>3, <1>7
<1>9. InReturn(u, v, ch) \in Seq(ToServer)
  <2>1. SendKey(ch, v, FALSE) \in ToServer BY Constructors
  <2>4. <<SendKey(ch, v, FALSE)>> \in Seq(ToServer) BY <2>1, Single, Zenon
  <2>2. CASE Owed(u, v, ch) BY <2>2, <2>4 DEF InReturn
  <2>3. CASE ~Owed(u, v, ch) BY <2>3 DEF InReturn
  <2> QED BY <2>2, <2>3
<1>10. InReturn(u, v, ch) \o ChatsDue(u, v, ch, due) \in Seq(ToServer) BY <1>8, <1>9
<1> QED BY <1>3, <1>7, <1>8, <1>9, <1>10

\* What is under way from a server that told us of a user.
LEMMA BundleFacts ==
    ASSUME Typed, NEW u \in Users, ReadBundle(u)
    PROVE  LET v == Head(toClient[u]).user IN
           /\ Reading(u, "bundle") /\ v \in Users
           /\ established' = [established EXCEPT ![u] = @ \cup {v}]
           /\ pending' = [pending EXCEPT ![u] = @ \ {v}]
           /\ fresh' = [fresh EXCEPT ![u] = @ \cup {v}]
           /\ Drained(u, v)
           /\ Post(u, DirectDue(u, v) \o OurKey(u, v))
           /\ distributed' = IF channel[u] # Lobby
                             THEN [distributed EXCEPT ![u][channel[u]] = @ \cup {v}]
                             ELSE distributed
           /\ UNCHANGED <<server, channel, holds, writer, counts, rejected, wasted, late, failed>>
<1>1. Head(toClient[u]) \in ToClient /\ Head(toClient[u]).type = "bundle"
  BY Read DEF ReadBundle, Typed
<1>2. Head(toClient[u]).user \in Users BY <1>1, Fields
<1> QED BY <1>2 DEF ReadBundle, DirectDue, OurKey

LEMMA BundleTyped == ASSUME Typed, NEW u \in Users, ReadBundle(u) PROVE Typed'
<1> USE DEF Typed
<1> DEFINE v == Head(toClient[u]).user
<1>1. /\ Reading(u, "bundle") /\ v \in Users
      /\ established' = [established EXCEPT ![u] = @ \cup {v}]
      /\ pending' = [pending EXCEPT ![u] = @ \ {v}]
      /\ fresh' = [fresh EXCEPT ![u] = @ \cup {v}]
      /\ Drained(u, v)
      /\ Post(u, DirectDue(u, v) \o OurKey(u, v))
      /\ distributed' = IF channel[u] # Lobby
                        THEN [distributed EXCEPT ![u][channel[u]] = @ \cup {v}]
                        ELSE distributed
      /\ UNCHANGED <<server, channel, holds, writer, counts, rejected, wasted, late, failed>>
  BY BundleFacts
<1> HIDE DEF v
<1>2. toClient' \in [Users -> Seq(ToClient)] BY <1>1, Read
<1>3. QueuesTyped' BY <1>1, <1>2, BundleSends, Posted DEF QueuesTyped
<1>4. distributed' \in [Users -> [Rooms -> SUBSET Users]]
  <2>1. CASE channel[u] # Lobby
    <3>1. channel[u] \in Rooms BY <2>1, Places DEF SignalTyped
    <3>2. distributed' = [distributed EXCEPT ![u][channel[u]] = @ \cup {v}] BY <1>1, <2>1
    <3> QED BY <1>1, <3>1, <3>2, DistributedTyped
  <2>2. CASE channel[u] = Lobby BY <1>1, <2>2 DEF SignalTyped
  <2> QED BY <2>1, <2>2
<1>5. SignalTyped' BY <1>1, <1>4 DEF SignalTyped
<1>6. WritingTyped' BY <1>1, DrainTyped DEF counts, WritingTyped
<1> QED BY <1>1, <1>3, <1>5, <1>6 DEF ServerTyped, server, counts, KeysTyped

LEMMA KeyFacts ==
    ASSUME Typed, NEW u \in Users, ReadKey(u)
    PROVE  LET m == Head(toClient[u]) IN
           /\ Reading(u, "key") /\ m.ch \in Rooms /\ m.user \in Users /\ m.prekey \in BOOLEAN
           /\ holds' = [holds EXCEPT ![u] = @ \cup {<<m.ch, m.user>>}]
           /\ TakeSession(u, m.user, m.prekey)
           /\ distributed' = [distributed EXCEPT ![u][m.ch] = @ \cup {m.user}]
           /\ \E due \in Queued(Due(u, m.ch)) :
                Post(u, InReturn(u, m.user, m.ch) \o ChatsDue(u, m.user, m.ch, due))
           /\ Drained(u, m.ch)
           /\ UNCHANGED <<server, channel, writer, counts, rejected, wasted, failed>>
<1> DEFINE m == Head(toClient[u])
<1>1. m \in ToClient /\ m.type = "key" BY Read DEF ReadKey, Typed
<1>2. m.ch \in Rooms /\ m.user \in Users /\ m.prekey \in BOOLEAN BY <1>1, Fields
<1>3. \E due \in Queued(Due(u, m.ch)) :
        Post(u, InReturn(u, m.user, m.ch) \o ChatsDue(u, m.user, m.ch, due))
  BY Zenon DEF ReadKey, KeyFirst, InReturn, ChatsDue
<1>4. distributed' = [distributed EXCEPT ![u][m.ch] = distributed[u][m.ch] \cup {m.user}]
  BY DEF ReadKey
<1> QED BY <1>2, <1>3, <1>4 DEF ReadKey

LEMMA KeyTyped == ASSUME Typed, NEW u \in Users, ReadKey(u) PROVE Typed'
<1> USE DEF Typed
<1> DEFINE m == Head(toClient[u])
<1>1. /\ Reading(u, "key") /\ m.ch \in Rooms /\ m.user \in Users /\ m.prekey \in BOOLEAN
      /\ holds' = [holds EXCEPT ![u] = @ \cup {<<m.ch, m.user>>}]
      /\ TakeSession(u, m.user, m.prekey)
      /\ distributed' = [distributed EXCEPT ![u][m.ch] = @ \cup {m.user}]
      /\ \E due \in Queued(Due(u, m.ch)) :
           Post(u, InReturn(u, m.user, m.ch) \o ChatsDue(u, m.user, m.ch, due))
      /\ Drained(u, m.ch)
      /\ UNCHANGED <<server, channel, writer, counts, rejected, wasted, failed>>
  BY KeyFacts
<1> HIDE DEF m
<1>2. toClient' \in [Users -> Seq(ToClient)] BY <1>1, Read
<1>3. PICK due \in Queued(Due(u, m.ch)) :
        Post(u, InReturn(u, m.user, m.ch) \o ChatsDue(u, m.user, m.ch, due))
  BY <1>1
<1>4. InReturn(u, m.user, m.ch) \o ChatsDue(u, m.user, m.ch, due) \in Seq(ToServer)
  BY <1>1, KeySends
<1>5. QueuesTyped' BY <1>2, <1>3, <1>4, Posted DEF QueuesTyped
<1>6. /\ established' \in [Users -> SUBSET Users] /\ pending' \in [Users -> SUBSET Users]
      /\ fresh' \in [Users -> SUBSET Users] /\ late' \subseteq Chats
  BY <1>1, SessionTyped
<1>7. distributed' \in [Users -> [Rooms -> SUBSET Users]] BY <1>1, DistributedTyped
<1>8. holds' \in [Users -> SUBSET (Rooms \X Users)]
  <2>1. <<m.ch, m.user>> \in Rooms \X Users BY <1>1
  <2> QED BY <1>1, <2>1 DEF SignalTyped
<1>9. SignalTyped' BY <1>1, <1>6, <1>7, <1>8 DEF SignalTyped
<1>10. WritingTyped' BY <1>1, <1>6, DrainTyped DEF counts
<1> QED BY <1>1, <1>5, <1>9, <1>10 DEF ServerTyped, server, counts, KeysTyped

LEMMA DirectTyped == ASSUME Typed, NEW u \in Users, ReadDirect(u) PROVE Typed'
<1> USE DEF Typed
<1> DEFINE m == Head(toClient[u])
<1>1. /\ Reading(u, "direct")
      /\ IF m.user = u THEN UNCHANGED <<established, pending, fresh, late>>
         ELSE TakeSession(u, m.user, m.prekey)
      /\ UNCHANGED <<server, toServer, channel, distributed, holds, waiting, writer, counts,
                     rejected, wasted, sent, expired, failed>>
  BY DEF ReadDirect
<1>2. toClient' \in [Users -> Seq(ToClient)] /\ m \in ToClient /\ m.type = "direct"
  BY <1>1, Read
<1>3. m.user \in Users /\ m.prekey \in BOOLEAN BY <1>2, Fields
<1> HIDE DEF m
<1>4. QueuesTyped' BY <1>1, <1>2 DEF QueuesTyped
<1>5. /\ established' \in [Users -> SUBSET Users] /\ pending' \in [Users -> SUBSET Users]
      /\ fresh' \in [Users -> SUBSET Users] /\ late' \subseteq Chats
  <2>1. CASE m.user = u BY <1>1, <2>1 DEF SignalTyped, WritingTyped
  <2>2. CASE m.user # u BY <1>1, <1>3, <2>2, SessionTyped
  <2> QED BY <2>1, <2>2
<1>6. SignalTyped' BY <1>1, <1>5 DEF SignalTyped
<1>7. WritingTyped' BY <1>1, <1>5 DEF counts, WritingTyped
<1> QED BY <1>1, <1>4, <1>6, <1>7 DEF ServerTyped, server, counts, KeysTyped

LEMMA ChatTyped == ASSUME Typed, NEW u \in Users, ReadChat(u) PROVE Typed'
<1> USE DEF Typed
<1> DEFINE m == Head(toClient[u])
<1>1. /\ Reading(u, "chat")
      /\ \/ failed' = failed
         \/ failed' = failed \cup {<<m.id, u \in m.to /\ <<m.ch, m.user, u>> \notin rejected>>}
      /\ UNCHANGED <<server, toServer, signal, waiting, writer, counts, rejected, wasted, late,
                     sent, expired>>
  BY DEF ReadChat
<1>2. toClient' \in [Users -> Seq(ToClient)] /\ m \in ToClient /\ m.type = "chat"
  BY <1>1, Read
<1>3. m.id \in Chats BY <1>2, Fields
<1> HIDE DEF m
<1>4. \E b \in BOOLEAN : failed' = failed \/ failed' = failed \cup {<<m.id, b>>}
  <2>1. (u \in m.to /\ <<m.ch, m.user, u>> \notin rejected) \in BOOLEAN OBVIOUS
  <2> QED BY <1>1, <2>1, Zenon
<1>5. failed' \subseteq Chats \X BOOLEAN BY <1>3, <1>4 DEF KeysTyped
<1>6. QueuesTyped' BY <1>1, <1>2 DEF QueuesTyped
<1>7. KeysTyped' BY <1>1, <1>5 DEF KeysTyped
<1>8. WritingTyped' BY <1>1, WritingSame DEF counts
<1> QED BY <1>1, <1>6, <1>7, <1>8 DEF ServerTyped, server, counts, signal, SignalTyped

LEMMA LeavesTyped == ASSUME Typed, NEW u \in Users, ServerLeaves(u) PROVE Typed'
<1> USE DEF Typed
<1>1. /\ Serving(u, "join") /\ chan' = [chan EXCEPT ![u] = Nowhere]
      /\ entering' = [entering EXCEPT ![u] = Head(toServer[u]).ch]
      /\ Tell(Others(u), UserLeft(u)) /\ UNCHANGED <<signal, waiting, writer, counts, history>>
  BY DEF ServerLeaves
<1>2. Head(toServer[u]).ch \in Channels BY <1>1, ServedIs, Fields
<1>3. QueuesTyped' BY <1>1, ServedIs, Tells, Constructors DEF QueuesTyped
<1>4. ServerTyped' BY <1>1, <1>2 DEF ServerTyped
<1>5. SignalTyped' /\ WritingTyped' /\ KeysTyped'
  BY <1>1 DEF SignalTyped, WritingTyped, KeysTyped, signal, counts, history
<1> QED BY <1>1, <1>3, <1>4, <1>5 DEF counts

LEMMA EntersTyped == ASSUME Typed, NEW u \in Users, ServerEnters(u) PROVE Typed'
<1> USE DEF Typed
<1> DEFINE list == UserList(entering[u], {w \in Users : chan'[w] = entering[u]})
<1>1. /\ chan' = [chan EXCEPT ![u] = entering[u]]
      /\ toClient' = [v \in Users |-> Append(toClient[v], IF v = u THEN list ELSE UserJoined(u))]
      /\ UNCHANGED <<entering, toServer, signal, waiting, writer, counts, history>>
  BY DEF ServerEnters, Told
<1>2. entering[u] \in Channels BY DEF ServerTyped
<1>3. list \in ToClient /\ UserJoined(u) \in ToClient BY <1>2, Constructors
<1> HIDE DEF list
<1>4. QueuesTyped' BY <1>1, <1>3 DEF QueuesTyped
<1>5. ServerTyped' BY <1>1, <1>2 DEF ServerTyped
<1>6. SignalTyped' /\ WritingTyped' /\ KeysTyped'
  BY <1>1 DEF SignalTyped, WritingTyped, KeysTyped, signal, counts, history
<1> QED BY <1>1, <1>4, <1>5, <1>6 DEF counts

\* What the server passes on, by what is asked of it.
LEMMA PassesOn ==
    ASSUME Typed, NEW u \in Users, NEW type, Serving(u, type), NEW vs, NEW m \in ToClient,
           Tell(vs, m) \/ UNCHANGED toClient
    PROVE  QueuesTyped'
<1>1. toServer' \in [Users -> Seq(ToServer)] BY ServedIs DEF Typed
<1>2. CASE Tell(vs, m) BY <1>1, <1>2, Tells DEF Typed, QueuesTyped
<1>3. CASE UNCHANGED toClient BY <1>1, <1>3 DEF Typed, QueuesTyped
<1> QED BY <1>2, <1>3

LEMMA RelayTyped ==
    ASSUME Typed, NEW u \in Users,
           ServerBundle(u) \/ ServerKey(u) \/ ServerChat(u) \/ ServerDirect(u)
    PROVE  Typed'
<1> USE DEF Typed
<1> DEFINE m == Head(toServer[u])
<1>1. CASE ServerBundle(u)
  <2>1. Serving(u, "bundle_please") /\ Tell({u}, Bundle(m.user))
        /\ UNCHANGED <<server, signal, waiting, writer, counts, history>>
    BY <1>1 DEF ServerBundle
  <2>2. m.user \in Users BY <2>1, ServedIs, Fields
  <2>3. Bundle(m.user) \in ToClient BY <2>2, Constructors
  <2>4. QueuesTyped' BY <2>1, <2>3, PassesOn
  <2>5. ServerTyped' /\ SignalTyped' /\ WritingTyped' /\ KeysTyped'
    BY <2>1 DEF ServerTyped, SignalTyped, WritingTyped, KeysTyped, server, signal, counts, history
  <2> QED BY <2>1, <2>4, <2>5 DEF counts
<1>2. CASE ServerKey(u)
  <2>1. /\ Serving(u, "key")
        /\ Tell({m.user}, KeyReceived(m.ch, u, m.prekey)) \/ UNCHANGED toClient
        /\ wasted' \subseteq wasted \cup {<<m.ch, u, m.user>>}
        /\ rejected' = rejected \cup (wasted' \ wasted)
        /\ UNCHANGED <<server, signal, waiting, writer, counts, late, sent, expired, failed>>
    BY <1>2 DEF ServerKey
  <2>2. m.user \in Users /\ m.ch \in Rooms /\ m.prekey \in BOOLEAN BY <2>1, ServedIs, Fields
  <2>3. KeyReceived(m.ch, u, m.prekey) \in ToClient BY <2>2, Constructors
  <2>4. QueuesTyped' BY <2>1, <2>3, PassesOn
  <2>5. <<m.ch, u, m.user>> \in Rooms \X Users \X Users BY <2>2
  <2>6. KeysTyped' BY <2>1, <2>5 DEF KeysTyped
  <2>7. ServerTyped' /\ SignalTyped' /\ WritingTyped'
    BY <2>1 DEF ServerTyped, SignalTyped, WritingTyped, server, signal, counts
  <2> QED BY <2>1, <2>4, <2>6, <2>7 DEF counts
<1>3. CASE ServerChat(u)
  <2>1. /\ Serving(u, "chat")
        /\ Tell({v \in Others(u) : chan[v] = chan[u]}, ChatReceived(u, m)) \/ UNCHANGED toClient
        /\ UNCHANGED <<server, signal, waiting, writer, counts, history>>
    BY <1>3 DEF ServerChat
  <2>2. m \in ToServer /\ m.type = "chat" BY <2>1, ServedIs
  <2>3. ChatReceived(u, m) \in ToClient BY <2>2, ChatGoesOn
  <2>4. QueuesTyped' BY <2>1, <2>3, PassesOn
  <2>5. ServerTyped' /\ SignalTyped' /\ WritingTyped' /\ KeysTyped'
    BY <2>1 DEF ServerTyped, SignalTyped, WritingTyped, KeysTyped, server, signal, counts, history
  <2> QED BY <2>1, <2>4, <2>5 DEF counts
<1>4. CASE ServerDirect(u)
  <2>1. /\ Serving(u, "direct") /\ Tell({m.user, u}, DirectReceived(u, m.prekey))
        /\ UNCHANGED <<server, signal, waiting, writer, counts, history>>
    BY <1>4 DEF ServerDirect
  <2>2. m.prekey \in BOOLEAN BY <2>1, ServedIs, Fields
  <2>3. DirectReceived(u, m.prekey) \in ToClient BY <2>2, Constructors
  <2>4. QueuesTyped' BY <2>1, <2>3, PassesOn
  <2>5. ServerTyped' /\ SignalTyped' /\ WritingTyped' /\ KeysTyped'
    BY <2>1 DEF ServerTyped, SignalTyped, WritingTyped, KeysTyped, server, signal, counts, history
  <2> QED BY <2>1, <2>4, <2>5 DEF counts
<1> QED BY <1>1, <1>2, <1>3, <1>4

\* A target is another user or a room.
LEMMA Writes ==
    ASSUME Typed, NEW u \in Users, Write(u) \/ \E v \in Users : WriteTo(u, v)
    PROVE  \E target \in Targets : BeginWriting(u, target)
<1>1. ASSUME Write(u) PROVE \E target \in Targets : BeginWriting(u, target)
  <2>1. channel[u] \in Targets BY <1>1, Places DEF Write, Typed, SignalTyped
  <2> QED BY <1>1, <2>1 DEF Write
<1>2. ASSUME NEW v \in Users, WriteTo(u, v) PROVE \E target \in Targets : BeginWriting(u, target)
  BY <1>2, Places DEF WriteTo
<1> QED BY <1>1, <1>2

LEMMA TypedInductive == Typed /\ [Next]_vars => Typed'
<1> SUFFICES ASSUME Typed, [Next]_vars PROVE Typed' OBVIOUS
<1>1. CASE UNCHANGED vars
  BY <1>1 DEF Typed, QueuesTyped, ServerTyped, SignalTyped, WritingTyped, KeysTyped, vars,
              server, signal, counts, history
<1>2. ASSUME NEW u \in Users, ReaderStep(u) PROVE Typed'
  BY <1>2, ListTyped, JoinedTyped, LeftTyped, BundleTyped, KeyTyped, ChatTyped, DirectTyped
     DEF ReaderStep
<1>3. ASSUME NEW u \in Users, ServerStep(u) PROVE Typed'
  BY <1>3, LeavesTyped, EntersTyped, RelayTyped DEF ServerStep
<1>4. ASSUME NEW u \in Users, WriterStep(u) PROVE Typed'
  BY <1>4, CheckTyped, QueueTyped DEF WriterStep
<1>5. ASSUME NEW u \in Users, UserStep(u) PROVE Typed'
  <2>1. CASE Write(u) \/ \E v \in Users : WriteTo(u, v) BY <2>1, Writes, BeginTyped
  <2>2. CASE Age(u) BY <2>2, AgeTyped
  <2>3. CASE \E ch \in Channels : Join(u, ch) BY <2>3, JoinTyped
  <2> QED BY <1>5, <2>1, <2>2, <2>3 DEF UserStep
<1> QED BY <1>1, <1>2, <1>3, <1>4, <1>5 DEF Next

\* The queues, the sessions, the keys and the messages are well typed.
THEOREM KeysAlwaysTyped == Spec => []TypeOK
<1> QED BY InitTyped, TypedInductive, TypedOK, PTL DEF Spec

----------------------------------------------------------------------------
(* No message is lost, and none sent twice.                                *)

\* A message waits in one queue, once, or is being written by one user.
Apart ==
    /\ \A u, v \in Users : writer[u].id = writer[v].id => u = v \/ writer[u].id = 0
    /\ \A u, v \in Users : \A m \in waiting[v] : m.id # writer[u].id
    /\ \A u, v \in Users : \A m \in waiting[u], n \in waiting[v] : m.id = n.id => u = v /\ m = n

LEMMA UnsentIs ==
    /\ \A id : id \in Unsent <=> \/ \E u \in Users : \E m \in waiting[u] : m.id = id
                                 \/ id # 0 /\ \E u \in Users : writer[u].id = id
    /\ \A id : id \in Unsent' <=> \/ \E u \in Users : \E m \in waiting'[u] : m.id = id
                                  \/ id # 0 /\ \E u \in Users : writer'[u].id = id
<1>1. ASSUME NEW id
      PROVE  id \in Unsent <=> \/ \E u \in Users : \E m \in waiting[u] : m.id = id
                               \/ id # 0 /\ \E u \in Users : writer[u].id = id
  <2>1. id \in UNION {Ids(waiting[u]) : u \in Users} <=>
          \E u \in Users : \E m \in waiting[u] : m.id = id
    BY DEF Ids
  <2>2. id \in {writer[u].id : u \in Users} \ {0} <=>
          id # 0 /\ \E u \in Users : writer[u].id = id
    OBVIOUS
  <2>3. id \in Unsent <=> \/ id \in UNION {Ids(waiting[u]) : u \in Users}
                           \/ id \in {writer[u].id : u \in Users} \ {0}
    BY Zenon DEF Unsent
  <2> QED BY <2>1, <2>2, <2>3, Zenon
<1>2. ASSUME NEW id
      PROVE  id \in Unsent' <=> \/ \E u \in Users : \E m \in waiting'[u] : m.id = id
                                \/ id # 0 /\ \E u \in Users : writer'[u].id = id
  <2>1. id \in UNION {Ids(waiting'[u]) : u \in Users} <=>
          \E u \in Users : \E m \in waiting'[u] : m.id = id
    BY DEF Ids
  <2>2. id \in {writer'[u].id : u \in Users} \ {0} <=>
          id # 0 /\ \E u \in Users : writer'[u].id = id
    OBVIOUS
  <2>3. id \in Unsent' <=> \/ id \in UNION {Ids(waiting'[u]) : u \in Users}
                           \/ id \in {writer'[u].id : u \in Users} \ {0}
    BY Zenon DEF Unsent
  <2> QED BY <2>1, <2>2, <2>3, Zenon
<1> QED BY <1>1, <1>2

LEMMA InitConserved == Init => NothingLost /\ Apart
<1> SUFFICES ASSUME Init PROVE NothingLost /\ Apart OBVIOUS
<1>1. 1..chats = {} BY DEF Init
<1>2. \A u \in Users : waiting[u] = {} /\ writer[u].id = 0 BY DEF Init, NotWriting
<1>3. Apart BY <1>2 DEF Apart
<1>4. Unsent = {} BY <1>2, UnsentIs
<1> QED BY <1>1, <1>3, <1>4 DEF Init, NothingLost

LEMMA ConservedSame ==
    ASSUME NothingLost, Apart, UNCHANGED <<waiting, writer, chats, sent, expired>>
    PROVE  NothingLost' /\ Apart'
<1>1. Unsent' = Unsent BY DEF Unsent
<1> QED BY <1>1 DEF NothingLost, Apart

LEMMA BeginConserved ==
    ASSUME Typed, NothingLost, Apart, NEW u \in Users, NEW target \in Targets,
           BeginWriting(u, target)
    PROVE  NothingLost' /\ Apart'
<1> DEFINE new == chats + 1
<1>1. /\ writer[u] = NotWriting /\ chats' = chats + 1
      /\ writer' = [writer EXCEPT ![u] = [at |-> "check", for |-> target, id |-> new]]
      /\ UNCHANGED <<waiting, sent, expired>>
  BY DEF BeginWriting, history
<1>2. chats \in Nat BY DEF Typed, WritingTyped
<1>3. 1..chats' = 1..chats \cup {new} /\ new \notin 1..chats /\ new # 0 BY <1>1, <1>2
<1>4. new \notin sent \cup expired \cup Unsent BY <1>3 DEF NothingLost
<1>5. /\ writer'[u].id = new /\ \A v \in Users : v # u => writer'[v] = writer[v]
      /\ writer[u].id = 0
  BY <1>1 DEF Typed, WritingTyped, NotWriting
<1>6. \A v \in Users : writer[v].id # new /\ \A m \in waiting[v] : m.id # new
  BY <1>3, <1>4, UnsentIs
<1> HIDE DEF new
<1>7. Unsent' = Unsent \cup {new}
  <2>1. ASSUME NEW id, id \in Unsent PROVE id \in Unsent'
    <3>1. CASE \E v \in Users : \E m \in waiting[v] : m.id = id BY <1>1, <3>1, UnsentIs
    <3>2. CASE id # 0 /\ \E v \in Users : writer[v].id = id BY <1>5, <3>2, UnsentIs
    <3> QED BY <2>1, <3>1, <3>2, UnsentIs
  <2>2. new \in Unsent' BY <1>3, <1>5, UnsentIs
  <2>3. ASSUME NEW id, id \in Unsent' PROVE id \in Unsent \/ id = new
    <3>1. CASE \E v \in Users : \E m \in waiting'[v] : m.id = id BY <1>1, <3>1, UnsentIs
    <3>2. CASE id # 0 /\ \E v \in Users : writer'[v].id = id BY <1>5, <3>2, UnsentIs
    <3> QED BY <2>3, <3>1, <3>2, UnsentIs
  <2> QED BY <2>1, <2>2, <2>3
<1>8. NothingLost' BY <1>1, <1>3, <1>4, <1>7 DEF NothingLost
<1>9. Apart' BY <1>1, <1>5, <1>6 DEF Apart
<1> QED BY <1>8, <1>9

\* Who has written rests; what was written is handed over, or waits.
LEMMA WrittenConserved ==
    ASSUME Typed, NothingLost, Apart, NEW u \in Users, writer[u].at # "idle",
           writer' = [writer EXCEPT ![u] = NotWriting], UNCHANGED <<chats, expired>>,
           \/ /\ sent' = sent \cup {writer[u].id} /\ waiting' = waiting
           \/ /\ sent' = sent
              /\ waiting' = [waiting EXCEPT ![u] = @ \cup
                    {[for |-> writer[u].for, id |-> writer[u].id, old |-> FALSE]}]
    PROVE  NothingLost' /\ Apart'
<1> DEFINE id == writer[u].id
<1> DEFINE new == [for |-> writer[u].for, id |-> id, old |-> FALSE]
<1>1. id # 0 /\ new.id = id BY DEF Typed, WritingTyped
<1>2. writer'[u].id = 0 /\ \A v \in Users : v # u => writer'[v] = writer[v]
  BY DEF Typed, WritingTyped, NotWriting
<1>3. \A v \in Users : (v # u => writer[v].id # id) /\ \A m \in waiting[v] : m.id # id
  BY <1>1 DEF Apart
<1>4. \A i \in 1..chats : i # 0 BY DEF Typed, WritingTyped
<1>5. id \in Unsent BY <1>1, UnsentIs
<1>6. CASE sent' = sent \cup {id} /\ waiting' = waiting
  <2>1. Unsent' = Unsent \ {id}
    <3>1. ASSUME NEW i, i \in Unsent' PROVE i \in Unsent \ {id}
      BY <1>2, <1>3, <1>6, <3>1, UnsentIs
    <3>2. ASSUME NEW i, i \in Unsent, i # id PROVE i \in Unsent'
      BY <1>2, <1>6, <3>2, UnsentIs
    <3> QED BY <3>1, <3>2
  <2>2. NothingLost' BY <1>5, <1>6, <2>1 DEF NothingLost
  <2>3. \A v \in Users : \A m \in waiting[v] : m.id # 0
    BY DEF Typed, WritingTyped, Message, Chats
  <2>4. Apart' BY <1>2, <1>6, <2>3 DEF Apart
  <2> QED BY <2>2, <2>4
<1>7. CASE sent' = sent /\ waiting' = [waiting EXCEPT ![u] = @ \cup {new}]
  <2>0. \A v \in Users : \A m : m \in waiting'[v] <=> m \in waiting[v] \/ (v = u /\ m = new)
    <3> HIDE DEF new
    <3> QED BY <1>7 DEF Typed, WritingTyped
  <2>1. Unsent' = Unsent
    <3>1. ASSUME NEW i, i \in Unsent' PROVE i \in Unsent
      <4> HIDE DEF new
      <4> QED BY <1>1, <1>2, <2>0, <3>1, UnsentIs
    <3>2. ASSUME NEW i, i \in Unsent PROVE i \in Unsent'
      <4> HIDE DEF new
      <4> QED BY <1>1, <1>2, <2>0, <3>2, UnsentIs
    <3> QED BY <3>1, <3>2
  <2>2. NothingLost' BY <1>7, <2>1 DEF NothingLost
  <2>3. \A v \in Users : \A m \in waiting[v] : m.id # 0
    BY DEF Typed, WritingTyped, Message, Chats
  <2> HIDE DEF new
  <2>4. /\ \A v, w \in Users : writer'[v].id = writer'[w].id => v = w \/ writer'[v].id = 0
        /\ \A v, w \in Users : \A m \in waiting'[w] : m.id # writer'[v].id
    BY <1>1, <1>2, <1>3, <2>0, <2>3 DEF Apart
  <2>5. \A v, w \in Users : \A m \in waiting'[v], n \in waiting'[w] :
          m.id = n.id => v = w /\ m = n
    BY <1>1, <1>3, <2>0 DEF Apart
  <2> QED BY <2>2, <2>4, <2>5 DEF Apart
<1> QED BY <1>6, <1>7

LEMMA AgeConserved ==
    ASSUME Typed, NothingLost, Apart, NEW u \in Users, Age(u)
    PROVE  NothingLost' /\ Apart'
<1> DEFINE aged(m) == [m EXCEPT !.old = TRUE]
<1>1. /\ waiting' = [waiting EXCEPT ![u] = {aged(m) : m \in @}]
      /\ UNCHANGED <<writer, chats, sent, expired>>
  BY DEF Age, counts, history
<1>2. waiting \in [Users -> SUBSET Message] BY DEF Typed, WritingTyped
<1>3. \A m \in Message : aged(m).id = m.id BY DEF Message
<1>4. /\ \A m \in waiting'[u] : \E n \in waiting[u] : m = aged(n)
      /\ \A n \in waiting[u] : aged(n) \in waiting'[u]
      /\ \A v \in Users : v # u => waiting'[v] = waiting[v]
  BY <1>1, <1>2
<1> HIDE DEF aged
<1>5. \A v \in Users : \A m \in waiting'[v] : \E n \in waiting[v] :
        /\ m.id = n.id
        /\ (v = u /\ m = aged(n)) \/ (v # u /\ m = n)
  BY <1>2, <1>3, <1>4
<1>6. \A v \in Users : \A n \in waiting[v] : \E m \in waiting'[v] : m.id = n.id
  BY <1>2, <1>3, <1>4
<1>7. Unsent' = Unsent
  <2>1. ASSUME NEW i PROVE i \in Unsent' <=> i \in Unsent BY <1>1, <1>5, <1>6, UnsentIs
  <2> QED BY <2>1
<1>8. Apart'
  <2>1. \A v, w \in Users : \A m \in waiting'[w] : m.id # writer'[v].id
    BY <1>1, <1>5 DEF Apart
  <2>2. ASSUME NEW v \in Users, NEW w \in Users, NEW m \in waiting'[v], NEW n \in waiting'[w],
               m.id = n.id
        PROVE  v = w /\ m = n
    <3>1. PICK m0 \in waiting[v] : /\ m.id = m0.id
                                   /\ (v = u /\ m = aged(m0)) \/ (v # u /\ m = m0)
      BY <1>5
    <3>2. PICK n0 \in waiting[w] : /\ n.id = n0.id
                                   /\ (w = u /\ n = aged(n0)) \/ (w # u /\ n = n0)
      BY <1>5
    <3>3. v = w /\ m0 = n0 BY <2>2, <3>1, <3>2 DEF Apart
    <3> QED BY <3>1, <3>2, <3>3
  <2> QED BY <1>1, <2>1, <2>2 DEF Apart
<1> QED BY <1>1, <1>7, <1>8 DEF NothingLost

LEMMA DrainConserved ==
    ASSUME Typed, NothingLost, Apart, NEW u \in Users, NEW target, Drained(u, target),
           UNCHANGED <<writer, chats>>
    PROVE  NothingLost' /\ Apart'
<1> DEFINE due == Ids(Due(u, target))
<1> DEFINE over == Ids(Overdue(u, target))
<1>1. waiting' = [waiting EXCEPT ![u] = Kept(u, target)]
      /\ sent' = sent \cup due /\ expired' = expired \cup over
  BY DEF Drained
<1>2. /\ waiting'[u] = {m \in waiting[u] : m.for # target}
      /\ \A v \in Users : v # u => waiting'[v] = waiting[v]
  BY <1>1 DEF Kept, Typed, WritingTyped
<1>3. /\ \A i : i \in due <=> \E m \in waiting[u] : m.id = i /\ m.for = target /\ ~m.old
      /\ \A i : i \in over <=> \E m \in waiting[u] : m.id = i /\ m.for = target /\ m.old
  BY DEF Ids, Due, Overdue, For
<1>4. due \cup over \subseteq Unsent BY <1>3, UnsentIs
<1>5. due \cap over = {} BY <1>3 DEF Apart
<1> HIDE DEF due, over
<1>6. ASSUME NEW i PROVE i \in Unsent' <=> i \in Unsent /\ i \notin due /\ i \notin over
  <2>1. ASSUME i \in Unsent' PROVE i \in Unsent /\ i \notin due /\ i \notin over
    <3>1. CASE \E v \in Users : \E m \in waiting'[v] : m.id = i
      <4>1. PICK v \in Users : \E m \in waiting'[v] : m.id = i BY <3>1
      <4>2. PICK m \in waiting'[v] : m.id = i BY <4>1
      <4>3. m \in waiting[v] /\ (v = u => m.for # target) BY <1>2, <4>2
      <4>4. ASSUME NEW n \in waiting[u], n.id = i PROVE v = u /\ n = m
        BY <4>2, <4>3, <4>4 DEF Apart
      <4> QED BY <1>3, <4>2, <4>3, <4>4, UnsentIs
    <3>2. CASE i # 0 /\ \E v \in Users : writer'[v].id = i
      <4>1. \A n \in waiting[u] : n.id # i BY <3>2 DEF Apart
      <4> QED BY <1>3, <3>2, <4>1, UnsentIs
    <3> QED BY <2>1, <3>1, <3>2, UnsentIs
  <2>2. ASSUME i \in Unsent, i \notin due, i \notin over PROVE i \in Unsent'
    <3>1. CASE \E v \in Users : \E m \in waiting[v] : m.id = i
      <4>1. PICK v \in Users : \E m \in waiting[v] : m.id = i BY <3>1
      <4>2. PICK m \in waiting[v] : m.id = i BY <4>1
      <4>3. m \in waiting'[v] BY <1>2, <1>3, <2>2, <4>2
      <4> QED BY <4>2, <4>3, UnsentIs
    <3>2. CASE i # 0 /\ \E v \in Users : writer[v].id = i BY <3>2, UnsentIs
    <3> QED BY <2>2, <3>1, <3>2, UnsentIs
  <2> QED BY <2>1, <2>2
<1>7. NothingLost'
  <2>1. 1..chats' = sent' \cup expired' \cup Unsent' BY <1>1, <1>4, <1>6 DEF NothingLost
  <2>2. sent' \cap expired' = {} BY <1>1, <1>4, <1>5 DEF NothingLost
  <2>3. (sent' \cup expired') \cap Unsent' = {} BY <1>1, <1>6 DEF NothingLost
  <2> QED BY <2>1, <2>2, <2>3 DEF NothingLost
<1>8. \A v \in Users : waiting'[v] \subseteq waiting[v] BY <1>2
<1>9. Apart' BY <1>8 DEF Apart
<1> QED BY <1>7, <1>9

LEMMA ConservedInductive ==
    Typed /\ NothingLost /\ Apart /\ [Next]_vars => NothingLost' /\ Apart'
<1> SUFFICES ASSUME Typed, NothingLost, Apart, [Next]_vars PROVE NothingLost' /\ Apart' OBVIOUS
<1>1. CASE UNCHANGED <<waiting, writer, chats, sent, expired>> BY <1>1, ConservedSame
<1>2. ASSUME NEW u \in Users, ReaderStep(u) PROVE NothingLost' /\ Apart'
  <2>1. CASE \/ ReadUserList(u) \/ ReadUserJoined(u) \/ ReadUserLeft(u)
             \/ ReadChat(u) \/ ReadDirect(u)
    BY <1>1, <2>1 DEF ReadUserList, ReadUserJoined, ReadUserLeft, ReadChat, ReadDirect,
                      counts, history
  <2>2. CASE ReadBundle(u)
    <3>1. Drained(u, Head(toClient[u]).user) /\ UNCHANGED <<writer, chats>>
      BY <2>2 DEF ReadBundle, counts
    <3> QED BY <3>1, DrainConserved
  <2>3. CASE ReadKey(u)
    <3>1. Drained(u, Head(toClient[u]).ch) /\ UNCHANGED <<writer, chats>>
      BY <2>3 DEF ReadKey, counts
    <3> QED BY <3>1, DrainConserved
  <2> QED BY <1>2, <2>1, <2>2, <2>3 DEF ReaderStep
<1>3. ASSUME NEW u \in Users, ServerStep(u) PROVE NothingLost' /\ Apart'
  BY <1>1, <1>3 DEF ServerStep, ServerLeaves, ServerEnters, ServerBundle, ServerKey, ServerChat,
                    ServerDirect, counts, history
<1>4. ASSUME NEW u \in Users, WriterStep(u) PROVE NothingLost' /\ Apart'
  <2>1. CASE CheckKeys(u) /\ KeysFor(u, writer[u].for) # {}
    <3>1. /\ writer[u].at # "idle" /\ sent' = sent \cup {writer[u].id} /\ waiting' = waiting
          /\ writer' = [writer EXCEPT ![u] = NotWriting] /\ UNCHANGED <<chats, expired>>
      BY <2>1 DEF CheckKeys, counts
    <3> QED BY <3>1, WrittenConserved
  <2>2. CASE CheckKeys(u) /\ KeysFor(u, writer[u].for) = {}
    <3>1. /\ writer' = [writer EXCEPT ![u].at = "queue"]
          /\ UNCHANGED <<waiting, chats, sent, expired>>
      BY <2>2 DEF CheckKeys, counts
    <3>2. writer \in [Users -> Writer] BY DEF Typed, WritingTyped
    <3>3. \A v \in Users : writer'[v].id = writer[v].id BY <3>1, <3>2 DEF Writer
    <3>4. Unsent' = Unsent
      <4>1. ASSUME NEW i PROVE i \in Unsent' <=> i \in Unsent BY <3>1, <3>3, UnsentIs
      <4> QED BY <4>1
    <3> QED BY <3>1, <3>3, <3>4 DEF NothingLost, Apart
  <2>3. CASE Queue(u)
    <3>1. /\ writer[u].at # "idle" /\ sent' = sent
          /\ waiting' = [waiting EXCEPT ![u] = @ \cup
                {[for |-> writer[u].for, id |-> writer[u].id, old |-> FALSE]}]
          /\ writer' = [writer EXCEPT ![u] = NotWriting] /\ UNCHANGED <<chats, expired>>
      BY <2>3 DEF Queue, counts
    <3> QED BY <3>1, WrittenConserved
  <2> QED BY <1>4, <2>1, <2>2, <2>3 DEF WriterStep
<1>5. ASSUME NEW u \in Users, UserStep(u) PROVE NothingLost' /\ Apart'
  <2>1. CASE Write(u) \/ \E v \in Users : WriteTo(u, v) BY <2>1, Writes, BeginConserved
  <2>2. CASE Age(u) BY <2>2, AgeConserved
  <2>3. CASE \E ch \in Channels : Join(u, ch) BY <1>1, <2>3 DEF Join
  <2> QED BY <1>5, <2>1, <2>2, <2>3 DEF UserStep
<1> QED BY <1>1, <1>2, <1>3, <1>4, <1>5 DEF Next, vars, counts, history

\* Every message that was written is sent, expired or still to be sent, and one
\* of these only, while its writer, the queue and the readers of keys and of
\* bundles hand it on.
THEOREM NothingEverLost == Spec => []NothingLost
<1>1. Init => Typed /\ NothingLost /\ Apart BY InitTyped, InitConserved
<1>2. Typed /\ NothingLost /\ Apart /\ [Next]_vars => (Typed /\ NothingLost /\ Apart)'
  BY TypedInductive, ConservedInductive
<1> QED BY <1>1, <1>2, PTL DEF Spec

----------------------------------------------------------------------------
(* A key travels ahead of the messages that need it.                       *)

IsKey(m, ch, v) == m.type = "key" /\ m.ch = ch /\ m.user = v
KeyIn(q, ch, v) == \E j \in 1..Len(q) : IsKey(q[j], ch, v)
KeyBefore(q, i, ch, v) == \E j \in 1..Len(q) : j < i /\ IsKey(q[j], ch, v)

\* The key of v for ch has come to u or never will.
Settles(v, ch, u) == <<ch, v>> \in holds[u] \/ <<ch, v, u>> \in rejected
\* Or the server has passed it on.
Reached(v, ch, u) == Settles(v, ch, u) \/ KeyIn(toClient[u], ch, v)

Shared(v, ch, u) ==
    u \in distributed[v][ch] => Reached(v, ch, u) \/ KeyIn(toServer[v], ch, u)

Announced(v, i) ==
    toServer[v][i].type = "chat" =>
       \A u \in toServer[v][i].to :
          \/ Reached(v, toServer[v][i].ch, u)
          \/ KeyBefore(toServer[v], i, toServer[v][i].ch, u)

Readable(u, i) ==
    toClient[u][i].type = "chat" /\ u \in toClient[u][i].to =>
       \/ Settles(toClient[u][i].user, toClient[u][i].ch, u)
       \/ KeyBefore(toClient[u], i, toClient[u][i].ch, toClient[u][i].user)

\* The inductive invariant: whoever is counted as a holder holds the key, or the
\* server did not relay it, or it is on one of its two ways; and ahead of every
\* message that this user is to read.
KeysInv ==
    /\ wasted \subseteq rejected
    /\ \A v, u \in Users, ch \in Rooms : Shared(v, ch, u)
    /\ \A v \in Users : \A i \in 1..Len(toServer[v]) : Announced(v, i)
    /\ \A u \in Users : \A i \in 1..Len(toClient[u]) : Readable(u, i)

LEMMA Appended ==
    ASSUME NEW S, NEW q \in Seq(S), NEW ms \in Seq(S)
    PROVE  /\ q \o ms \in Seq(S) /\ Len(q \o ms) = Len(q) + Len(ms)
           /\ Len(q) \in Nat /\ Len(ms) \in Nat
           /\ \A i \in 1..Len(q) : i \in 1..Len(q \o ms) /\ (q \o ms)[i] = q[i]
           /\ \A i \in 1..Len(ms) :
                Len(q) + i \in 1..Len(q \o ms) /\ (q \o ms)[Len(q) + i] = ms[i]
           /\ \A i \in 1..Len(q \o ms) :
                \/ i \in 1..Len(q) /\ (q \o ms)[i] = q[i]
                \/ i - Len(q) \in 1..Len(ms) /\ (q \o ms)[i] = ms[i - Len(q)]
OBVIOUS

LEMMA Tailed ==
    ASSUME NEW S, NEW q \in Seq(S), q # <<>>
    PROVE  /\ Tail(q) \in Seq(S) /\ Len(q) \in Nat \ {0} /\ Len(Tail(q)) = Len(q) - 1
           /\ Head(q) = q[1] /\ 1 \in 1..Len(q)
           /\ \A i \in 1..Len(Tail(q)) : i + 1 \in 1..Len(q) /\ Tail(q)[i] = q[i + 1]
           /\ \A i \in 1..Len(q) : i = 1 \/ (i - 1 \in 1..Len(Tail(q)) /\ q[i] = Tail(q)[i - 1])
OBVIOUS

LEMMA KeyInAppended ==
    ASSUME NEW S, NEW q \in Seq(S), NEW ms \in Seq(S), NEW ch, NEW v
    PROVE  /\ KeyIn(q, ch, v) \/ KeyIn(ms, ch, v) => KeyIn(q \o ms, ch, v)
           /\ \A i \in 1..Len(q) : KeyBefore(q, i, ch, v) => KeyBefore(q \o ms, i, ch, v)
           /\ \A i \in 1..Len(ms) : KeyBefore(ms, i, ch, v) \/ KeyIn(q, ch, v)
                                      => KeyBefore(q \o ms, Len(q) + i, ch, v)
<1>1. KeyIn(q, ch, v) => KeyIn(q \o ms, ch, v) BY Appended DEF KeyIn
<1>2. ASSUME KeyIn(ms, ch, v) PROVE KeyIn(q \o ms, ch, v)
  <2>1. PICK j \in 1..Len(ms) : IsKey(ms[j], ch, v) BY <1>2 DEF KeyIn
  <2>2. Len(q) + j \in 1..Len(q \o ms) /\ (q \o ms)[Len(q) + j] = ms[j] BY Appended
  <2> QED BY <2>1, <2>2 DEF KeyIn
<1>3. ASSUME NEW i \in 1..Len(q), KeyBefore(q, i, ch, v) PROVE KeyBefore(q \o ms, i, ch, v)
  <2>1. PICK j \in 1..Len(q) : j < i /\ IsKey(q[j], ch, v) BY <1>3 DEF KeyBefore
  <2>2. j \in 1..Len(q \o ms) /\ (q \o ms)[j] = q[j] BY Appended
  <2> QED BY <2>1, <2>2 DEF KeyBefore
<1>4. ASSUME NEW i \in 1..Len(ms), KeyBefore(ms, i, ch, v)
      PROVE  KeyBefore(q \o ms, Len(q) + i, ch, v)
  <2>1. PICK j \in 1..Len(ms) : j < i /\ IsKey(ms[j], ch, v) BY <1>4 DEF KeyBefore
  <2>2. Len(q) + j \in 1..Len(q \o ms) /\ (q \o ms)[Len(q) + j] = ms[j] BY Appended
  <2>3. Len(q) + j < Len(q) + i BY <2>1, Appended
  <2> QED BY <2>1, <2>2, <2>3 DEF KeyBefore
<1>5. ASSUME NEW i \in 1..Len(ms), KeyIn(q, ch, v)
      PROVE  KeyBefore(q \o ms, Len(q) + i, ch, v)
  <2>1. PICK j \in 1..Len(q) : IsKey(q[j], ch, v) BY <1>5 DEF KeyIn
  <2>2. j \in 1..Len(q \o ms) /\ (q \o ms)[j] = q[j] BY Appended
  <2>3. j < Len(q) + i BY Appended
  <2> QED BY <2>1, <2>2, <2>3 DEF KeyBefore
<1> QED BY <1>1, <1>2, <1>3, <1>4, <1>5

LEMMA KeyInTail ==
    ASSUME NEW S, NEW q \in Seq(S), q # <<>>, NEW ch, NEW v, ~IsKey(Head(q), ch, v)
    PROVE  /\ KeyIn(q, ch, v) => KeyIn(Tail(q), ch, v)
           /\ \A i \in 1..Len(Tail(q)) :
                KeyBefore(q, i + 1, ch, v) => KeyBefore(Tail(q), i, ch, v)
<1>1. ASSUME KeyIn(q, ch, v) PROVE KeyIn(Tail(q), ch, v)
  <2>1. PICK j \in 1..Len(q) : IsKey(q[j], ch, v) BY <1>1 DEF KeyIn
  <2>2. j # 1 BY <2>1, Tailed
  <2>3. j - 1 \in 1..Len(Tail(q)) /\ q[j] = Tail(q)[j - 1] BY <2>2, Tailed
  <2> QED BY <2>1, <2>3 DEF KeyIn
<1>2. ASSUME NEW i \in 1..Len(Tail(q)), KeyBefore(q, i + 1, ch, v)
      PROVE  KeyBefore(Tail(q), i, ch, v)
  <2>1. PICK j \in 1..Len(q) : j < i + 1 /\ IsKey(q[j], ch, v) BY <1>2 DEF KeyBefore
  <2>2. j # 1 BY <2>1, Tailed
  <2>3. j - 1 \in 1..Len(Tail(q)) /\ q[j] = Tail(q)[j - 1] BY <2>2, Tailed
  <2>4. j - 1 < i BY <2>1, Tailed
  <2> QED BY <2>1, <2>3, <2>4 DEF KeyBefore
<1> QED BY <1>1, <1>2

LEMMA NoneBefore == ASSUME NEW q, NEW ch, NEW v PROVE ~KeyBefore(q, 1, ch, v)
BY DEF KeyBefore

\* A client takes at most one message in and sends what it has to: keys, messages
\* to whom it gave them or for whom they are ahead.
ClientDoes(u, ms) ==
    /\ ms \in Seq(ToServer)
    /\ toServer'[u] = toServer[u] \o ms
    /\ \A v \in Users : v # u => toServer'[v] = toServer[v] /\ toClient'[v] = toClient[v]
    /\ \/ toClient'[u] = toClient[u]
       \/ /\ toClient[u] # <<>> /\ toClient'[u] = Tail(toClient[u])
          /\ \A ch, v : IsKey(Head(toClient[u]), ch, v) => <<ch, v>> \in holds'[u]
    /\ \A v \in Users : holds[v] \subseteq holds'[v]
    /\ rejected' = rejected /\ wasted' \subseteq wasted
    /\ \A v, w \in Users, ch \in Rooms :
         w \in distributed'[v][ch] =>
            w \in distributed[v][ch] \/ (v = u /\ KeyIn(ms, ch, w))
    /\ \A i \in 1..Len(ms) : ms[i].type = "chat" =>
         \A w \in ms[i].to : \/ w \in distributed[u][ms[i].ch]
                             \/ KeyBefore(ms, i, ms[i].ch, w)

\* The same of the next state, for rigid arguments.
SettlesNext(v, ch, u) == <<ch, v>> \in holds'[u] \/ <<ch, v, u>> \in rejected'
ReachedNext(v, ch, u) == SettlesNext(v, ch, u) \/ KeyIn(toClient'[u], ch, v)

LEMMA KeysInvNext ==
    ASSUME wasted' \subseteq rejected',
           \A v, w \in Users, ch \in Rooms :
              w \in distributed'[v][ch] => ReachedNext(v, ch, w) \/ KeyIn(toServer'[v], ch, w),
           \A v \in Users : \A i \in 1..Len(toServer'[v]) : \A ch, w :
              /\ toServer'[v][i].type = "chat" /\ ch = toServer'[v][i].ch
              /\ w \in toServer'[v][i].to
              => ReachedNext(v, ch, w) \/ KeyBefore(toServer'[v], i, ch, w),
           \A u \in Users : \A i \in 1..Len(toClient'[u]) : \A ch, v :
              /\ toClient'[u][i].type = "chat" /\ ch = toClient'[u][i].ch
              /\ v = toClient'[u][i].user /\ u \in toClient'[u][i].to
              => SettlesNext(v, ch, u) \/ KeyBefore(toClient'[u], i, ch, v)
    PROVE  KeysInv'
BY DEF KeysInv, Shared, Announced, Readable, Reached, Settles, ReachedNext, SettlesNext

LEMMA ClientKeepsKeys ==
    ASSUME Typed, KeysInv, NEW u \in Users, NEW ms, ClientDoes(u, ms)
    PROVE  KeysInv'
<1>0. /\ ms \in Seq(ToServer) /\ toServer'[u] = toServer[u] \o ms
      /\ \A v \in Users : v # u => toServer'[v] = toServer[v] /\ toClient'[v] = toClient[v]
      /\ \A v \in Users : toServer[v] \in Seq(ToServer) /\ toClient[v] \in Seq(ToClient)
  BY DEF ClientDoes, Typed, QueuesTyped
<1> DEFINE q == toServer[u]
<1>1. ASSUME NEW ch, NEW w
      PROVE  /\ KeyIn(q, ch, w) \/ KeyIn(ms, ch, w) => KeyIn(toServer'[u], ch, w)
             /\ \A i \in 1..Len(q) : KeyBefore(q, i, ch, w) => KeyBefore(toServer'[u], i, ch, w)
             /\ \A i \in 1..Len(ms) : KeyBefore(ms, i, ch, w) \/ KeyIn(q, ch, w)
                                        => KeyBefore(toServer'[u], Len(q) + i, ch, w)
  <2>1. q \in Seq(ToServer) BY <1>0
  <2>2. /\ KeyIn(q, ch, w) \/ KeyIn(ms, ch, w) => KeyIn(q \o ms, ch, w)
        /\ \A i \in 1..Len(q) : KeyBefore(q, i, ch, w) => KeyBefore(q \o ms, i, ch, w)
        /\ \A i \in 1..Len(ms) : KeyBefore(ms, i, ch, w) \/ KeyIn(q, ch, w)
                                   => KeyBefore(q \o ms, Len(q) + i, ch, w)
    BY <1>0, <2>1, KeyInAppended
  <2>3. toServer'[u] = q \o ms BY <1>0
  <2> QED BY <2>2, <2>3
<1>2. ASSUME NEW v, NEW ch, NEW w \in Users, Settles(v, ch, w) PROVE SettlesNext(v, ch, w)
  BY <1>2 DEF Settles, SettlesNext, ClientDoes
<1>3. ASSUME NEW v, NEW ch, toClient'[u] # toClient[u]
      PROVE  \/ SettlesNext(v, ch, u)
             \/ /\ KeyIn(toClient[u], ch, v) => KeyIn(toClient'[u], ch, v)
                /\ \A i \in 1..Len(toClient'[u]) :
                     KeyBefore(toClient[u], i + 1, ch, v) => KeyBefore(toClient'[u], i, ch, v)
  <2>1. /\ toClient[u] # <<>> /\ toClient'[u] = Tail(toClient[u])
        /\ IsKey(Head(toClient[u]), ch, v) => <<ch, v>> \in holds'[u]
    BY <1>3 DEF ClientDoes
  <2>2. CASE IsKey(Head(toClient[u]), ch, v) BY <2>1, <2>2 DEF SettlesNext
  <2>3. CASE ~IsKey(Head(toClient[u]), ch, v) BY <1>0, <2>1, <2>3, KeyInTail
  <2> QED BY <2>2, <2>3
<1>4. ASSUME NEW v, NEW ch, NEW w \in Users, Reached(v, ch, w) PROVE ReachedNext(v, ch, w)
  <2>1. CASE toClient'[w] = toClient[w] BY <1>2, <1>4, <2>1 DEF Reached, ReachedNext
  <2>2. CASE toClient'[w] # toClient[w]
    <3>1. w = u BY <1>0, <2>2
    <3> QED BY <1>2, <1>3, <1>4, <2>2, <3>1 DEF Reached, ReachedNext
  <2> QED BY <2>1, <2>2
<1>5. ASSUME NEW v \in Users, NEW w \in Users, NEW ch \in Rooms, w \in distributed'[v][ch]
      PROVE  ReachedNext(v, ch, w) \/ KeyIn(toServer'[v], ch, w)
  <2>1. CASE w \in distributed[v][ch]
    <3>1. Reached(v, ch, w) \/ KeyIn(toServer[v], ch, w) BY <2>1 DEF KeysInv, Shared
    <3>2. CASE v = u BY <1>1, <1>4, <3>1, <3>2
    <3>3. CASE v # u BY <1>0, <1>4, <3>1, <3>3
    <3> QED BY <3>2, <3>3
  <2>2. CASE v = u /\ KeyIn(ms, ch, w) BY <1>1, <2>2
  <2> QED BY <1>5, <2>1, <2>2 DEF ClientDoes
<1>6. ASSUME NEW v \in Users, NEW i \in 1..Len(toServer'[v]), NEW ch, NEW w,
             toServer'[v][i].type = "chat", ch = toServer'[v][i].ch, w \in toServer'[v][i].to
      PROVE  ReachedNext(v, ch, w) \/ KeyBefore(toServer'[v], i, ch, w)
  <2>1. toServer'[v] \in Seq(ToServer)
    <3>1. CASE v = u
      <4>1. q \in Seq(ToServer) /\ toServer'[u] = q \o ms BY <1>0
      <4>2. q \o ms \in Seq(ToServer)
        <5> HIDE DEF q
        <5> QED BY <1>0, <4>1, Appended
      <4> QED BY <3>1, <4>1, <4>2
    <3>2. CASE v # u BY <1>0, <3>2
    <3> QED BY <3>1, <3>2
  <2>2. toServer'[v][i] \in ToServer BY <2>1
  <2>3. ch \in Rooms /\ w \in Users BY <1>6, <2>2, Fields
  <2>4. ASSUME i \in 1..Len(toServer[v]), toServer'[v][i] = toServer[v][i]
        PROVE  Reached(v, ch, w) \/ KeyBefore(toServer[v], i, ch, w)
    BY <1>6, <2>4 DEF KeysInv, Announced
  <2>5. CASE v # u
    <3>1. toServer'[v] = toServer[v] BY <1>0, <2>5
    <3> QED BY <1>4, <2>3, <2>4, <3>1
  <2>6. CASE v = u /\ i \in 1..Len(q) /\ toServer'[v][i] = q[i]
    BY <1>1, <1>4, <2>3, <2>4, <2>6
  <2>7. CASE v = u /\ i - Len(q) \in 1..Len(ms) /\ toServer'[v][i] = ms[i - Len(q)]
    <3> DEFINE j == i - Len(q)
    <3>1. w \in distributed[u][ch] \/ KeyBefore(ms, j, ch, w) BY <1>6, <2>7 DEF ClientDoes
    <3>2. Len(q) + j = i /\ j \in 1..Len(ms) BY <1>0, <2>7, Appended
    <3> HIDE DEF j
    <3>3. CASE KeyBefore(ms, j, ch, w) BY <1>1, <2>7, <3>2, <3>3
    <3>4. CASE w \in distributed[u][ch]
      <4>1. Reached(u, ch, w) \/ KeyIn(q, ch, w) BY <2>3, <3>4 DEF KeysInv, Shared
      <4> QED BY <1>1, <1>4, <2>3, <2>7, <3>2, <4>1
    <3> QED BY <3>1, <3>3, <3>4
  <2>8. v = u => \/ i \in 1..Len(q) /\ toServer'[v][i] = q[i]
                 \/ i - Len(q) \in 1..Len(ms) /\ toServer'[v][i] = ms[i - Len(q)]
    <3>1. \A k \in 1..Len(q \o ms) :
             \/ k \in 1..Len(q) /\ (q \o ms)[k] = q[k]
             \/ k - Len(q) \in 1..Len(ms) /\ (q \o ms)[k] = ms[k - Len(q)]
      <4>1. q \in Seq(ToServer) BY <1>0
      <4> HIDE DEF q
      <4> QED BY <1>0, <4>1, Appended
    <3>2. toServer'[u] = q \o ms BY <1>0
    <3> QED BY <3>1, <3>2
  <2> QED BY <2>5, <2>6, <2>7, <2>8
<1>7. ASSUME NEW w \in Users, NEW i \in 1..Len(toClient'[w]), NEW ch, NEW v,
             toClient'[w][i].type = "chat", ch = toClient'[w][i].ch, v = toClient'[w][i].user,
             w \in toClient'[w][i].to
      PROVE  SettlesNext(v, ch, w) \/ KeyBefore(toClient'[w], i, ch, v)
  <2>1. CASE toClient'[w] = toClient[w]
    <3>1. Settles(v, ch, w) \/ KeyBefore(toClient[w], i, ch, v)
      BY <1>7, <2>1 DEF KeysInv, Readable
    <3> QED BY <1>2, <2>1, <3>1
  <2>2. CASE toClient'[w] # toClient[w]
    <3>1. w = u /\ toClient[u] # <<>> /\ toClient'[u] = Tail(toClient[u])
      BY <1>0, <2>2 DEF ClientDoes
    <3>2. i + 1 \in 1..Len(toClient[u]) /\ toClient'[u][i] = toClient[u][i + 1]
      BY <1>0, <3>1, Tailed
    <3>3. Settles(v, ch, u) \/ KeyBefore(toClient[u], i + 1, ch, v)
      BY <1>7, <3>1, <3>2 DEF KeysInv, Readable
    <3> QED BY <1>2, <1>3, <2>2, <3>1, <3>3
  <2> QED BY <2>1, <2>2
<1>8. wasted' \subseteq rejected' BY DEF KeysInv, ClientDoes
<1> HIDE DEF q
<1> QED BY <1>5, <1>6, <1>7, <1>8, KeysInvNext

\* The server takes at most one message in and tells the clients of it; a key it
\* does not pass on is counted, a chat message goes on as it is.
ServerDoes(u) ==
    /\ \A v \in Users : v # u => toServer'[v] = toServer[v]
    /\ \/ toServer'[u] = toServer[u]
       \/ /\ toServer[u] # <<>> /\ toServer'[u] = Tail(toServer[u])
          /\ \A ch \in Rooms, w \in Users :
               IsKey(Head(toServer[u]), ch, w) => ReachedNext(u, ch, w)
    /\ \A w \in Users :
         \/ toClient'[w] = toClient[w]
         \/ \E m \in ToClient :
              /\ toClient'[w] = Append(toClient[w], m)
              /\ m.type = "chat" =>
                   /\ toServer[u] # <<>> /\ Head(toServer[u]).type = "chat"
                   /\ m.user = u /\ m.ch = Head(toServer[u]).ch /\ m.to = Head(toServer[u]).to
    /\ holds' = holds /\ distributed' = distributed
    /\ rejected \subseteq rejected' /\ wasted' \subseteq wasted \cup rejected'

LEMMA AppendedOne ==
    ASSUME NEW S, NEW q \in Seq(S), NEW m \in S
    PROVE  /\ Append(q, m) \in Seq(S) /\ Len(q) \in Nat /\ Len(Append(q, m)) = Len(q) + 1
           /\ \A i \in 1..Len(q) : i \in 1..Len(Append(q, m)) /\ Append(q, m)[i] = q[i]
           /\ Append(q, m)[Len(q) + 1] = m
           /\ \A i \in 1..Len(Append(q, m)) : i \in 1..Len(q) \/ i = Len(q) + 1
OBVIOUS

LEMMA KeyInOneMore ==
    ASSUME NEW S, NEW q \in Seq(S), NEW m \in S, NEW ch, NEW v
    PROVE  /\ KeyIn(q, ch, v) => KeyIn(Append(q, m), ch, v)
           /\ IsKey(m, ch, v) => KeyIn(Append(q, m), ch, v)
           /\ \A i \in 1..Len(q) : KeyBefore(q, i, ch, v) => KeyBefore(Append(q, m), i, ch, v)
           /\ KeyIn(q, ch, v) => KeyBefore(Append(q, m), Len(q) + 1, ch, v)
<1>1. KeyIn(q, ch, v) => KeyIn(Append(q, m), ch, v) BY AppendedOne DEF KeyIn
<1>2. IsKey(m, ch, v) => KeyIn(Append(q, m), ch, v)
  <2>1. Len(q) + 1 \in 1..Len(Append(q, m)) /\ Append(q, m)[Len(q) + 1] = m BY AppendedOne
  <2> QED BY <2>1 DEF KeyIn
<1>3. ASSUME NEW i \in 1..Len(q), KeyBefore(q, i, ch, v) PROVE KeyBefore(Append(q, m), i, ch, v)
  <2>1. PICK j \in 1..Len(q) : j < i /\ IsKey(q[j], ch, v) BY <1>3 DEF KeyBefore
  <2>2. j \in 1..Len(Append(q, m)) /\ Append(q, m)[j] = q[j] BY AppendedOne
  <2> QED BY <2>1, <2>2 DEF KeyBefore
<1>4. ASSUME KeyIn(q, ch, v) PROVE KeyBefore(Append(q, m), Len(q) + 1, ch, v)
  <2>1. PICK j \in 1..Len(q) : IsKey(q[j], ch, v) BY <1>4 DEF KeyIn
  <2>2. j \in 1..Len(Append(q, m)) /\ Append(q, m)[j] = q[j] /\ j < Len(q) + 1
    BY AppendedOne
  <2> QED BY <2>1, <2>2 DEF KeyBefore
<1> QED BY <1>1, <1>2, <1>3, <1>4

LEMMA ServerKeepsKeys ==
    ASSUME Typed, KeysInv, NEW u \in Users, ServerDoes(u)
    PROVE  KeysInv'
<1>1. \A v \in Users : toServer[v] \in Seq(ToServer) /\ toClient[v] \in Seq(ToClient)
  BY DEF Typed, QueuesTyped
<1>2. ASSUME NEW v, NEW ch, NEW w \in Users, Settles(v, ch, w) PROVE SettlesNext(v, ch, w)
  BY <1>2 DEF Settles, SettlesNext, ServerDoes
<1>3. ASSUME NEW v, NEW ch, NEW w \in Users
      PROVE  /\ KeyIn(toClient[w], ch, v) => KeyIn(toClient'[w], ch, v)
             /\ \A i \in 1..Len(toClient[w]) :
                  KeyBefore(toClient[w], i, ch, v) => KeyBefore(toClient'[w], i, ch, v)
  <2>1. CASE toClient'[w] = toClient[w] BY <2>1
  <2>2. ASSUME NEW m \in ToClient, toClient'[w] = Append(toClient[w], m)
        PROVE  /\ KeyIn(toClient[w], ch, v) => KeyIn(toClient'[w], ch, v)
               /\ \A i \in 1..Len(toClient[w]) :
                    KeyBefore(toClient[w], i, ch, v) => KeyBefore(toClient'[w], i, ch, v)
    <3>1. /\ KeyIn(toClient[w], ch, v) => KeyIn(Append(toClient[w], m), ch, v)
          /\ \A i \in 1..Len(toClient[w]) :
               KeyBefore(toClient[w], i, ch, v) => KeyBefore(Append(toClient[w], m), i, ch, v)
      BY <1>1, KeyInOneMore
    <3> QED BY <2>2, <3>1
  <2> QED BY <2>1, <2>2 DEF ServerDoes
<1>4. ASSUME NEW v, NEW ch, NEW w \in Users, Reached(v, ch, w) PROVE ReachedNext(v, ch, w)
  BY <1>2, <1>3, <1>4 DEF Reached, ReachedNext
<1>5. ASSUME NEW v \in Users, NEW ch \in Rooms, NEW w \in Users, toServer'[v] # toServer[v]
      PROVE  \/ ReachedNext(v, ch, w)
             \/ /\ KeyIn(toServer[v], ch, w) => KeyIn(toServer'[v], ch, w)
                /\ \A i \in 1..Len(toServer'[v]) :
                     KeyBefore(toServer[v], i + 1, ch, w) => KeyBefore(toServer'[v], i, ch, w)
  <2>1. /\ v = u /\ toServer[u] # <<>> /\ toServer'[u] = Tail(toServer[u])
        /\ IsKey(Head(toServer[u]), ch, w) => ReachedNext(u, ch, w)
    BY <1>5 DEF ServerDoes
  <2>2. CASE IsKey(Head(toServer[u]), ch, w) BY <2>1, <2>2
  <2>3. CASE ~IsKey(Head(toServer[u]), ch, w) BY <1>1, <2>1, <2>3, KeyInTail
  <2> QED BY <2>2, <2>3
<1>6. ASSUME NEW v \in Users, NEW w \in Users, NEW ch \in Rooms, w \in distributed'[v][ch]
      PROVE  ReachedNext(v, ch, w) \/ KeyIn(toServer'[v], ch, w)
  <2>1. w \in distributed[v][ch] BY <1>6 DEF ServerDoes
  <2>2. Reached(v, ch, w) \/ KeyIn(toServer[v], ch, w) BY <2>1 DEF KeysInv, Shared
  <2>3. CASE toServer'[v] = toServer[v] BY <1>4, <2>2, <2>3
  <2>4. CASE toServer'[v] # toServer[v] BY <1>4, <1>5, <2>2, <2>4
  <2> QED BY <2>3, <2>4
<1>7. ASSUME NEW v \in Users, NEW i \in 1..Len(toServer'[v]), NEW ch, NEW w,
             toServer'[v][i].type = "chat", ch = toServer'[v][i].ch, w \in toServer'[v][i].to
      PROVE  ReachedNext(v, ch, w) \/ KeyBefore(toServer'[v], i, ch, w)
  <2>1. CASE toServer'[v] = toServer[v]
    <3>1. toServer[v][i] \in ToServer BY <1>1, <2>1
    <3>2. w \in Users BY <1>7, <2>1, <3>1, Fields
    <3>3. Reached(v, ch, w) \/ KeyBefore(toServer[v], i, ch, w)
      BY <1>7, <2>1 DEF KeysInv, Announced
    <3> QED BY <1>4, <2>1, <3>2, <3>3
  <2>2. CASE toServer'[v] # toServer[v]
    <3>1. v = u /\ toServer[u] # <<>> /\ toServer'[u] = Tail(toServer[u])
      BY <2>2 DEF ServerDoes
    <3>2. i + 1 \in 1..Len(toServer[u]) /\ toServer'[u][i] = toServer[u][i + 1]
      BY <1>1, <3>1, Tailed
    <3>3. toServer[u][i + 1] \in ToServer BY <1>1, <3>2
    <3>4. ch \in Rooms /\ w \in Users BY <1>7, <3>1, <3>2, <3>3, Fields
    <3>5. Reached(u, ch, w) \/ KeyBefore(toServer[u], i + 1, ch, w)
      BY <1>7, <3>1, <3>2 DEF KeysInv, Announced
    <3> QED BY <1>4, <1>5, <2>2, <3>1, <3>4, <3>5
  <2> QED BY <2>1, <2>2
<1>8. ASSUME NEW w \in Users, NEW i \in 1..Len(toClient'[w]), NEW ch, NEW v,
             toClient'[w][i].type = "chat", ch = toClient'[w][i].ch, v = toClient'[w][i].user,
             w \in toClient'[w][i].to
      PROVE  SettlesNext(v, ch, w) \/ KeyBefore(toClient'[w], i, ch, v)
  <2>1. ASSUME i \in 1..Len(toClient[w]), toClient'[w][i] = toClient[w][i]
        PROVE  SettlesNext(v, ch, w) \/ KeyBefore(toClient'[w], i, ch, v)
    <3>1. Settles(v, ch, w) \/ KeyBefore(toClient[w], i, ch, v)
      BY <1>8, <2>1 DEF KeysInv, Readable
    <3> QED BY <1>2, <1>3, <2>1, <3>1
  <2>2. CASE toClient'[w] = toClient[w] BY <2>1, <2>2
  <2>3. ASSUME NEW m \in ToClient, toClient'[w] = Append(toClient[w], m),
               m.type = "chat" =>
                 /\ toServer[u] # <<>> /\ Head(toServer[u]).type = "chat"
                 /\ m.user = u /\ m.ch = Head(toServer[u]).ch /\ m.to = Head(toServer[u]).to
        PROVE  SettlesNext(v, ch, w) \/ KeyBefore(toClient'[w], i, ch, v)
    <3> DEFINE q == toClient[w]
    <3>1. q \in Seq(ToClient) BY <1>1
    <3> HIDE DEF q
    <3>2. /\ \A k \in 1..Len(Append(q, m)) : k \in 1..Len(q) \/ k = Len(q) + 1
          /\ \A k \in 1..Len(q) : Append(q, m)[k] = q[k]
          /\ Append(q, m)[Len(q) + 1] = m
      BY <3>1, AppendedOne
    <3>3. KeyIn(q, ch, v) => KeyBefore(Append(q, m), Len(q) + 1, ch, v) BY <3>1, KeyInOneMore
    <3>4. CASE i \in 1..Len(q) BY <2>1, <2>3, <3>2, <3>4 DEF q
    <3>5. CASE i = Len(q) + 1
      <4>1. toClient'[w][i] = m BY <2>3, <3>2, <3>5 DEF q
      <4>2. /\ toServer[u] # <<>> /\ Head(toServer[u]).type = "chat" /\ v = u
            /\ ch = Head(toServer[u]).ch /\ w \in Head(toServer[u]).to
        BY <1>8, <2>3, <4>1
      <4>3. 1 \in 1..Len(toServer[u]) /\ Head(toServer[u]) = toServer[u][1]
        BY <1>1, <4>2, Tailed
      <4>4. Reached(u, ch, w) \/ KeyBefore(toServer[u], 1, ch, w)
        BY <4>2, <4>3 DEF KeysInv, Announced
      <4>5. Reached(v, ch, w) BY <4>2, <4>4, NoneBefore
      <4>6. CASE Settles(v, ch, w) BY <1>2, <4>6
      <4>7. CASE KeyIn(q, ch, v) BY <2>3, <3>3, <3>5, <4>7 DEF q
      <4> QED BY <4>5, <4>6, <4>7 DEF Reached, q
    <3> QED BY <1>8, <2>3, <3>2, <3>4, <3>5 DEF q
  <2> QED BY <2>2, <2>3 DEF ServerDoes
<1>9. wasted' \subseteq rejected' BY DEF KeysInv, ServerDoes
<1> QED BY <1>6, <1>7, <1>8, <1>9, KeysInvNext

\* What there is to show of a step of a client.
LEMMA Does ==
    ASSUME Typed, NEW u \in Users, NEW ms \in Seq(ToServer), Post(u, ms),
           \/ toClient' = toClient
           \/ \E type : /\ Reading(u, type)
                        /\ \/ type # "key"
                           \/ <<Head(toClient[u]).ch, Head(toClient[u]).user>> \in holds'[u],
           \A v \in Users : holds[v] \subseteq holds'[v],
           rejected' = rejected, wasted' \subseteq wasted,
           \A v, w \in Users, ch \in Rooms :
              w \in distributed'[v][ch] =>
                 w \in distributed[v][ch] \/ (v = u /\ KeyIn(ms, ch, w)),
           \A i \in 1..Len(ms) : ms[i].type = "chat" =>
              \A w \in ms[i].to : \/ w \in distributed[u][ms[i].ch]
                                  \/ KeyBefore(ms, i, ms[i].ch, w)
    PROVE  ClientDoes(u, ms)
<1>1. /\ toServer'[u] = toServer[u] \o ms
      /\ \A v \in Users : v # u => toServer'[v] = toServer[v]
  BY Posted DEF Typed
<1>2. \/ toClient' = toClient
      \/ /\ toClient[u] # <<>> /\ toClient'[u] = Tail(toClient[u])
         /\ \A v \in Users : v # u => toClient'[v] = toClient[v]
         /\ \/ Head(toClient[u]).type # "key"
            \/ <<Head(toClient[u]).ch, Head(toClient[u]).user>> \in holds'[u]
  <2>1. ASSUME NEW type, Reading(u, type),
               \/ type # "key"
               \/ <<Head(toClient[u]).ch, Head(toClient[u]).user>> \in holds'[u]
        PROVE  /\ toClient[u] # <<>> /\ toClient'[u] = Tail(toClient[u])
               /\ \A v \in Users : v # u => toClient'[v] = toClient[v]
               /\ \/ Head(toClient[u]).type # "key"
                  \/ <<Head(toClient[u]).ch, Head(toClient[u]).user>> \in holds'[u]
    BY <2>1, Read DEF Typed
  <2> QED BY <2>1
<1>3. CASE toClient' = toClient BY <1>1, <1>3 DEF ClientDoes
<1>4. CASE /\ toClient[u] # <<>> /\ toClient'[u] = Tail(toClient[u])
           /\ \A v \in Users : v # u => toClient'[v] = toClient[v]
           /\ \/ Head(toClient[u]).type # "key"
              \/ <<Head(toClient[u]).ch, Head(toClient[u]).user>> \in holds'[u]
  <2>1. \A ch, v : IsKey(Head(toClient[u]), ch, v) => <<ch, v>> \in holds'[u] BY <1>4 DEF IsKey
  <2> QED BY <1>1, <1>4, <2>1 DEF ClientDoes
<1> QED BY <1>2, <1>3, <1>4

LEMMA NothingPosted ==
    ASSUME Typed, NEW u \in Users, toServer' = toServer
    PROVE  <<>> \in Seq(ToServer) /\ Post(u, <<>>) /\ 1..Len(<<>>) = {}
<1>1. toServer[u] \in Seq(ToServer) /\ toServer \in [Users -> Seq(ToServer)]
  BY DEF Typed, QueuesTyped
<1>2. toServer[u] \o <<>> = toServer[u] BY <1>1
<1> QED BY <1>1, <1>2 DEF Post

\* A client that sends nothing, or neither a key nor a chat message.
LEMMA QuietKeepsKeys ==
    ASSUME Typed, KeysInv, NEW u \in Users, NEW ms \in Seq(ToServer), Post(u, ms),
           \A i \in 1..Len(ms) : ms[i].type # "chat",
           toClient' = toClient \/ \E type : Reading(u, type) /\ type # "key",
           holds' = holds, rejected' = rejected, wasted' \subseteq wasted,
           \A v \in Users, ch \in Rooms : distributed'[v][ch] \subseteq distributed[v][ch]
    PROVE  KeysInv'
<1>1. ClientDoes(u, ms)
  <2>1. \A v \in Users : holds[v] \subseteq holds'[v] OBVIOUS
  <2>2. \A v, w \in Users, ch \in Rooms :
          w \in distributed'[v][ch] =>
             w \in distributed[v][ch] \/ (v = u /\ KeyIn(ms, ch, w))
    OBVIOUS
  <2>3. \A i \in 1..Len(ms) : ms[i].type = "chat" =>
           \A w \in ms[i].to : \/ w \in distributed[u][ms[i].ch]
                               \/ KeyBefore(ms, i, ms[i].ch, w)
    OBVIOUS
  <2> QED BY <2>1, <2>2, <2>3, Does
<1> QED BY <1>1, ClientKeepsKeys

LEMMA AsksKeepsKeys ==
    ASSUME Typed, KeysInv, NEW u \in Users, NEW vs \in SUBSET Users, Ask(u, vs),
           NEW type, Reading(u, type), type # "key",
           holds' = holds, rejected' = rejected, wasted' \subseteq wasted,
           \A v \in Users, ch \in Rooms : distributed'[v][ch] \subseteq distributed[v][ch]
    PROVE  KeysInv'
<1>1. PICK ms \in Seq(ToServer) :
        /\ Post(u, ms)
        /\ \A i \in 1..Len(ms) : \E v \in Unknown(u, vs) : ms[i] = RequestBundle(v)
  BY Asks DEF Typed
<1>2. ASSUME NEW i \in 1..Len(ms) PROVE ms[i].type # "chat"
  <2>1. PICK v : ms[i] = RequestBundle(v) BY <1>1
  <2> QED BY <2>1 DEF RequestBundle
<1> QED BY <1>1, <1>2, QuietKeepsKeys

LEMMA ReadersKeepKeys ==
    ASSUME Typed, KeysInv, NEW u \in Users,
           \/ ReadUserList(u) \/ ReadUserJoined(u) \/ ReadUserLeft(u)
           \/ ReadChat(u) \/ ReadDirect(u)
    PROVE  KeysInv'
<1> DEFINE m == Head(toClient[u])
<1>1. CASE ReadUserList(u)
  <2>1. /\ Reading(u, "user_list") /\ Forget(u, IF m.ch # channel[u] THEN m.ch ELSE Lobby)
        /\ Ask(u, m.users) /\ holds' = holds /\ rejected' = rejected
    BY <1>1 DEF ReadUserList
  <2>2. m \in ToClient /\ m.type = "user_list" BY <2>1, Read DEF Typed
  <2>3. m.ch \in Channels /\ m.users \in SUBSET Users BY <2>2, Fields
  <2>4. (IF m.ch # channel[u] THEN m.ch ELSE Lobby) \in Channels BY <2>3, Places
  <2>5. /\ wasted' \subseteq wasted
        /\ \A v \in Users, ch \in Rooms : distributed'[v][ch] \subseteq distributed[v][ch]
    BY <2>1, <2>4, Forgets DEF Typed
  <2> QED BY <2>1, <2>3, <2>5, AsksKeepsKeys
<1>2. CASE ReadUserJoined(u)
  <2>1. /\ Reading(u, "joined") /\ Ask(u, {m.user})
        /\ UNCHANGED <<holds, rejected, wasted, distributed>>
    BY <1>2 DEF ReadUserJoined, history
  <2>2. m \in ToClient /\ m.type = "joined" BY <2>1, Read DEF Typed
  <2>3. {m.user} \in SUBSET Users BY <2>2, Fields
  <2> QED BY <2>1, <2>3, AsksKeepsKeys
<1>3. CASE ReadUserLeft(u)
  <2>1. /\ Reading(u, "left") /\ toServer' = toServer
        /\ distributed' = [distributed EXCEPT ![u] = [r \in Rooms |-> @[r] \ {m.user}]]
        /\ wasted' \subseteq wasted /\ UNCHANGED <<holds, rejected>>
    BY <1>3 DEF ReadUserLeft
  <2>2. \A v \in Users, ch \in Rooms : distributed'[v][ch] \subseteq distributed[v][ch]
    BY <2>1 DEF Typed, SignalTyped
  <2>3. /\ <<>> \in Seq(ToServer) /\ Post(u, <<>>)
        /\ \A i \in 1..Len(<<>>) : <<>>[i].type # "chat"
    BY <2>1, NothingPosted
  <2>4. \E type : Reading(u, type) /\ type # "key" BY <2>1
  <2> QED BY <2>1, <2>2, <2>3, <2>4, QuietKeepsKeys
<1>4. CASE ReadChat(u) \/ ReadDirect(u)
  <2>1. /\ Reading(u, "chat") \/ Reading(u, "direct")
        /\ UNCHANGED <<toServer, distributed, holds, rejected, wasted>>
    BY <1>4 DEF ReadChat, ReadDirect, signal
  <2>2. /\ <<>> \in Seq(ToServer) /\ Post(u, <<>>)
        /\ \A i \in 1..Len(<<>>) : <<>>[i].type # "chat"
    BY <2>1, NothingPosted
  <2>3. \E type : Reading(u, type) /\ type # "key" BY <2>1
  <2> QED BY <2>1, <2>2, <2>3, QuietKeepsKeys
<1> QED BY <1>1, <1>2, <1>3, <1>4

LEMMA JoinKeepsKeys ==
    ASSUME Typed, KeysInv, NEW u \in Users, NEW ch \in Channels, Join(u, ch)
    PROVE  KeysInv'
<1>1. /\ Post(u, <<RequestJoin(ch)>>) /\ Forget(u, ch)
      /\ UNCHANGED <<toClient, holds, rejected>>
  BY DEF Join
<1>2. <<RequestJoin(ch)>> \in Seq(ToServer) BY Constructors, Single
<1>3. \A i \in 1..Len(<<RequestJoin(ch)>>) : <<RequestJoin(ch)>>[i].type # "chat"
  BY DEF RequestJoin
<1>4. /\ wasted' \subseteq wasted
      /\ \A v \in Users, r \in Rooms : distributed'[v][r] \subseteq distributed[v][r]
  BY <1>1, Forgets DEF Typed
<1> QED BY <1>1, <1>2, <1>3, <1>4, QuietKeepsKeys

LEMMA KeysSame ==
    ASSUME KeysInv, UNCHANGED <<toServer, toClient, holds, distributed, rejected, wasted>>
    PROVE  KeysInv'
BY DEF KeysInv, Shared, Announced, Readable, Reached, Settles

LEMMA KeySent ==
    ASSUME NEW ch, NEW v, NEW p
    PROVE  /\ IsKey(SendKey(ch, v, p), ch, v) /\ KeyIn(<<SendKey(ch, v, p)>>, ch, v)
           /\ Len(<<SendKey(ch, v, p)>>) = 1 /\ <<SendKey(ch, v, p)>>[1].type = "key"
<1>1. IsKey(SendKey(ch, v, p), ch, v) /\ SendKey(ch, v, p).type = "key" BY DEF SendKey, IsKey
<1> DEFINE m == SendKey(ch, v, p)
<1> HIDE DEF m
<1>2. Len(<<m>>) = 1 /\ <<m>>[1] = m OBVIOUS
<1> QED BY <1>1, <1>2 DEF KeyIn, m

LEMMA CheckKeepsKeys == ASSUME Typed, KeysInv, NEW u \in Users, CheckKeys(u) PROVE KeysInv'
<1> DEFINE target == writer[u].for
<1> DEFINE to == KeysFor(u, target)
<1>1. /\ writer[u].at = "check" /\ UNCHANGED <<toClient, holds, distributed, rejected, wasted>>
      /\ IF to # {}
         THEN Post(u, <<IF target \in Users THEN SendDirect(target, target \in fresh[u])
                                            ELSE SendChat(target, writer[u].id, to)>>)
         ELSE toServer' = toServer
  BY DEF CheckKeys, signal
<1>2. target \in Targets /\ writer[u].id \in Chats BY <1>1, WriterAt DEF Typed
<1>3. CASE to = {} BY <1>1, <1>3, KeysSame
<1>4. CASE to # {} /\ target \in Users
  <2>1. SendDirect(target, target \in fresh[u]) \in ToServer
    <3>1. (target \in fresh[u]) \in BOOLEAN OBVIOUS
    <3> QED BY <1>4, <3>1, Constructors, Zenon
  <2> DEFINE m == SendDirect(target, target \in fresh[u])
  <2>2. m.type # "chat" BY DEF SendDirect
  <2>3. Post(u, <<m>>) BY <1>1, <1>4, Zenon
  <2> HIDE DEF m
  <2>4. <<m>> \in Seq(ToServer) /\ \A i \in 1..Len(<<m>>) : <<m>>[i].type # "chat"
    BY <2>1, <2>2 DEF m
  <2> QED BY <1>1, <2>3, <2>4, QuietKeepsKeys
<1>5. CASE to # {} /\ target \notin Users
  <2> DEFINE m == SendChat(target, writer[u].id, to)
  <2>1. target \in Rooms BY <1>2, <1>5, Places
  <2>2. to = distributed[u][target] BY <1>5 DEF KeysFor
  <2>3. to \in SUBSET Users BY <1>2, KeysForType DEF Typed
  <2>4. m \in ToServer BY <1>2, <2>1, <2>3, Constructors
  <2>5. m.to = distributed[u][m.ch] BY <2>2 DEF SendChat
  <2>6. Post(u, <<m>>) BY <1>1, <1>5, Zenon
  <2> HIDE DEF m, to, target
  <2>7. /\ <<m>> \in Seq(ToServer)
        /\ \A i \in 1..Len(<<m>>) : \A w \in <<m>>[i].to : w \in distributed[u][<<m>>[i].ch]
    BY <2>4, <2>5
  <2>8. ClientDoes(u, <<m>>) BY <1>1, <2>6, <2>7, Does
  <2> QED BY <2>8, ClientKeepsKeys
<1> QED BY <1>3, <1>4, <1>5

\* The key goes behind the direct messages, and no chat message goes with it.
LEMMA BundleKeepsKeys == ASSUME Typed, KeysInv, NEW u \in Users, ReadBundle(u) PROVE KeysInv'
<1> DEFINE v == Head(toClient[u]).user
<1> DEFINE a == DirectDue(u, v)
<1> DEFINE b == OurKey(u, v)
<1>1. /\ Reading(u, "bundle") /\ v \in Users /\ Post(u, a \o b)
      /\ distributed' = IF channel[u] # Lobby
                        THEN [distributed EXCEPT ![u][channel[u]] = @ \cup {v}]
                        ELSE distributed
      /\ UNCHANGED <<holds, rejected, wasted>>
  BY BundleFacts
<1> HIDE DEF v
<1>2. a \in Seq(ToServer) /\ b \in Seq(ToServer) /\ a \o b \in Seq(ToServer)
  BY <1>1, BundleSends
<1>3. \A i \in 1..Len(a) : a[i].type # "chat"
  <2>1. Cardinality(Due(u, v)) \in Nat BY <1>1, DueIs DEF Typed
  <2>2. SendDirect(v, TRUE).type = "direct" BY DEF SendDirect
  <2>3. \A i \in 1..Len(a) : a[i] = SendDirect(v, TRUE) BY <2>1 DEF DirectDue
  <2> HIDE DEF a
  <2> QED BY <2>2, <2>3
<1>4. channel[u] # Lobby => /\ KeyIn(b, channel[u], v)
                            /\ Len(b) = 1 /\ b[1].type = "key"
  BY KeySent, Zenon DEF OurKey
<1>5. \A i \in 1..Len(b) : b[i].type # "chat"
  <2>1. CASE channel[u] # Lobby
    <3> HIDE DEF b
    <3> QED BY <1>4, <2>1
  <2>2. CASE channel[u] = Lobby BY <2>2 DEF OurKey
  <2> QED BY <2>1, <2>2
<1>7. \A ch, w : KeyIn(b, ch, w) => KeyIn(a \o b, ch, w)
  <2> HIDE DEF a, b
  <2> QED BY <1>2, KeyInAppended
<1>8. ASSUME NEW x \in Users, NEW w \in Users, NEW ch \in Rooms, w \in distributed'[x][ch]
      PROVE  w \in distributed[x][ch] \/ (x = u /\ KeyIn(a \o b, ch, w))
  <2> HIDE DEF a, b
  <2>1. CASE channel[u] = Lobby BY <1>1, <1>8, <2>1
  <2>2. CASE channel[u] # Lobby
    <3>1. distributed' = [distributed EXCEPT ![u][channel[u]] = @ \cup {v}] BY <1>1, <2>2
    <3>2. w \in distributed[x][ch] \/ (x = u /\ ch = channel[u] /\ w = v)
      BY <1>8, <3>1 DEF Typed, SignalTyped
    <3> QED BY <1>4, <1>7, <2>2, <3>2
  <2> QED BY <2>1, <2>2
<1> HIDE DEF a, b
<1>9. \A i \in 1..Len(a \o b) : (a \o b)[i].type # "chat"
  <2>1. \A i \in 1..Len(a \o b) : \/ i \in 1..Len(a) /\ (a \o b)[i] = a[i]
                                  \/ i - Len(a) \in 1..Len(b) /\ (a \o b)[i] = b[i - Len(a)]
    BY <1>2, Appended
  <2> QED BY <1>3, <1>5, <2>1
<1>10. ClientDoes(u, a \o b)
  <2>1. a \o b \in Seq(ToServer) /\ Post(u, a \o b) BY <1>1, <1>2 DEF a, b
  <2>2. \E type : /\ Reading(u, type)
                  /\ type # "key" \/ <<Head(toClient[u]).ch, Head(toClient[u]).user>> \in holds'[u]
    BY <1>1
  <2>3. \A w \in Users : holds[w] \subseteq holds'[w] BY <1>1
  <2>4. rejected' = rejected /\ wasted' \subseteq wasted BY <1>1
  <2> QED BY <1>8, <1>9, <2>1, <2>2, <2>3, <2>4, Does
<1> QED BY <1>10, ClientKeepsKeys

\* Our key goes ahead of the chat messages that go to its new holder.
LEMMA KeyKeepsKeys == ASSUME Typed, KeysInv, NEW u \in Users, ReadKey(u) PROVE KeysInv'
<1> DEFINE m == Head(toClient[u])
<1> DEFINE ch == m.ch
<1> DEFINE v == m.user
<1>1. /\ Reading(u, "key") /\ ch \in Rooms /\ v \in Users
      /\ holds' = [holds EXCEPT ![u] = @ \cup {<<ch, v>>}]
      /\ distributed' = [distributed EXCEPT ![u][ch] = @ \cup {v}]
      /\ \E due \in Queued(Due(u, ch)) : Post(u, InReturn(u, v, ch) \o ChatsDue(u, v, ch, due))
      /\ UNCHANGED <<rejected, wasted>>
  BY KeyFacts
<1>2. <<ch, v>> \in holds'[u] /\ \A w \in Users : holds[w] \subseteq holds'[w]
  BY <1>1 DEF Typed, SignalTyped
<1>3. PICK due \in Queued(Due(u, ch)) : Post(u, InReturn(u, v, ch) \o ChatsDue(u, v, ch, due))
  BY <1>1
<1> DEFINE a == InReturn(u, v, ch)
<1> DEFINE b == ChatsDue(u, v, ch, due)
<1> HIDE DEF ch, v
<1>4. /\ a \in Seq(ToServer) /\ b \in Seq(ToServer) /\ a \o b \in Seq(ToServer)
      /\ \A i \in 1..Len(b) : b[i] = SendChat(ch, due[i].id, distributed[u][ch] \cup {v})
  <2>1. ch \in Rooms /\ v \in Users BY <1>1
  <2>2. a \in Seq(ToServer) /\ b \in Seq(ToServer) /\ a \o b \in Seq(ToServer)
    BY <2>1, KeySends
  <2>3. \A i \in 1..Len(b) :
          /\ due[i] \in Due(u, ch)
          /\ b[i] = SendChat(ch, due[i].id, distributed[u][ch] \cup {v})
    BY <2>1, KeySends
  <2> QED BY <2>2, <2>3
<1>5. v \in distributed[u][ch] \/ KeyIn(a, ch, v)
  <2>1. CASE Owed(u, v, ch)
    <3> QED BY <2>1, KeySent, Zenon DEF InReturn
  <2>2. CASE ~Owed(u, v, ch) BY <2>2 DEF Owed
  <2> QED BY <2>1, <2>2
<1>6. \A i \in 1..Len(a) : a[i].type # "chat"
  <2>1. CASE Owed(u, v, ch)
    <3>1. Len(a) = 1 /\ a[1].type = "key" BY <2>1, KeySent, Zenon DEF InReturn
    <3> HIDE DEF a
    <3> QED BY <3>1
  <2>2. CASE ~Owed(u, v, ch) BY <2>2 DEF InReturn
  <2> QED BY <2>1, <2>2
<1>7. \A i \in 1..Len(b) : b[i].ch = ch /\ b[i].to = distributed[u][ch] \cup {v}
  <2>1. ASSUME NEW i PROVE LET c == SendChat(ch, due[i].id, distributed[u][ch] \cup {v}) IN
                           c.ch = ch /\ c.to = distributed[u][ch] \cup {v}
    BY DEF SendChat
  <2> HIDE DEF b
  <2> QED BY <1>4, <2>1
<1> HIDE DEF a, b
<1>8. /\ KeyIn(a, ch, v) => KeyIn(a \o b, ch, v)
      /\ \A i \in 1..Len(b) : KeyIn(a, ch, v) => KeyBefore(a \o b, Len(a) + i, ch, v)
  BY <1>4, KeyInAppended
<1>9. ASSUME NEW x \in Users, NEW w \in Users, NEW r \in Rooms, w \in distributed'[x][r]
      PROVE  w \in distributed[x][r] \/ (x = u /\ KeyIn(a \o b, r, w))
  <2>1. w \in distributed[x][r] \/ (x = u /\ r = ch /\ w = v)
    BY <1>1, <1>9 DEF Typed, SignalTyped
  <2> QED BY <1>5, <1>8, <2>1
<1>10. ASSUME NEW i \in 1..Len(a \o b), (a \o b)[i].type = "chat", NEW w \in (a \o b)[i].to
       PROVE  \/ w \in distributed[u][(a \o b)[i].ch]
              \/ KeyBefore(a \o b, i, (a \o b)[i].ch, w)
  <2>1. \/ i \in 1..Len(a) /\ (a \o b)[i] = a[i]
        \/ i - Len(a) \in 1..Len(b) /\ (a \o b)[i] = b[i - Len(a)]
    BY <1>4, Appended
  <2>2. i - Len(a) \in 1..Len(b) /\ (a \o b)[i] = b[i - Len(a)] BY <1>6, <1>10, <2>1
  <2>3. Len(a) \in Nat BY <1>4
  <2>4. i = Len(a) + (i - Len(a)) BY <2>3
  <2>5. (a \o b)[i].ch = ch /\ w \in distributed[u][ch] \cup {v} BY <1>7, <1>10, <2>2
  <2>6. KeyIn(a, ch, v) => KeyBefore(a \o b, i, ch, v) BY <1>8, <2>2, <2>4
  <2> QED BY <1>5, <2>5, <2>6
<1>11. <<m.ch, m.user>> \in holds'[u] BY <1>2 DEF ch, v
<1> HIDE DEF m
<1>12. \E type : /\ Reading(u, type)
                 /\ type # "key" \/ <<Head(toClient[u]).ch, Head(toClient[u]).user>> \in holds'[u]
  BY <1>1, <1>11 DEF m
<1>13. ClientDoes(u, a \o b) BY <1>1, <1>2, <1>3, <1>4, <1>9, <1>10, <1>12, Does DEF a, b
<1> QED BY <1>13, ClientKeepsKeys

\* What there is to show of a step of the server.
LEMMA Serves ==
    ASSUME Typed, NEW u \in Users, NEW type, Serving(u, type),
           NEW vs, NEW m \in ToClient, Tell(vs, m) \/ UNCHANGED toClient,
           m.type = "chat" => /\ type = "chat" /\ m.user = u
                              /\ m.ch = Head(toServer[u]).ch /\ m.to = Head(toServer[u]).to,
           type = "key" => ReachedNext(u, Head(toServer[u]).ch, Head(toServer[u]).user),
           holds' = holds, distributed' = distributed,
           rejected \subseteq rejected', wasted' \subseteq wasted \cup rejected'
    PROVE  ServerDoes(u)
<1>1. /\ toServer[u] # <<>> /\ toServer'[u] = Tail(toServer[u])
      /\ Head(toServer[u]).type = type
      /\ \A v \in Users : v # u => toServer'[v] = toServer[v]
  BY ServedIs DEF Typed
<1>2. ASSUME NEW ch \in Rooms, NEW w \in Users, IsKey(Head(toServer[u]), ch, w)
      PROVE  ReachedNext(u, ch, w)
  BY <1>1, <1>2 DEF IsKey
<1>3. ASSUME NEW w \in Users
      PROVE  toClient'[w] = toClient[w] \/ toClient'[w] = Append(toClient[w], m)
  <2>1. CASE Tell(vs, m)
    <3>1. QueuesTyped BY DEF Typed
    <3>2. toClient'[w] = IF w \in vs THEN Append(toClient[w], m) ELSE toClient[w]
      BY <2>1, <3>1, Tells, Zenon
    <3> QED BY <3>2
  <2>2. CASE UNCHANGED toClient BY <2>2
  <2> QED BY <2>1, <2>2
<1> QED BY <1>1, <1>2, <1>3 DEF ServerDoes

LEMMA EntersKeepsKeys == ASSUME Typed, KeysInv, NEW u \in Users, ServerEnters(u) PROVE KeysInv'
<1> DEFINE here == {w \in Users : chan'[w] = entering[u]}
<1>1. /\ toClient' = [v \in Users |-> Append(toClient[v], IF v = u THEN UserList(entering[u], here)
                                                                ELSE UserJoined(u))]
      /\ UNCHANGED <<toServer, holds, distributed, rejected, wasted>>
  BY DEF ServerEnters, Told, signal, history
<1>2. UserList(entering[u], here) \in ToClient /\ UserJoined(u) \in ToClient
  BY Constructors DEF Typed, ServerTyped
<1>3. UserList(entering[u], here).type # "chat" /\ UserJoined(u).type # "chat"
  BY DEF UserList, UserJoined
<1> HIDE DEF here
<1>4. \A w \in Users : \E m \in ToClient : /\ toClient'[w] = Append(toClient[w], m)
                                           /\ m.type # "chat"
  BY <1>1, <1>2, <1>3
<1>5. ServerDoes(u) BY <1>1, <1>4 DEF ServerDoes
<1> QED BY <1>5, ServerKeepsKeys

LEMMA ServedTyped ==
    ASSUME Typed, NEW u \in Users, NEW type, Serving(u, type)
    PROVE  /\ Head(toServer[u]) \in ToServer /\ Head(toServer[u]).type = type
           /\ type \in {"bundle_please", "key", "direct"} => Head(toServer[u]).user \in Users
           /\ type = "key" => Head(toServer[u]).ch \in Rooms /\ Head(toServer[u]).prekey \in BOOLEAN
           /\ type = "direct" => Head(toServer[u]).prekey \in BOOLEAN
<1>1. Head(toServer[u]) \in ToServer /\ Head(toServer[u]).type = type BY ServedIs DEF Typed
<1> QED BY <1>1, Fields

LEMMA RelayKeepsKeys == ASSUME Typed, KeysInv, NEW u \in Users, ServerKey(u) PROVE KeysInv'
<1> DEFINE m == Head(toServer[u])
<1> DEFINE k == KeyReceived(m.ch, u, m.prekey)
<1>1. /\ Serving(u, "key") /\ holds' = holds /\ distributed' = distributed
      /\ rejected' = rejected \cup (wasted' \ wasted)
      /\ \/ Tell({m.user}, k) /\ wasted' = wasted
         \/ UNCHANGED toClient /\ wasted' = wasted \cup {<<m.ch, u, m.user>>}
  BY DEF ServerKey, signal
<1>2. m.user \in Users /\ m.ch \in Rooms /\ m.prekey \in BOOLEAN BY <1>1, ServedTyped
<1>3. k \in ToClient BY <1>2, Constructors
<1>4. IsKey(k, m.ch, u) /\ k.type # "chat" BY DEF KeyReceived, IsKey
<1> HIDE DEF k
<1>5. ReachedNext(u, m.ch, m.user)
  <2>1. CASE Tell({m.user}, k)
    <3>1. toClient'[m.user] = Append(toClient[m.user], k)
      <4>1. QueuesTyped BY DEF Typed
      <4>2. m.user \in {m.user} OBVIOUS
      <4> QED BY <1>2, <1>3, <2>1, <4>1, <4>2, Tells, Zenon
    <3>2. toClient[m.user] \in Seq(ToClient) BY <1>2 DEF Typed, QueuesTyped
    <3>3. KeyIn(Append(toClient[m.user], k), m.ch, u) BY <1>3, <1>4, <3>2, KeyInOneMore
    <3> QED BY <3>1, <3>3 DEF ReachedNext
  <2>2. CASE wasted' = wasted \cup {<<m.ch, u, m.user>>}
    <3>1. <<m.ch, u, m.user>> \in rejected' BY <1>1, <2>2 DEF KeysInv
    <3> QED BY <3>1 DEF ReachedNext, SettlesNext
  <2> QED BY <1>1, <2>1, <2>2
<1>6. rejected \subseteq rejected' /\ wasted' \subseteq wasted \cup rejected' BY <1>1
<1>7. Tell({m.user}, k) \/ UNCHANGED toClient BY <1>1
<1>8. ServerDoes(u) BY <1>1, <1>3, <1>4, <1>5, <1>6, <1>7, Serves
<1> QED BY <1>8, ServerKeepsKeys

LEMMA ServerKeepsAllKeys == ASSUME Typed, KeysInv, NEW u \in Users, ServerStep(u) PROVE KeysInv'
<1> DEFINE m == Head(toServer[u])
<1>1. CASE ServerLeaves(u)
  <2>1. /\ Serving(u, "join") /\ Tell(Others(u), UserLeft(u))
        /\ UNCHANGED <<holds, distributed, rejected, wasted>>
    BY <1>1 DEF ServerLeaves, signal, history
  <2>2. UserLeft(u) \in ToClient /\ UserLeft(u).type # "chat" BY Constructors DEF UserLeft
  <2>3. ServerDoes(u) BY <2>1, <2>2, Serves
  <2> QED BY <2>3, ServerKeepsKeys
<1>2. CASE ServerEnters(u) BY <1>2, EntersKeepsKeys
<1>3. CASE ServerBundle(u)
  <2>1. /\ Serving(u, "bundle_please") /\ Tell({u}, Bundle(m.user))
        /\ UNCHANGED <<holds, distributed, rejected, wasted>>
    BY <1>3 DEF ServerBundle, signal, history
  <2>2. m.user \in Users BY <2>1, ServedTyped
  <2>3. Bundle(m.user) \in ToClient /\ Bundle(m.user).type # "chat"
    BY <2>2, Constructors DEF Bundle
  <2>4. ServerDoes(u) BY <2>1, <2>3, Serves
  <2> QED BY <2>4, ServerKeepsKeys
<1>4. CASE ServerKey(u) BY <1>4, RelayKeepsKeys
<1>5. CASE ServerChat(u)
  <2> DEFINE c == ChatReceived(u, m)
  <2>1. /\ Serving(u, "chat")
        /\ Tell({v \in Others(u) : chan[v] = chan[u]}, c) \/ UNCHANGED toClient
        /\ UNCHANGED <<holds, distributed, rejected, wasted>>
    BY <1>5 DEF ServerChat, signal, history
  <2>2. m \in ToServer /\ m.type = "chat" BY <2>1, ServedTyped
  <2>3. c \in ToClient BY <2>2, ChatGoesOn
  <2>4. c.user = u /\ c.ch = m.ch /\ c.to = m.to BY DEF ChatReceived
  <2> HIDE DEF c
  <2>5. ServerDoes(u) BY <2>1, <2>3, <2>4, Serves
  <2> QED BY <2>5, ServerKeepsKeys
<1>6. CASE ServerDirect(u)
  <2> DEFINE d == DirectReceived(u, m.prekey)
  <2>1. /\ Serving(u, "direct") /\ Tell({m.user, u}, d)
        /\ UNCHANGED <<holds, distributed, rejected, wasted>>
    BY <1>6 DEF ServerDirect, signal, history
  <2>2. m.prekey \in BOOLEAN BY <2>1, ServedTyped
  <2>3. d \in ToClient BY <2>2, Constructors
  <2>4. d.type # "chat" BY DEF DirectReceived
  <2> HIDE DEF d
  <2>5. ServerDoes(u) BY <2>1, <2>3, <2>4, Serves
  <2> QED BY <2>5, ServerKeepsKeys
<1> QED BY <1>1, <1>2, <1>3, <1>4, <1>5, <1>6 DEF ServerStep

LEMMA InitKeys == Init => KeysInv /\ ReadableByHolders
<1> SUFFICES ASSUME Init PROVE KeysInv /\ ReadableByHolders OBVIOUS
<1>1. \A u \in Users : 1..Len(toServer[u]) = {} /\ 1..Len(toClient[u]) = {} BY DEF Init
<1>2. \A v, u \in Users, ch \in Rooms : u \notin distributed[v][ch] BY DEF Init
<1>3. wasted = {} /\ failed = {} BY DEF Init
<1> QED BY <1>1, <1>2, <1>3 DEF KeysInv, Shared, ReadableByHolders

LEMMA KeysInductive == Typed /\ KeysInv /\ [Next]_vars => KeysInv'
<1> SUFFICES ASSUME Typed, KeysInv, [Next]_vars PROVE KeysInv' OBVIOUS
<1>1. CASE UNCHANGED <<toServer, toClient, holds, distributed, rejected, wasted>>
  BY <1>1, KeysSame
<1>2. ASSUME NEW u \in Users, ReaderStep(u) PROVE KeysInv'
  BY <1>2, ReadersKeepKeys, BundleKeepsKeys, KeyKeepsKeys DEF ReaderStep
<1>3. ASSUME NEW u \in Users, ServerStep(u) PROVE KeysInv' BY <1>3, ServerKeepsAllKeys
<1>4. ASSUME NEW u \in Users, WriterStep(u) PROVE KeysInv'
  <2>1. CASE CheckKeys(u) BY <2>1, CheckKeepsKeys
  <2>2. CASE Queue(u) BY <1>1, <2>2 DEF Queue, signal
  <2> QED BY <1>4, <2>1, <2>2 DEF WriterStep
<1>5. ASSUME NEW u \in Users, UserStep(u) PROVE KeysInv'
  <2>1. ASSUME NEW target, BeginWriting(u, target) PROVE KeysInv'
    BY <1>1, <2>1 DEF BeginWriting, signal, history
  <2>2. CASE Write(u) \/ \E v \in Users : WriteTo(u, v) BY <2>1, <2>2 DEF Write, WriteTo
  <2>3. CASE Age(u) BY <1>1, <2>3 DEF Age, signal, history
  <2>4. CASE \E ch \in Channels : Join(u, ch) BY <2>4, JoinKeepsKeys
  <2> QED BY <1>5, <2>2, <2>3, <2>4 DEF UserStep
<1>6. CASE UNCHANGED vars BY <1>1, <1>6 DEF vars, signal, history
<1> QED BY <1>2, <1>3, <1>4, <1>5, <1>6 DEF Next

\* What is shown as a failure is shown by ReadChat, and a holder has the key.
LEMMA FailedInductive ==
    Typed /\ KeysInv /\ ReadableByHolders /\ [Next]_vars => ReadableByHolders'
<1> SUFFICES ASSUME Typed, KeysInv, ReadableByHolders, [Next]_vars PROVE ReadableByHolders'
  OBVIOUS
<1>1. CASE failed' = failed BY <1>1 DEF ReadableByHolders
<1>2. ASSUME NEW u \in Users, ReadChat(u) PROVE ReadableByHolders'
  <2> DEFINE m == Head(toClient[u])
  <2>1. /\ Reading(u, "chat")
        /\ failed' = IF <<m.ch, m.user>> \in holds[u] THEN failed
                     ELSE failed \cup {<<m.id, u \in m.to /\ <<m.ch, m.user, u>> \notin rejected>>}
    BY <1>2 DEF ReadChat
  <2>2. CASE <<m.ch, m.user>> \in holds[u] BY <1>1, <2>1, <2>2
  <2>3. CASE <<m.ch, m.user>> \notin holds[u]
    <3>1. /\ toClient[u] \in Seq(ToClient) /\ toClient[u] # <<>> /\ m.type = "chat"
      BY <2>1 DEF Typed, QueuesTyped, Reading
    <3>2. 1 \in 1..Len(toClient[u]) /\ m = toClient[u][1] BY <3>1, Tailed
    <3>3. u \in m.to => \/ Settles(m.user, m.ch, u)
                        \/ KeyBefore(toClient[u], 1, m.ch, m.user)
      BY <3>1, <3>2 DEF KeysInv, Readable
    <3>4. ~(u \in m.to /\ <<m.ch, m.user, u>> \notin rejected)
      BY <2>3, <3>3, NoneBefore DEF Settles
    <3>5. ASSUME NEW f \in failed' PROVE ~f[2]
      <4>1. CASE f \in failed BY <4>1 DEF ReadableByHolders
      <4>2. CASE f = <<m.id, u \in m.to /\ <<m.ch, m.user, u>> \notin rejected>>
        <5> HIDE DEF m
        <5> QED BY <3>4, <4>2, Zenon
      <4> HIDE DEF m
      <4> QED BY <2>1, <2>3, <3>5, <4>1, <4>2, Zenon
    <3> QED BY <3>5 DEF ReadableByHolders
  <2> QED BY <2>2, <2>3
<1>3. ASSUME NEW u \in Users, ReaderStep(u), ~ReadChat(u) PROVE failed' = failed
  BY <1>3 DEF ReaderStep, ReadUserList, ReadUserJoined, ReadUserLeft, ReadBundle, ReadKey,
              ReadDirect, history
<1>4. ASSUME NEW u \in Users, ServerStep(u) \/ WriterStep(u) \/ UserStep(u)
      PROVE  failed' = failed
  BY <1>4 DEF ServerStep, ServerLeaves, ServerEnters, ServerBundle, ServerKey, ServerChat,
              ServerDirect, WriterStep, CheckKeys, Queue, UserStep, Write, WriteTo, BeginWriting,
              Age, Join, history
<1> QED BY <1>1, <1>2, <1>3, <1>4 DEF Next, vars, history

\* Whoever a message counts among the holders of its sender's key can read it,
\* unless the server did not relay the key: the key has gone ahead, through the
\* queue to the server and through the queue to the client.
THEOREM AlwaysReadableByHolders == Spec => []ReadableByHolders
<1>1. Init => Typed /\ KeysInv /\ ReadableByHolders BY InitTyped, InitKeys
<1>2. /\ Typed /\ KeysInv /\ ReadableByHolders /\ [Next]_vars
         => (Typed /\ KeysInv /\ ReadableByHolders)'
  BY TypedInductive, KeysInductive, FailedInductive
<1> QED BY <1>1, <1>2, PTL DEF Spec

----------------------------------------------------------------------------
(* What has to come before what in a queue.                                *)

\* A message of S is in the queue; with none of T behind it.
Some(q, S) == \E i \in 1..Len(q) : q[i] \in S
After(q, S, T) ==
    \E i \in 1..Len(q) : q[i] \in S /\ \A k \in 1..Len(q) : k > i => q[k] \notin T

LEMMA InEmpty == ASSUME NEW S, NEW T PROVE ~Some(<<>>, S) /\ ~After(<<>>, S, T)
<1>1. 1..Len(<<>>) = {} OBVIOUS
<1> QED BY <1>1 DEF Some, After

LEMMA AfterSome == ASSUME NEW q, NEW S, NEW T, After(q, S, T) PROVE Some(q, S)
BY DEF Some, After

LEMMA InConcat ==
    ASSUME NEW M, NEW q \in Seq(M), NEW ms \in Seq(M), NEW S, NEW T
    PROVE  /\ Some(q \o ms, S) <=> Some(q, S) \/ Some(ms, S)
           /\ After(q \o ms, S, T) <=> After(ms, S, T) \/ (After(q, S, T) /\ ~Some(ms, T))
<1> DEFINE n == Len(q)
<1> DEFINE all == q \o ms
<1>1. /\ n \in Nat /\ Len(ms) \in Nat /\ Len(all) = n + Len(ms)
      /\ \A i \in 1..n : i \in 1..Len(all) /\ all[i] = q[i]
      /\ \A i \in 1..Len(ms) : n + i \in 1..Len(all) /\ all[n + i] = ms[i]
      /\ \A i \in 1..Len(all) : \/ i \in 1..n /\ all[i] = q[i]
                                \/ i - n \in 1..Len(ms) /\ all[i] = ms[i - n]
  BY Appended
<1> HIDE DEF n, all
<1>2. ASSUME Some(q, S) \/ Some(ms, S) PROVE Some(all, S)
  <2>1. CASE Some(q, S) BY <1>1, <2>1 DEF Some, n
  <2>2. CASE Some(ms, S)
    <3>1. PICK i \in 1..Len(ms) : ms[i] \in S BY <2>2 DEF Some
    <3>2. n + i \in 1..Len(all) /\ all[n + i] = ms[i] BY <1>1
    <3> QED BY <3>1, <3>2 DEF Some
  <2> QED BY <1>2, <2>1, <2>2
<1>3. ASSUME Some(all, S) PROVE Some(q, S) \/ Some(ms, S) BY <1>1, <1>3 DEF Some, n
<1>4. ASSUME After(ms, S, T) PROVE After(all, S, T)
  <2>1. PICK i \in 1..Len(ms) : ms[i] \in S /\ \A k \in 1..Len(ms) : k > i => ms[k] \notin T
    BY <1>4 DEF After
  <2>2. n + i \in 1..Len(all) /\ all[n + i] \in S BY <1>1, <2>1
  <2>3. ASSUME NEW k \in 1..Len(all), k > n + i PROVE all[k] \notin T
    <3>1. k \notin 1..n BY <1>1, <2>3
    <3>2. k - n \in 1..Len(ms) /\ all[k] = ms[k - n] BY <1>1, <3>1
    <3>3. k - n > i BY <1>1, <2>3
    <3> QED BY <2>1, <3>2, <3>3
  <2> QED BY <2>2, <2>3 DEF After
<1>5. ASSUME After(q, S, T), ~Some(ms, T) PROVE After(all, S, T)
  <2>1. PICK i \in 1..n : q[i] \in S /\ \A k \in 1..n : k > i => q[k] \notin T
    BY <1>5 DEF After, n
  <2>2. i \in 1..Len(all) /\ all[i] \in S BY <1>1, <2>1
  <2>3. \A k \in 1..Len(all) : k > i => all[k] \notin T BY <1>1, <1>5, <2>1 DEF Some
  <2> QED BY <2>2, <2>3 DEF After
<1>6. ASSUME After(all, S, T) PROVE After(ms, S, T) \/ (After(q, S, T) /\ ~Some(ms, T))
  <2>1. PICK i \in 1..Len(all) : all[i] \in S /\ \A k \in 1..Len(all) : k > i => all[k] \notin T
    BY <1>6 DEF After
  <2>2. CASE i \in 1..n /\ all[i] = q[i]
    <3>1. \A k \in 1..n : k > i => q[k] \notin T BY <1>1, <2>1
    <3>2. \A k \in 1..Len(ms) : ms[k] \notin T
      <4>1. ASSUME NEW k \in 1..Len(ms) PROVE ms[k] \notin T
        <5>1. n + k \in 1..Len(all) /\ all[n + k] = ms[k] BY <1>1
        <5>2. n + k > i BY <1>1, <2>2
        <5> QED BY <2>1, <5>1, <5>2
      <4> QED BY <4>1
    <3> QED BY <2>1, <2>2, <3>1, <3>2 DEF After, Some, n
  <2>3. CASE i - n \in 1..Len(ms) /\ all[i] = ms[i - n]
    <3>1. ASSUME NEW k \in 1..Len(ms), k > i - n PROVE ms[k] \notin T
      <4>1. n + k \in 1..Len(all) /\ all[n + k] = ms[k] BY <1>1
      <4>2. n + k > i BY <1>1, <3>1
      <4> QED BY <2>1, <4>1, <4>2
    <3> QED BY <2>1, <2>3, <3>1 DEF After
  <2> QED BY <1>1, <2>2, <2>3
<1> QED BY <1>2, <1>3, <1>4, <1>5, <1>6 DEF all

LEMMA InOne ==
    ASSUME NEW m, NEW S, NEW T
    PROVE  (Some(<<m>>, S) <=> m \in S) /\ (After(<<m>>, S, T) <=> m \in S)
<1>1. 1..Len(<<m>>) = {1} /\ <<m>>[1] = m OBVIOUS
<1> QED BY <1>1 DEF Some, After

LEMMA InAppended ==
    ASSUME NEW M, NEW q \in Seq(M), NEW m \in M, NEW S, NEW T
    PROVE  /\ Some(Append(q, m), S) <=> Some(q, S) \/ m \in S
           /\ After(Append(q, m), S, T) <=> m \in S \/ (After(q, S, T) /\ m \notin T)
<1>1. <<m>> \in Seq(M) /\ Append(q, m) = q \o <<m>> OBVIOUS
<1>2. (Some(<<m>>, S) <=> m \in S) /\ (Some(<<m>>, T) <=> m \in T)
      /\ (After(<<m>>, S, T) <=> m \in S)
  BY InOne
<1> DEFINE ms == <<m>>
<1> HIDE DEF ms
<1>3. /\ Some(q \o ms, S) <=> Some(q, S) \/ Some(ms, S)
      /\ After(q \o ms, S, T) <=> After(ms, S, T) \/ (After(q, S, T) /\ ~Some(ms, T))
  BY <1>1, InConcat DEF ms
<1> QED BY <1>1, <1>2, <1>3 DEF ms

LEMMA InTail ==
    ASSUME NEW M, NEW q \in Seq(M), q # <<>>, NEW S, NEW T
    PROVE  /\ Some(q, S) <=> Head(q) \in S \/ Some(Tail(q), S)
           /\ After(q, S, T) <=>
                After(Tail(q), S, T) \/ (Head(q) \in S /\ ~Some(Tail(q), T))
<1>1. <<Head(q)>> \in Seq(M) /\ Tail(q) \in Seq(M) /\ q = <<Head(q)>> \o Tail(q) OBVIOUS
<1> DEFINE h == Head(q)
<1> DEFINE t == Tail(q)
<1>2. (Some(<<h>>, S) <=> h \in S) /\ (After(<<h>>, S, T) <=> h \in S) BY InOne
<1> DEFINE hs == <<h>>
<1> HIDE DEF hs, t
<1>3. /\ Some(hs \o t, S) <=> Some(hs, S) \/ Some(t, S)
      /\ After(hs \o t, S, T) <=> After(t, S, T) \/ (After(hs, S, T) /\ ~Some(t, T))
  BY <1>1, InConcat DEF hs, t
<1> QED BY <1>1, <1>2, <1>3 DEF hs, t

\* The messages to the server, and to a client, that matter to a pair of users.
Moves         == {m \in ToServer : m.type = "join"}
MovesTo(r)    == {m \in Moves : m.ch = r}
Requests(u)   == {m \in ToServer : m.type = "bundle_please" /\ m.user = u}
KeysTo(r, u)  == {m \in ToServer : IsKey(m, r, u)}
Lists         == {m \in ToClient : m.type = "user_list"}
ListsOf(r)    == {m \in Lists : m.ch = r}
Joineds(u)    == {m \in ToClient : m.type = "joined" /\ m.user = u}
Lefts(u)      == {m \in ToClient : m.type = "left" /\ m.user = u}
Bundles(u)    == {m \in ToClient : m.type = "bundle" /\ m.user = u}
KeysOf(r, v)  == {m \in ToClient : IsKey(m, r, v)}
Forgetting(u) == Lists \cup Lefts(u)
Brings(u)     == {m \in ToClient :
                    \/ m.type \in {"joined", "bundle", "key", "direct"} /\ m.user = u
                    \/ m.type = "user_list" /\ u \in m.users}

\* u is not known when the i-th message comes: a message said it left, or it was
\* not known at first, and none between brought it.
Fresh(q, i, u, known) ==
    \E j \in 0..(i - 1) :
       /\ IF j = 0 THEN u \notin known ELSE q[j] \in Lefts(u)
       /\ \A k \in 1..Len(q) : j < k /\ k < i => q[k] \notin Brings(u)

\* The client is to be told that u has joined while it does not know u.
Comes(q, u, known) == \E i \in 1..Len(q) : q[i] \in Joineds(u) /\ Fresh(q, i, u, known)
\* It does not know u in the end.
Stranger(q, u, known) == Fresh(q, Len(q) + 1, u, known)

LEMMA ComesAppended ==
    ASSUME NEW q \in Seq(ToClient), NEW m \in ToClient, NEW u, NEW known
    PROVE  LET a == Append(q, m) IN
           /\ Comes(q, u, known) => Comes(a, u, known)
           /\ Stranger(q, u, known) =>
                /\ m \in Joineds(u) => Comes(a, u, known)
                /\ m \notin Brings(u) => Stranger(a, u, known)
           /\ m \in Lefts(u) => Stranger(a, u, known)
<1> DEFINE n == Len(q)
<1> DEFINE a == Append(q, m)
<1>1. /\ n \in Nat /\ Len(a) = n + 1 /\ a[n + 1] = m
      /\ \A i \in 1..n : i \in 1..Len(a) /\ a[i] = q[i]
      /\ \A i \in 1..Len(a) : i \in 1..n \/ i = n + 1
  BY AppendedOne
<1> HIDE DEF n, a
<1>2. ASSUME NEW i \in 1..(n + 1), Fresh(q, i, u, known) PROVE Fresh(a, i, u, known)
  <2>1. PICK j \in 0..(i - 1) :
          /\ IF j = 0 THEN u \notin known ELSE q[j] \in Lefts(u)
          /\ \A k \in 1..n : j < k /\ k < i => q[k] \notin Brings(u)
    BY <1>2 DEF Fresh, n
  <2>2. j # 0 => j \in 1..n BY <1>1
  <2>3. IF j = 0 THEN u \notin known ELSE a[j] \in Lefts(u) BY <1>1, <2>1, <2>2
  <2>4. \A k \in 1..Len(a) : j < k /\ k < i => a[k] \notin Brings(u) BY <1>1, <2>1
  <2> QED BY <2>3, <2>4 DEF Fresh
<1>3. Comes(q, u, known) => Comes(a, u, known)
  <2>1. ASSUME NEW i \in 1..n, q[i] \in Joineds(u), Fresh(q, i, u, known)
        PROVE  Comes(a, u, known)
    <3>1. i \in 1..(n + 1) BY <1>1
    <3> QED BY <1>1, <1>2, <2>1, <3>1 DEF Comes
  <2> QED BY <2>1 DEF Comes, n
<1>4. ASSUME Stranger(q, u, known), m \in Joineds(u) PROVE Comes(a, u, known)
  <2>1. n + 1 \in 1..(n + 1) /\ n + 1 \in 1..Len(a) BY <1>1
  <2>2. Fresh(a, n + 1, u, known) BY <1>2, <1>4, <2>1 DEF Stranger, n
  <2> QED BY <1>1, <1>4, <2>1, <2>2 DEF Comes
<1>5. ASSUME Stranger(q, u, known), m \notin Brings(u) PROVE Stranger(a, u, known)
  <2>1. PICK j \in 0..n :
          /\ IF j = 0 THEN u \notin known ELSE q[j] \in Lefts(u)
          /\ \A k \in 1..n : j < k /\ k < n + 1 => q[k] \notin Brings(u)
    BY <1>1, <1>5 DEF Stranger, Fresh, n
  <2>2. j \in 0..((Len(a) + 1) - 1) BY <1>1
  <2>3. IF j = 0 THEN u \notin known ELSE a[j] \in Lefts(u) BY <1>1, <2>1
  <2>4. \A k \in 1..Len(a) : j < k /\ k < Len(a) + 1 => a[k] \notin Brings(u)
    BY <1>1, <1>5, <2>1
  <2> QED BY <2>2, <2>3, <2>4 DEF Stranger, Fresh
<1>6. ASSUME m \in Lefts(u) PROVE Stranger(a, u, known)
  <2>1. n + 1 \in 0..((Len(a) + 1) - 1) /\ n + 1 # 0 BY <1>1
  <2>2. \A k \in 1..Len(a) : ~(n + 1 < k) BY <1>1
  <2> QED BY <1>1, <1>6, <2>1, <2>2 DEF Stranger, Fresh
<1> QED BY <1>3, <1>4, <1>5, <1>6 DEF a

LEMMA ComesTail ==
    ASSUME NEW q \in Seq(ToClient), q # <<>>, NEW u, NEW known, NEW now,
           Head(q) \in Lefts(u) \/ (u \notin known /\ Head(q) \notin Brings(u)) => u \notin now
    PROVE  /\ Stranger(q, u, known) => Stranger(Tail(q), u, now)
           /\ Comes(q, u, known) =>
                Comes(Tail(q), u, now) \/ (Head(q) \in Joineds(u) /\ u \notin known)
<1> DEFINE n == Len(q)
<1> DEFINE t == Tail(q)
<1>1. /\ n \in Nat \ {0} /\ Len(t) = n - 1 /\ Head(q) = q[1]
      /\ \A i \in 1..Len(t) : i + 1 \in 1..n /\ t[i] = q[i + 1]
      /\ \A i \in 1..n : i = 1 \/ (i - 1 \in 1..Len(t) /\ q[i] = t[i - 1])
  BY Tailed
<1> HIDE DEF n, t
<1>2. ASSUME NEW i \in 2..(n + 1), Fresh(q, i, u, known) PROVE Fresh(t, i - 1, u, now)
  <2>1. PICK j \in 0..(i - 1) :
          /\ IF j = 0 THEN u \notin known ELSE q[j] \in Lefts(u)
          /\ \A k \in 1..n : j < k /\ k < i => q[k] \notin Brings(u)
    BY <1>2 DEF Fresh, n
  <2>2. ASSUME NEW k \in 1..Len(t), NEW l \in 0..(i - 2), j <= l + 1, l < k, k < i - 1
        PROVE  t[k] \notin Brings(u)
    <3>1. k + 1 \in 1..n /\ t[k] = q[k + 1] /\ j < k + 1 /\ k + 1 < i BY <1>1, <2>2
    <3> QED BY <2>1, <3>1
  <2>3. CASE j > 1
    <3>1. j - 1 \in 0..(i - 2) /\ j - 1 # 0 /\ j - 1 \in 1..Len(t) /\ j \in 1..n BY <1>1, <2>3
    <3>2. t[j - 1] \in Lefts(u) BY <1>1, <2>1, <2>3, <3>1
    <3>3. \A k \in 1..Len(t) : j - 1 < k /\ k < i - 1 => t[k] \notin Brings(u)
      BY <2>2, <3>1
    <3>4. j - 1 \in 0..((i - 1) - 1) BY <3>1
    <3> QED BY <3>1, <3>2, <3>3, <3>4 DEF Fresh
  <2>4. CASE j \in {0, 1}
    <3>1. u \notin now
      <4>1. CASE j = 1 BY <1>1, <2>1, <4>1
      <4>2. CASE j = 0
        <5>1. 1 \in 1..n /\ 0 < 1 /\ 1 < i BY <1>1
        <5> QED BY <1>1, <2>1, <4>2, <5>1
      <4> QED BY <2>4, <4>1, <4>2
    <3>2. 0 \in 0..(i - 2) /\ 0 \in 0..((i - 1) - 1) BY <1>1
    <3>3. \A k \in 1..Len(t) : 0 < k /\ k < i - 1 => t[k] \notin Brings(u)
      BY <2>2, <2>4, <3>2
    <3> QED BY <3>1, <3>2, <3>3 DEF Fresh
  <2> QED BY <2>3, <2>4
<1>3. ASSUME Stranger(q, u, known) PROVE Stranger(t, u, now)
  <2>1. n + 1 \in 2..(n + 1) /\ (n + 1) - 1 = Len(t) + 1 BY <1>1
  <2> QED BY <1>2, <1>3, <2>1 DEF Stranger, n
<1>4. ASSUME Comes(q, u, known)
      PROVE  Comes(t, u, now) \/ (Head(q) \in Joineds(u) /\ u \notin known)
  <2>1. PICK i \in 1..n : q[i] \in Joineds(u) /\ Fresh(q, i, u, known) BY <1>4 DEF Comes, n
  <2>2. CASE i = 1
    <3>1. \E j \in 0..(1 - 1) : IF j = 0 THEN u \notin known ELSE q[j] \in Lefts(u)
      BY <2>1, <2>2 DEF Fresh
    <3>2. u \notin known BY <3>1
    <3> QED BY <1>1, <2>1, <2>2, <3>2
  <2>3. CASE i # 1
    <3>1. i \in 2..(n + 1) /\ i - 1 \in 1..Len(t) /\ q[i] = t[i - 1] BY <1>1, <2>3
    <3> QED BY <1>2, <2>1, <3>1 DEF Comes
  <2> QED BY <2>2, <2>3
<1> QED BY <1>3, <1>4 DEF t

\* u asks the server for nothing that moves it; v is in r, or will be once it has
\* moved as it asked.
Still(u)    == ~Some(toServer[u], Moves)
Place(v)    == IF chan[v] = Nowhere THEN entering[v] ELSE chan[v]
Bound(v, r) == After(toServer[v], MovesTo(r), Moves) \/ (Still(v) /\ Place(v) = r)
Known(v)    == established[v] \cup pending[v]

\* A key of v that u is counted to hold is held, or was wasted, or is on its way.
Given(v, r, u) ==
    u \in distributed[v][r] =>
       \/ <<r, v>> \in holds[u] \/ <<r, v, u>> \in wasted
       \/ Some(toServer[v], KeysTo(r, u)) \/ Some(toClient[u], KeysOf(r, v))

\* u has given its key to v for good, and sent what waited for it.
Got(u, v, r) ==
    /\ v \in distributed[u][r] /\ ~Some(toClient[u], Forgetting(v))
    /\ \A m \in waiting[u] : m.for = r => m.id \in late

\* When v has given its key to u, the key is under way to u and will be answered,
\* or has been, unless it was wasted.
Answer(v, u, r) ==
    /\ u # v /\ Bound(v, r) /\ u \in distributed[v][r] /\ Still(u)
    /\ ~Some(toClient[v], Lefts(u))
    => \/ After(toServer[v], KeysTo(r, u), Moves)
       \/ /\ Still(v) /\ chan[v] = r
          /\ \/ <<r, v, u>> \in wasted
             \/ /\ chan[u] = r
                /\ After(toClient[u], KeysOf(r, v), Forgetting(v)) \/ Got(u, v, r)

\* The client learns the channel the server has it in.
Agrees(v) ==
    chan[v] # Nowhere =>
       /\ Some(toClient[v], Lists) => After(toClient[v], ListsOf(chan[v]), Lists)
       /\ ~Some(toClient[v], Lists) /\ Still(v) => channel[v] = chan[v]

\* v has asked for the keys of u, or will; it has given its own key to u for good,
\* or will; it does not know u.
Asking(v, u)  == Some(toServer[v], Requests(u)) \/ Comes(toClient[v], u, Known(v))
Deal(v, u, r) ==
    \/ u \in distributed[v][r] /\ ~Some(toClient[v], Forgetting(u))
    \/ After(toClient[v], Bundles(u), Forgetting(u))
    \/ Asking(v, u)
Untold(v, u)  == Stranger(toClient[v], u, Known(v))

\* Of two users in a room one gives the other its key; of two on their way one has
\* still to learn of the other.
Both(u, v, r) ==
    u # v /\ Still(u) /\ Still(v) =>
       /\ chan[u] = r /\ chan[v] = r => Deal(u, v, r) \/ Deal(v, u, r)
       /\ chan[u] = Nowhere /\ chan[v] = r => Deal(v, u, r) \/ Asking(u, v) \/ Untold(v, u)
       /\ chan[u] = Nowhere /\ chan[v] = Nowhere => Untold(u, v) \/ Untold(v, u)

PairInv ==
    /\ \A v, u \in Users, r \in Rooms : Given(v, r, u) /\ Answer(v, u, r) /\ Both(u, v, r)
    /\ \A v \in Users : Agrees(v)

----------------------------------------------------------------------------
(* The steps of a client keep it.                                          *)

Took(x, S) == toClient[x] # <<>> /\ toClient'[x] = Tail(toClient[x]) /\ Head(toClient[x]) \in S

\* What the others have, and the server.
Elsewhere(x) ==
    /\ UNCHANGED <<chan, entering>>
    /\ \A y \in Users : y # x =>
         /\ toServer'[y] = toServer[y] /\ toClient'[y] = toClient[y]
         /\ channel'[y] = channel[y] /\ established'[y] = established[y]
         /\ pending'[y] = pending[y] /\ distributed'[y] = distributed[y]
         /\ waiting'[y] = waiting[y]
         /\ \A r \in Rooms, w \in Users : <<r, y, w>> \in wasted => <<r, y, w>> \in wasted'
    /\ \A y \in Users : holds[y] \subseteq holds'[y]
    /\ late \subseteq late'

\* How a client comes to count others as holders, and ceases to.
Distributes(x, ms) ==
    /\ \A r \in Rooms : After(ms, MovesTo(r), Moves) => distributed'[x][r] = {}
    /\ \A r \in Rooms, w \in Users : w \in distributed'[x][r] =>
         \/ After(ms, KeysTo(r, w), Moves)
         \/ /\ w \in distributed[x][r] /\ ~Took(x, Lefts(w))
            /\ <<r, x, w>> \in wasted => <<r, x, w>> \in wasted'
    /\ \A r \in Rooms, w \in Users : w \in distributed[x][r] =>
         \/ w \in distributed'[x][r]
         \/ Some(ms, Moves) \/ Took(x, Forgetting(w))
    /\ \A r \in Rooms, w \in Users : Took(x, KeysOf(r, w)) =>
         /\ w \in distributed'[x][r] /\ <<r, w>> \in holds'[x]
         /\ \A m \in waiting'[x] : m.for # r
    /\ \A w \in Users : Took(x, Bundles(w)) /\ channel[x] \in Rooms =>
         w \in distributed'[x][channel[x]]

\* How it follows where it is and whom it knows.
Follows(x, ms) ==
    /\ \A ch \in Channels : Took(x, ListsOf(ch)) => channel'[x] = ch
    /\ ~Some(ms, Moves) /\ ~Took(x, Lists) => channel'[x] = channel[x]
    /\ \A w \in Users : w # x =>
         /\ Took(x, Joineds(w)) /\ w \notin Known(x) => Some(ms, Requests(w))
         /\ \/ Took(x, Lefts(w))
            \/ w \notin Known(x) /\ ~Took(x, Brings(w))
            => w \notin established'[x] \cup pending'[x]

\* What is queued is queued late if somebody has the key.
QueuesLate(x) ==
    \A r \in Rooms : \A m \in waiting'[x] : m.for = r =>
       \/ \E o \in waiting[x] : o.for = r /\ o.id = m.id
       \/ m.id \in late' \/ distributed[x][r] = {}

ClientActs(x, ms) ==
    /\ ms \in Seq(ToServer) /\ toServer'[x] = toServer[x] \o ms
    /\ \/ toClient'[x] = toClient[x]
       \/ toClient[x] # <<>> /\ toClient'[x] = Tail(toClient[x])
    /\ Elsewhere(x) /\ Distributes(x, ms) /\ Follows(x, ms) /\ QueuesLate(x)

\* What is behind what, after it.
LEMMA ClientQueues ==
    ASSUME Typed, NEW x \in Users, NEW ms, ClientActs(x, ms), NEW S, NEW T
    PROVE  /\ Some(toServer'[x], S) <=> Some(toServer[x], S) \/ Some(ms, S)
           /\ After(toServer'[x], S, T) <=>
                After(ms, S, T) \/ (After(toServer[x], S, T) /\ ~Some(ms, T))
           /\ \/ toClient'[x] = toClient[x]
              \/ /\ Some(toClient[x], S) <=> Took(x, S) \/ Some(toClient'[x], S)
                 /\ After(toClient[x], S, T) <=>
                      After(toClient'[x], S, T) \/ (Took(x, S) /\ ~Some(toClient'[x], T))
                 /\ toClient[x] # <<>> /\ toClient'[x] = Tail(toClient[x])
<1>1. /\ ms \in Seq(ToServer) /\ toServer'[x] = toServer[x] \o ms
      /\ \/ toClient'[x] = toClient[x]
         \/ toClient[x] # <<>> /\ toClient'[x] = Tail(toClient[x])
  BY DEF ClientActs
<1> DEFINE q == toServer[x]
<1> DEFINE c == toClient[x]
<1>2. q \in Seq(ToServer) /\ c \in Seq(ToClient) BY DEF Typed, QueuesTyped
<1> HIDE DEF q, c
<1>3. /\ Some(q \o ms, S) <=> Some(q, S) \/ Some(ms, S)
      /\ After(q \o ms, S, T) <=> After(ms, S, T) \/ (After(q, S, T) /\ ~Some(ms, T))
  BY <1>1, <1>2, InConcat
<1>4. c # <<>> => /\ Some(c, S) <=> Head(c) \in S \/ Some(Tail(c), S)
                  /\ After(c, S, T) <=>
                       After(Tail(c), S, T) \/ (Head(c) \in S /\ ~Some(Tail(c), T))
  BY <1>2, InTail
<1> QED BY <1>1, <1>3, <1>4 DEF q, c, Took

\* What is taken was in the queue, which is another without it.
LEMMA TookIs ==
    ASSUME Typed, NEW x \in Users, NEW S, Took(x, S)
    PROVE  Some(toClient[x], S) /\ toClient'[x] # toClient[x]
<1> DEFINE c == toClient[x]
<1>1. /\ c \in Seq(ToClient) /\ c # <<>> /\ toClient'[x] = Tail(c) /\ Head(c) \in S
  BY DEF Typed, QueuesTyped, Took
<1> HIDE DEF c
<1>2. Some(c, S) BY <1>1, InTail
<1>3. Len(Tail(c)) = Len(c) - 1 /\ Len(c) \in Nat BY <1>1, Tailed
<1>4. Tail(c) # c BY <1>3
<1> QED BY <1>1, <1>2, <1>4 DEF c

LEMMA ClientKeepsGiven ==
    ASSUME Typed, NEW x \in Users, NEW ms, ClientActs(x, ms),
           NEW v \in Users, NEW u \in Users, NEW r \in Rooms, Given(v, r, u)
    PROVE  Given(v, r, u)'
<1> SUFFICES ASSUME u \in distributed'[v][r]
             PROVE  \/ <<r, v>> \in holds'[u] \/ <<r, v, u>> \in wasted'
                    \/ Some(toServer'[v], KeysTo(r, u)) \/ Some(toClient'[u], KeysOf(r, v))
  BY DEF Given
<1>1. Elsewhere(x) /\ Distributes(x, ms) BY DEF ClientActs
<1>2. v # x => toServer'[v] = toServer[v] BY <1>1 DEF Elsewhere
<1>3. Some(toServer[v], KeysTo(r, u)) => Some(toServer'[v], KeysTo(r, u))
  BY <1>2, ClientQueues
<1>4. Some(toClient[u], KeysOf(r, v)) =>
        Some(toClient'[u], KeysOf(r, v)) \/ <<r, v>> \in holds'[u]
  <2>1. CASE u = x BY <1>1, <2>1, ClientQueues DEF Distributes
  <2>2. CASE u # x BY <1>1, <2>2 DEF Elsewhere
  <2> QED BY <2>1, <2>2
<1>5. \/ v = x /\ After(ms, KeysTo(r, u), Moves)
      \/ u \in distributed[v][r] /\ (<<r, v, u>> \in wasted => <<r, v, u>> \in wasted')
  BY <1>1 DEF Elsewhere, Distributes
<1>6. CASE v = x /\ After(ms, KeysTo(r, u), Moves)
  BY <1>6, AfterSome, ClientQueues
<1>7. CASE u \in distributed[v][r] /\ (<<r, v, u>> \in wasted => <<r, v, u>> \in wasted')
  <2>1. <<r, v>> \in holds[u] => <<r, v>> \in holds'[u] BY <1>1 DEF Elsewhere
  <2> QED BY <1>3, <1>4, <1>7, <2>1 DEF Given
<1> QED BY <1>5, <1>6, <1>7

\* Whoever still stays put did so before.
LEMMA ClientStill ==
    ASSUME Typed, NEW x \in Users, NEW ms, ClientActs(x, ms), NEW y \in Users, Still(y)'
    PROVE  Still(y) /\ (y = x => ~Some(ms, Moves))
<1>1. y # x => toServer'[y] = toServer[y] BY DEF ClientActs, Elsewhere
<1>2. ~Some(toServer'[y], Moves) BY DEF Still
<1> QED BY <1>1, <1>2, ClientQueues DEF Still

LEMMA ClientKeepsAnswer ==
    ASSUME Typed, NEW x \in Users, NEW ms, ClientActs(x, ms),
           NEW v \in Users, NEW u \in Users, NEW r \in Rooms, Answer(v, u, r)
    PROVE  Answer(v, u, r)'
<1> SUFFICES ASSUME u # v, Bound(v, r)', u \in distributed'[v][r], Still(u)',
                    ~Some(toClient'[v], Lefts(u))
             PROVE  \/ After(toServer'[v], KeysTo(r, u), Moves)
                    \/ /\ Still(v)' /\ chan'[v] = r
                       /\ \/ <<r, v, u>> \in wasted'
                          \/ /\ chan'[u] = r
                             /\ \/ After(toClient'[u], KeysOf(r, v), Forgetting(v))
                                \/ Got(u, v, r)'
  BY DEF Answer
<1>1. Elsewhere(x) /\ Distributes(x, ms) /\ QueuesLate(x) BY DEF ClientActs
<1>2. chan' = chan /\ entering' = entering BY <1>1 DEF Elsewhere
<1>3. Still(u) BY ClientStill
<1>4. \/ After(toServer'[v], MovesTo(r), Moves)
      \/ ~Some(toServer'[v], Moves) /\ Place(v) = r
  BY <1>2 DEF Bound, Still, Place
<1>5. CASE v = x
  <2>1. toClient'[u] = toClient[u] /\ Got(u, v, r) => Got(u, v, r)'
    BY <1>1, <1>5 DEF Elsewhere, Got
  <2>2. toClient'[u] = toClient[u] BY <1>1, <1>5 DEF Elsewhere
  <2>3. ~After(ms, MovesTo(r), Moves) BY <1>1, <1>5 DEF Distributes
  <2>4. /\ Some(toServer'[v], Moves) <=> Some(toServer[v], Moves) \/ Some(ms, Moves)
        /\ After(toServer'[v], MovesTo(r), Moves) <=>
             After(ms, MovesTo(r), Moves)
             \/ (After(toServer[v], MovesTo(r), Moves) /\ ~Some(ms, Moves))
        /\ After(toServer'[v], KeysTo(r, u), Moves) <=>
             After(ms, KeysTo(r, u), Moves)
             \/ (After(toServer[v], KeysTo(r, u), Moves) /\ ~Some(ms, Moves))
    BY <1>5, ClientQueues
  <2>5. ~Some(ms, Moves) /\ Bound(v, r) /\ (Still(v)' <=> Still(v))
    BY <1>4, <2>3, <2>4 DEF Bound, Still
  <2>6. CASE After(ms, KeysTo(r, u), Moves) BY <2>4, <2>6
  <2>7. CASE /\ u \in distributed[v][r] /\ ~Took(v, Lefts(u))
             /\ <<r, v, u>> \in wasted => <<r, v, u>> \in wasted'
    <3>1. ~Some(toClient[v], Lefts(u)) BY <1>5, <2>7, ClientQueues
    <3>2. \/ After(toServer[v], KeysTo(r, u), Moves)
          \/ /\ Still(v) /\ chan[v] = r
             /\ \/ <<r, v, u>> \in wasted
                \/ /\ chan[u] = r
                   /\ After(toClient[u], KeysOf(r, v), Forgetting(v)) \/ Got(u, v, r)
      BY <1>3, <2>5, <2>7, <3>1 DEF Answer
    <3> QED BY <1>2, <2>1, <2>2, <2>4, <2>5, <2>7, <3>2
  <2> QED BY <1>1, <1>5, <2>6, <2>7 DEF Distributes
<1>6. CASE v # x
  <2>1. /\ toServer'[v] = toServer[v] /\ toClient'[v] = toClient[v]
        /\ distributed'[v] = distributed[v]
        /\ <<r, v, u>> \in wasted => <<r, v, u>> \in wasted'
    BY <1>1, <1>6 DEF Elsewhere
  <2>2. Bound(v, r) /\ (Still(v)' <=> Still(v)) BY <1>4, <2>1 DEF Bound, Still
  <2>3. \/ After(toServer[v], KeysTo(r, u), Moves)
        \/ /\ Still(v) /\ chan[v] = r
           /\ \/ <<r, v, u>> \in wasted
              \/ /\ chan[u] = r
                 /\ After(toClient[u], KeysOf(r, v), Forgetting(v)) \/ Got(u, v, r)
    BY <1>3, <2>1, <2>2 DEF Answer
  <2>4. ASSUME u = x, Took(x, KeysOf(r, v)), ~Some(toClient'[u], Forgetting(v))
        PROVE  Got(u, v, r)'
    BY <1>1, <2>4 DEF Distributes, Got
  <2>5. ASSUME u = x, Got(u, v, r) PROVE Got(u, v, r)'
    <3>1. ~Some(ms, Moves) BY <2>5, ClientStill
    <3>2. ~Took(x, Forgetting(v)) /\ ~Some(toClient'[u], Forgetting(v))
      BY <2>5, ClientQueues, TookIs DEF Got
    <3>3. v \in distributed'[u][r] BY <1>1, <2>5, <3>1, <3>2 DEF Distributes, Got
    <3>4. ASSUME NEW m \in waiting'[u], m.for = r PROVE m.id \in late'
      <4>1. distributed[u][r] # {} BY <2>5 DEF Got
      <4>2. (\E o \in waiting[u] : o.for = r /\ o.id = m.id) \/ m.id \in late'
        BY <1>1, <2>5, <3>4, <4>1 DEF QueuesLate
      <4> QED BY <1>1, <2>5, <4>2 DEF Got, Elsewhere
    <3> QED BY <3>2, <3>3, <3>4 DEF Got
  <2>6. CASE u = x
    <3>1. After(toClient[u], KeysOf(r, v), Forgetting(v)) =>
            After(toClient'[u], KeysOf(r, v), Forgetting(v)) \/ Got(u, v, r)'
      BY <2>4, <2>6, ClientQueues
    <3> QED BY <1>2, <2>1, <2>2, <2>3, <2>5, <2>6, <3>1
  <2>7. CASE u # x
    <3>1. toClient'[u] = toClient[u] /\ (Got(u, v, r) => Got(u, v, r)')
      BY <1>1, <2>7 DEF Elsewhere, Got
    <3> QED BY <1>2, <2>1, <2>2, <2>3, <3>1
  <2> QED BY <2>6, <2>7
<1> QED BY <1>5, <1>6

LEMMA ListsAre ==
    /\ \A ch : ListsOf(ch) \subseteq Lists
    /\ \A m \in Lists : m.ch \in Channels /\ m \in ListsOf(m.ch)
    /\ \A ch, m : m \in ListsOf(ch) => m.ch = ch
BY Fields DEF Lists, ListsOf

LEMMA ClientAgrees ==
    ASSUME Typed, NEW x \in Users, NEW ms, ClientActs(x, ms), NEW v \in Users, Agrees(v)
    PROVE  Agrees(v)'
<1>1. Elsewhere(x) /\ Follows(x, ms) BY DEF ClientActs
<1>2. chan' = chan BY <1>1 DEF Elsewhere
<1> SUFFICES ASSUME chan[v] # Nowhere
             PROVE  /\ Some(toClient'[v], Lists) => After(toClient'[v], ListsOf(chan[v]), Lists)
                    /\ ~Some(toClient'[v], Lists) /\ Still(v)' => channel'[v] = chan[v]
  BY <1>2 DEF Agrees
<1>3. /\ Some(toClient[v], Lists) => After(toClient[v], ListsOf(chan[v]), Lists)
      /\ ~Some(toClient[v], Lists) /\ Still(v) => channel[v] = chan[v]
  BY DEF Agrees
<1>4. CASE v # x
  <2>1. toClient'[v] = toClient[v] /\ channel'[v] = channel[v] BY <1>1, <1>4 DEF Elsewhere
  <2> QED BY <1>3, <2>1, ClientStill
<1>5. CASE v = x
  <2>1. Still(v)' => Still(v) /\ ~Some(ms, Moves) BY <1>5, ClientStill
  <2>2. \/ toClient'[v] = toClient[v]
        \/ /\ Some(toClient[v], Lists) <=> Took(x, Lists) \/ Some(toClient'[v], Lists)
           /\ After(toClient[v], ListsOf(chan[v]), Lists) <=>
                \/ After(toClient'[v], ListsOf(chan[v]), Lists)
                \/ Took(x, ListsOf(chan[v])) /\ ~Some(toClient'[v], Lists)
    BY <1>5, ClientQueues
  <2>3. CASE toClient'[v] = toClient[v] /\ Took(x, Lists) BY <1>5, <2>3, TookIs
  <2>4. CASE ~Took(x, Lists)
    <3>1. ~Took(x, ListsOf(chan[v])) BY <2>4, ListsAre DEF Took
    <3> QED BY <1>1, <1>3, <1>5, <2>1, <2>2, <2>4, <3>1, AfterSome DEF Follows
  <2>5. CASE toClient'[v] # toClient[v] /\ Took(x, Lists)
    <3>1. Some(toClient'[v], Lists) => After(toClient'[v], ListsOf(chan[v]), Lists)
      BY <1>3, <2>2, <2>5
    <3>2. ASSUME ~Some(toClient'[v], Lists) PROVE channel'[v] = chan[v]
      <4>1. ~After(toClient'[v], ListsOf(chan[v]), Lists)
        BY <3>2, ListsAre DEF After, Some
      <4>2. Took(x, ListsOf(chan[v])) BY <1>3, <2>2, <2>5, <4>1
      <4>3. chan[v] \in Channels BY <4>2, ListsAre DEF Took
      <4> QED BY <1>1, <1>5, <4>2, <4>3 DEF Follows
    <3> QED BY <3>1, <3>2
  <2> QED BY <2>3, <2>4, <2>5
<1> QED BY <1>4, <1>5

LEMMA ClientKeepsAsking ==
    ASSUME Typed, NEW x \in Users, NEW ms, ClientActs(x, ms),
           NEW v \in Users, NEW u \in Users, u # v
    PROVE  (Asking(v, u) => Asking(v, u)') /\ (Untold(v, u) => Untold(v, u)')
<1>1. Elsewhere(x) /\ Follows(x, ms) BY DEF ClientActs
<1> DEFINE q == toClient[v]
<1> DEFINE known == established[v] \cup pending[v]
<1> DEFINE now == established'[v] \cup pending'[v]
<1> SUFFICES /\ Some(toServer[v], Requests(u)) \/ Comes(q, u, known) =>
                  Some(toServer'[v], Requests(u)) \/ Comes(toClient'[v], u, now)
             /\ Stranger(q, u, known) => Stranger(toClient'[v], u, now)
  BY DEF Asking, Untold, Known
<1>2. CASE v # x
  <2>1. toServer'[v] = toServer[v] /\ toClient'[v] = q /\ now = known
    BY <1>1, <1>2 DEF Elsewhere
  <2> QED BY <2>1
<1>3. CASE v = x
  <2>1. /\ Some(toServer[v], Requests(u)) => Some(toServer'[v], Requests(u))
        /\ Some(ms, Requests(u)) => Some(toServer'[v], Requests(u))
    BY <1>3, ClientQueues
  <2>2. q \in Seq(ToClient) BY DEF Typed, QueuesTyped
  <2>3. CASE toClient'[v] = q
    <3>1. u \notin known => u \notin now BY <1>1, <1>3, <2>3, TookIs DEF Follows, Known
    <3>2. Fresh(q, Len(q) + 1, u, known) => Fresh(q, Len(q) + 1, u, now)
      <4> HIDE DEF q, known, now
      <4> QED BY <3>1 DEF Fresh
    <3>3. \A i : Fresh(q, i, u, known) => Fresh(q, i, u, now)
      <4> HIDE DEF q, known, now
      <4> QED BY <3>1 DEF Fresh
    <3> HIDE DEF q, known, now
    <3> QED BY <2>1, <2>3, <3>3 DEF Comes, Stranger
  <2>4. CASE toClient'[v] # q
    <3>1. q # <<>> /\ toClient'[v] = Tail(q) BY <1>3, <2>4 DEF ClientActs
    <3>2. \A S : Took(x, S) <=> Head(q) \in S BY <1>3, <3>1 DEF Took
    <3>3. Head(q) \in Lefts(u) \/ (u \notin known /\ Head(q) \notin Brings(u)) => u \notin now
      BY <1>1, <1>3, <3>2 DEF Follows, Known
    <3>4. Head(q) \in Joineds(u) /\ u \notin known => Some(ms, Requests(u))
      BY <1>1, <1>3, <3>2 DEF Follows, Known
    <3> HIDE DEF q, known, now
    <3>5. /\ Stranger(q, u, known) => Stranger(Tail(q), u, now)
          /\ Comes(q, u, known) =>
               Comes(Tail(q), u, now) \/ (Head(q) \in Joineds(u) /\ u \notin known)
      BY <2>2, <3>1, <3>3, ComesTail
    <3> QED BY <2>1, <3>1, <3>4, <3>5
  <2> QED BY <2>3, <2>4
<1> QED BY <1>2, <1>3

LEMMA ForgettingIs ==
    \A u, S : /\ Some(S, Lists) \/ Some(S, Lefts(u)) => Some(S, Forgetting(u))
              /\ Some(S, Forgetting(u)) => Some(S, Lists) \/ Some(S, Lefts(u))
BY DEF Some, Forgetting

LEMMA ClientKeepsDeal ==
    ASSUME Typed, NEW x \in Users, NEW ms, ClientActs(x, ms),
           NEW v \in Users, NEW u \in Users, u # v, NEW r \in Rooms,
           Agrees(v), chan[v] = r, Still(v)', Deal(v, u, r)
    PROVE  Deal(v, u, r)'
<1>1. Elsewhere(x) /\ Distributes(x, ms) /\ Follows(x, ms) BY DEF ClientActs
<1>2. Asking(v, u) => Asking(v, u)' BY ClientKeepsAsking
<1>3. CASE v # x
  <2>1. toClient'[v] = toClient[v] /\ distributed'[v] = distributed[v]
    BY <1>1, <1>3 DEF Elsewhere
  <2> QED BY <1>2, <2>1 DEF Deal
<1>4. CASE v = x
  <2>1. Still(v) /\ ~Some(ms, Moves) BY <1>4, ClientStill
  <2>2. CASE u \in distributed[v][r] /\ ~Some(toClient[v], Forgetting(u))
    <3>1. ~Took(x, Forgetting(u)) /\ ~Some(toClient'[v], Forgetting(u))
      BY <1>4, <2>2, ClientQueues, TookIs
    <3> QED BY <1>1, <1>4, <2>1, <2>2, <3>1 DEF Distributes, Deal
  <2>3. CASE After(toClient[v], Bundles(u), Forgetting(u))
    <3>1. CASE After(toClient'[v], Bundles(u), Forgetting(u)) BY <3>1 DEF Deal
    <3>2. CASE Took(x, Bundles(u)) /\ ~Some(toClient'[v], Forgetting(u))
      <4>1. ~Took(x, Lists) BY <3>2 DEF Took, Bundles, Lists
      <4>2. ~Some(toClient'[v], Lists) BY <3>2, ForgettingIs
      <4>3. ~Some(toClient[v], Lists)
        <5>1. toClient'[v] # toClient[v] BY <1>4, <3>2, TookIs
        <5> QED BY <1>4, <4>1, <4>2, <5>1, ClientQueues
      <4>4. chan[v] # Nowhere BY Places, KeysAssumption
      <4>5. channel[v] = r BY <2>1, <4>3, <4>4 DEF Agrees
      <4> QED BY <1>1, <1>4, <3>2, <4>5 DEF Distributes, Deal
    <3> QED BY <1>4, <2>3, <3>1, <3>2, ClientQueues
  <2>4. CASE Asking(v, u) BY <1>2, <2>4 DEF Deal
  <2> QED BY <2>2, <2>3, <2>4 DEF Deal
<1> QED BY <1>3, <1>4

LEMMA ClientKeepsBoth ==
    ASSUME Typed, NEW x \in Users, NEW ms, ClientActs(x, ms),
           NEW u \in Users, NEW v \in Users, NEW r \in Rooms,
           Agrees(u), Agrees(v), Both(u, v, r)
    PROVE  Both(u, v, r)'
<1> SUFFICES ASSUME u # v, Still(u)', Still(v)' PROVE Both(u, v, r)' BY DEF Both
<1>1. chan' = chan BY DEF ClientActs, Elsewhere
<1>2. Still(u) /\ Still(v) BY ClientStill
<1>3. /\ Asking(u, v) => Asking(u, v)'
      /\ Untold(u, v) => Untold(u, v)'
      /\ Untold(v, u) => Untold(v, u)'
  BY ClientKeepsAsking
<1>4. /\ chan[u] = r /\ Deal(u, v, r) => Deal(u, v, r)'
      /\ chan[v] = r /\ Deal(v, u, r) => Deal(v, u, r)'
  BY ClientKeepsDeal
<1> QED BY <1>1, <1>2, <1>3, <1>4 DEF Both

LEMMA ClientKeepsPairs ==
    ASSUME Typed, PairInv, NEW x \in Users, NEW ms, ClientActs(x, ms)
    PROVE  PairInv'
<1>1. ASSUME NEW v \in Users, NEW u \in Users, NEW r \in Rooms
      PROVE  Given(v, r, u)' /\ Answer(v, u, r)' /\ Both(v, u, r)'
  <2>1. Given(v, r, u) /\ Answer(v, u, r) /\ Both(v, u, r) /\ Agrees(v) /\ Agrees(u)
    BY DEF PairInv
  <2> QED BY <2>1, ClientKeepsGiven, ClientKeepsAnswer, ClientKeepsBoth
<1>2. \A v \in Users : Agrees(v)' BY ClientAgrees DEF PairInv
<1> QED BY <1>1, <1>2 DEF PairInv

----------------------------------------------------------------------------
(* The steps of the server keep it.                                        *)

Gave(x, S)  == toServer[x] # <<>> /\ toServer'[x] = Tail(toServer[x]) /\ Head(toServer[x]) \in S
Gets(w, S)  == \E m \in S : toClient'[w] = Append(toClient[w], m)
Hears(w, S) == toClient'[w] = toClient[w] \/ Gets(w, S)

\* What w can be told when the server handles anything but a join of x.
Relays(x, w) ==
    {m \in ToClient :
       /\ m.type \in {"bundle", "key", "chat", "direct"}
       /\ m.type \in {"key", "direct"} => m.user = x
       /\ m.type = "bundle" => w = x}
\* The lists x can get when it enters ch.
Entered(x, ch) == {m \in ListsOf(ch) : \A w \in m.users : w = x \/ chan[w] # Nowhere}

Relaying(x) ==
    /\ chan[x] # Nowhere /\ chan'[x] = chan[x] /\ entering'[x] = entering[x]
    /\ Gave(x, ToServer \ Moves)
    /\ \A w \in Users : Hears(w, Relays(x, w))
    /\ \A u \in Users : Gave(x, Requests(u)) => Gets(x, Bundles(u))
    /\ \A r \in Rooms, u \in Users : Gave(x, KeysTo(r, u)) =>
         \/ chan[u] = r /\ Gets(u, KeysOf(r, x))
         \/ <<r, x, u>> \in wasted'
Leaving(x) ==
    /\ chan[x] # Nowhere /\ chan'[x] = Nowhere
    /\ Gave(x, MovesTo(entering'[x]))
    /\ toClient'[x] = toClient[x]
    /\ \A w \in Users : w # x => Gets(w, Lefts(x))
Entering(x) ==
    /\ chan[x] = Nowhere /\ chan'[x] = entering[x] /\ entering'[x] = entering[x]
    /\ toServer'[x] = toServer[x]
    /\ Gets(x, Entered(x, entering[x]))
    /\ \A w \in Users : w # x => Gets(w, Joineds(x))

ServerActs(x) ==
    /\ UNCHANGED <<channel, established, pending, distributed, holds, waiting, late>>
    /\ wasted \subseteq wasted'
    /\ \A y \in Users : y # x =>
         toServer'[y] = toServer[y] /\ chan'[y] = chan[y] /\ entering'[y] = entering[y]
    /\ Relaying(x) \/ Leaving(x) \/ Entering(x)

LEMMA HearsIs ==
    ASSUME Typed, NEW w \in Users, NEW R \in SUBSET ToClient, Hears(w, R),
           NEW S, NEW T, NEW u, NEW known
    PROVE  /\ Some(toClient[w], S) => Some(toClient'[w], S)
           /\ R \cap S = {} => /\ Some(toClient'[w], S) => Some(toClient[w], S)
                               /\ After(toClient'[w], S, T) => After(toClient[w], S, T)
           /\ R \cap T = {} => (After(toClient[w], S, T) => After(toClient'[w], S, T))
           /\ Comes(toClient[w], u, known) => Comes(toClient'[w], u, known)
           /\ R \cap Brings(u) = {} =>
                (Stranger(toClient[w], u, known) => Stranger(toClient'[w], u, known))
<1>1. CASE toClient'[w] = toClient[w] BY <1>1
<1>2. ASSUME NEW m \in R, toClient'[w] = Append(toClient[w], m)
      PROVE  /\ Some(toClient[w], S) => Some(toClient'[w], S)
             /\ m \notin S => /\ Some(toClient'[w], S) => Some(toClient[w], S)
                              /\ After(toClient'[w], S, T) => After(toClient[w], S, T)
             /\ m \notin T => (After(toClient[w], S, T) => After(toClient'[w], S, T))
             /\ Comes(toClient[w], u, known) => Comes(toClient'[w], u, known)
             /\ m \notin Brings(u) =>
                  (Stranger(toClient[w], u, known) => Stranger(toClient'[w], u, known))
  <2> DEFINE q == toClient[w]
  <2>1. q \in Seq(ToClient) BY DEF Typed, QueuesTyped
  <2> HIDE DEF q
  <2>2. /\ Some(Append(q, m), S) <=> Some(q, S) \/ m \in S
        /\ After(Append(q, m), S, T) <=> m \in S \/ (After(q, S, T) /\ m \notin T)
    BY <2>1, InAppended
  <2>3. /\ Comes(q, u, known) => Comes(Append(q, m), u, known)
        /\ m \notin Brings(u) => (Stranger(q, u, known) => Stranger(Append(q, m), u, known))
    BY <2>1, ComesAppended
  <2> QED BY <1>2, <2>2, <2>3 DEF q
<1> QED BY <1>1, <1>2 DEF Hears, Gets

\* What comes last is after everything.
LEMMA GetsIs ==
    ASSUME Typed, NEW w \in Users, NEW R \in SUBSET ToClient, Gets(w, R), NEW T, NEW u, NEW known
    PROVE  /\ Some(toClient'[w], R) /\ After(toClient'[w], R, T)
           /\ R \subseteq Joineds(u) =>
                (Stranger(toClient[w], u, known) => Comes(toClient'[w], u, known))
           /\ R \subseteq Lefts(u) => Stranger(toClient'[w], u, known)
<1> DEFINE q == toClient[w]
<1>1. q \in Seq(ToClient) BY DEF Typed, QueuesTyped
<1>2. PICK m \in R : toClient'[w] = Append(q, m) BY DEF Gets
<1> HIDE DEF q
<1>3. Some(Append(q, m), R) /\ After(Append(q, m), R, T) BY <1>1, InAppended
<1>4. /\ m \in Joineds(u) => (Stranger(q, u, known) => Comes(Append(q, m), u, known))
      /\ m \in Lefts(u) => Stranger(Append(q, m), u, known)
  BY <1>1, ComesAppended
<1> QED BY <1>2, <1>3, <1>4 DEF q

LEMMA GaveIs ==
    ASSUME Typed, NEW x \in Users, NEW S, NEW T,
           toServer[x] # <<>>, toServer'[x] = Tail(toServer[x])
    PROVE  /\ Some(toServer[x], S) <=> Gave(x, S) \/ Some(toServer'[x], S)
           /\ After(toServer[x], S, T) <=>
                After(toServer'[x], S, T) \/ (Gave(x, S) /\ ~Some(toServer'[x], T))
<1> DEFINE q == toServer[x]
<1>1. q \in Seq(ToServer) BY DEF Typed, QueuesTyped
<1> HIDE DEF q
<1>2. q # <<>> => /\ Some(q, S) <=> Head(q) \in S \/ Some(Tail(q), S)
                  /\ After(q, S, T) <=>
                       After(Tail(q), S, T) \/ (Head(q) \in S /\ ~Some(Tail(q), T))
  BY <1>1, InTail
<1> QED BY <1>2 DEF q, Gave

\* What kinds of messages do not have in common.
LEMMA Kinds ==
    /\ \A x, w : Relays(x, w) \cap Lists = {}
    /\ \A x, w, u : Relays(x, w) \cap Lefts(u) = {} /\ Relays(x, w) \cap Forgetting(u) = {}
    /\ \A x, w, u : u # x /\ w # x => Relays(x, w) \cap Brings(u) = {}
    /\ \A x, w, u : u # x => Relays(x, w) \cap Brings(u) \subseteq Bundles(u)
    /\ \A x, u : x # u => Lefts(x) \cap Lefts(u) = {} /\ Lefts(x) \cap Forgetting(u) = {}
    /\ \A x, u : Lefts(x) \cap Brings(u) = {} /\ Lefts(x) \cap Lists = {}
    /\ \A x, u : Joineds(x) \cap Forgetting(u) = {} /\ Joineds(x) \cap Lefts(u) = {}
    /\ \A x : Joineds(x) \cap Lists = {}
    /\ \A x, u : x # u => Joineds(x) \cap Brings(u) = {}
    /\ \A x, ch, u : u # x /\ chan[u] = Nowhere => Entered(x, ch) \cap Brings(u) = {}
    /\ \A x, ch, u : Entered(x, ch) \cap Lefts(u) = {} /\ Entered(x, ch) \subseteq ListsOf(ch)
    /\ \A r, u : KeysTo(r, u) \cap Moves = {}
    /\ \A u : Requests(u) \cap Moves = {}
    /\ \A r, s : r # s => MovesTo(r) \cap MovesTo(s) = {}
<1> USE DEF Relays, Lists, ListsOf, Lefts, Forgetting, Brings, Bundles, Joineds, Entered,
            KeysTo, IsKey, Moves, MovesTo, Requests
<1>1. \A x, w : Relays(x, w) \cap Lists = {} OBVIOUS
<1>2. \A x, w, u : Relays(x, w) \cap Lefts(u) = {} /\ Relays(x, w) \cap Forgetting(u) = {} OBVIOUS
<1>3. \A x, w, u : u # x /\ w # x => Relays(x, w) \cap Brings(u) = {} OBVIOUS
<1>4. \A x, w, u : u # x => Relays(x, w) \cap Brings(u) \subseteq Bundles(u) OBVIOUS
<1>5. \A x, u : x # u => Lefts(x) \cap Lefts(u) = {} /\ Lefts(x) \cap Forgetting(u) = {} OBVIOUS
<1>6. \A x, u : Lefts(x) \cap Brings(u) = {} /\ Lefts(x) \cap Lists = {} OBVIOUS
<1>7. \A x, u : Joineds(x) \cap Forgetting(u) = {} /\ Joineds(x) \cap Lefts(u) = {} OBVIOUS
<1>8. \A x : Joineds(x) \cap Lists = {} OBVIOUS
<1>9. \A x, u : x # u => Joineds(x) \cap Brings(u) = {} OBVIOUS
<1>10. \A x, ch, u : u # x /\ chan[u] = Nowhere => Entered(x, ch) \cap Brings(u) = {} OBVIOUS
<1>11. \A x, ch, u : Entered(x, ch) \cap Lefts(u) = {} /\ Entered(x, ch) \subseteq ListsOf(ch) OBVIOUS
<1>12. \A r, u : KeysTo(r, u) \cap Moves = {} OBVIOUS
<1>13. \A u : Requests(u) \cap Moves = {} OBVIOUS
<1>14. \A r, s : r # s => MovesTo(r) \cap MovesTo(s) = {} OBVIOUS
<1> HIDE DEF Relays, Lists, ListsOf, Lefts, Forgetting, Brings, Bundles, Joineds, Entered,
             KeysTo, IsKey, Moves, MovesTo, Requests
<1> QED BY <1>1, <1>2, <1>3, <1>4, <1>5, <1>6, <1>7, <1>8, <1>9, <1>10, <1>11, <1>12, <1>13,
           <1>14

\* Sets of messages to a client.
LEMMA Subsets ==
    /\ \A x, w : Relays(x, w) \in SUBSET ToClient
    /\ \A x : Lefts(x) \in SUBSET ToClient /\ Joineds(x) \in SUBSET ToClient
    /\ \A x : Bundles(x) \in SUBSET ToClient
    /\ \A r, x : KeysOf(r, x) \in SUBSET ToClient
    /\ \A x, ch : Entered(x, ch) \in SUBSET ToClient
BY DEF Relays, Lefts, Joineds, Bundles, KeysOf, Entered, ListsOf, Lists

LEMMA ServerTells ==
    ASSUME NEW x \in Users, ServerActs(x), NEW w \in Users
    PROVE  Hears(w, ToClient)
<1>1. CASE Relaying(x) BY <1>1, Subsets DEF Relaying, Hears, Gets
<1>2. CASE Leaving(x)
  <2>1. CASE w = x BY <1>2, <2>1 DEF Leaving, Hears
  <2>2. CASE w # x BY <1>2, <2>2, Subsets DEF Leaving, Hears, Gets
  <2> QED BY <2>1, <2>2
<1>3. CASE Entering(x)
  <2>1. CASE w = x BY <1>3, <2>1, Subsets DEF Entering, Hears, Gets
  <2>2. CASE w # x BY <1>3, <2>2, Subsets DEF Entering, Hears, Gets
  <2> QED BY <2>1, <2>2
<1> QED BY <1>1, <1>2, <1>3 DEF ServerActs

\* The queue to the server, by what the server does.
LEMMA ServerTakes ==
    ASSUME Typed, NEW x \in Users, ServerActs(x), NEW S, NEW T
    PROVE  \/ Entering(x) /\ toServer'[x] = toServer[x]
           \/ /\ Relaying(x) \/ Leaving(x)
              /\ Some(toServer[x], S) <=> Gave(x, S) \/ Some(toServer'[x], S)
              /\ After(toServer[x], S, T) <=>
                   After(toServer'[x], S, T) \/ (Gave(x, S) /\ ~Some(toServer'[x], T))
<1>1. CASE Entering(x) BY <1>1 DEF Entering
<1>2. CASE Relaying(x) \/ Leaving(x)
  <2>1. toServer[x] # <<>> /\ toServer'[x] = Tail(toServer[x])
    BY <1>2 DEF Relaying, Leaving, Gave
  <2> QED BY <1>2, <2>1, GaveIs
<1> QED BY <1>1, <1>2 DEF ServerActs

LEMMA GaveOne ==
    /\ \A x : Relaying(x) => ~Gave(x, Moves) /\ \A r : ~Gave(x, MovesTo(r))
    /\ \A x, r, u : Leaving(x) => ~Gave(x, KeysTo(r, u)) /\ ~Gave(x, Requests(u))
    /\ \A x, r : Leaving(x) => Gave(x, Moves) /\ (Gave(x, MovesTo(r)) => entering'[x] = r)
BY Kinds DEF Relaying, Leaving, Gave, MovesTo

LEMMA ServerKeepsGiven ==
    ASSUME Typed, NEW x \in Users, ServerActs(x),
           NEW v \in Users, NEW u \in Users, NEW r \in Rooms, Given(v, r, u)
    PROVE  Given(v, r, u)'
<1> SUFFICES ASSUME u \in distributed'[v][r]
             PROVE  \/ <<r, v>> \in holds'[u] \/ <<r, v, u>> \in wasted'
                    \/ Some(toServer'[v], KeysTo(r, u)) \/ Some(toClient'[u], KeysOf(r, v))
  BY DEF Given
<1>1. /\ distributed' = distributed /\ holds' = holds /\ wasted \subseteq wasted'
      /\ v # x => toServer'[v] = toServer[v]
  BY DEF ServerActs
<1>2. Some(toClient[u], KeysOf(r, v)) => Some(toClient'[u], KeysOf(r, v))
  BY ServerTells, HearsIs
<1>3. ASSUME v = x, Some(toServer[v], KeysTo(r, u)), ~Some(toServer'[v], KeysTo(r, u))
      PROVE  Some(toClient'[u], KeysOf(r, v)) \/ <<r, v, u>> \in wasted'
  <2>1. Gave(x, KeysTo(r, u)) /\ (Relaying(x) \/ Leaving(x)) BY <1>3, ServerTakes
  <2>2. Relaying(x) BY <2>1, GaveOne
  <2>3. CASE Gets(u, KeysOf(r, x)) BY <1>3, <2>3, GetsIs, Subsets
  <2> QED BY <1>3, <2>1, <2>2, <2>3 DEF Relaying
<1> QED BY <1>1, <1>2, <1>3 DEF Given

LEMMA ServerAgrees ==
    ASSUME Typed, NEW x \in Users, ServerActs(x), NEW v \in Users, Agrees(v)
    PROVE  Agrees(v)'
<1>1. /\ channel' = channel
      /\ v # x => chan'[v] = chan[v] /\ toServer'[v] = toServer[v]
  BY DEF ServerActs
<1>2. ASSUME NEW R \in SUBSET ToClient, Hears(v, R), R \cap Lists = {},
             chan'[v] = chan[v], Still(v)' => Still(v)
      PROVE  Agrees(v)'
  <2>1. /\ Some(toClient[v], Lists) <=> Some(toClient'[v], Lists)
        /\ After(toClient[v], ListsOf(chan[v]), Lists) =>
             After(toClient'[v], ListsOf(chan[v]), Lists)
    BY <1>2, HearsIs
  <2> QED BY <1>1, <1>2, <2>1 DEF Agrees
<1>3. CASE Relaying(x)
  <2>1. Hears(v, Relays(x, v)) BY <1>3 DEF Relaying
  <2>2. chan'[v] = chan[v] BY <1>1, <1>3 DEF Relaying
  <2>3. Still(v)' => Still(v)
    <3>1. CASE v = x BY <1>3, <3>1, ServerTakes, GaveOne DEF Still, Entering, Relaying
    <3>2. CASE v # x BY <1>1, <3>2 DEF Still
    <3> QED BY <3>1, <3>2
  <2> QED BY <1>2, <2>1, <2>2, <2>3, Kinds, Subsets
<1>4. CASE Leaving(x)
  <2>1. CASE v = x BY <1>4, <2>1 DEF Leaving, Agrees
  <2>2. CASE v # x
    <3>1. Hears(v, Lefts(x)) BY <1>4, <2>2 DEF Leaving, Hears
    <3>2. chan'[v] = chan[v] /\ (Still(v)' => Still(v)) BY <1>1, <2>2 DEF Still
    <3> QED BY <1>2, <3>1, <3>2, Kinds, Subsets
  <2> QED BY <2>1, <2>2
<1>5. CASE Entering(x)
  <2>1. CASE v = x
    <3>1. Gets(v, Entered(v, entering[v])) /\ chan'[v] = entering[v] BY <1>5, <2>1 DEF Entering
    <3>2. PICK m \in Entered(v, entering[v]) : toClient'[v] = Append(toClient[v], m)
      BY <3>1 DEF Gets
    <3>3. m \in ListsOf(chan'[v]) /\ m \in Lists /\ m \in ToClient
      BY <3>1, <3>2, Kinds, Subsets, ListsAre
    <3> DEFINE q == toClient[v]
    <3> DEFINE here == ListsOf(chan'[v])
    <3>4. q \in Seq(ToClient) BY DEF Typed, QueuesTyped
    <3>5. m \in here BY <3>3
    <3> HIDE DEF q, here
    <3>6. After(Append(q, m), here, Lists) BY <3>3, <3>4, <3>5, InAppended
    <3>7. After(toClient'[v], ListsOf(chan'[v]), Lists) BY <3>2, <3>6 DEF q, here
    <3>8. Some(Append(q, m), Lists) BY <3>3, <3>4, InAppended
    <3>9. Some(toClient'[v], Lists) BY <3>2, <3>8 DEF q
    <3> QED BY <3>7, <3>9 DEF Agrees
  <2>2. CASE v # x
    <3>1. Hears(v, Joineds(x)) BY <1>5, <2>2 DEF Entering, Hears
    <3>2. chan'[v] = chan[v] /\ (Still(v)' => Still(v)) BY <1>1, <2>2 DEF Still
    <3> QED BY <1>2, <3>1, <3>2, Kinds, Subsets
  <2> QED BY <2>1, <2>2
<1> QED BY <1>3, <1>4, <1>5 DEF ServerActs

LEMMA ServerKeepsAnswer ==
    ASSUME Typed, NEW x \in Users, ServerActs(x),
           NEW v \in Users, NEW u \in Users, NEW r \in Rooms, Answer(v, u, r)
    PROVE  Answer(v, u, r)'
<1> SUFFICES ASSUME u # v, Bound(v, r)', u \in distributed'[v][r], Still(u)',
                    ~Some(toClient'[v], Lefts(u))
             PROVE  \/ After(toServer'[v], KeysTo(r, u), Moves)
                    \/ /\ Still(v)' /\ chan'[v] = r
                       /\ \/ <<r, v, u>> \in wasted'
                          \/ /\ chan'[u] = r
                             /\ \/ After(toClient'[u], KeysOf(r, v), Forgetting(v))
                                \/ Got(u, v, r)'
  BY DEF Answer
<1>1. /\ UNCHANGED <<distributed, waiting, late>> /\ wasted \subseteq wasted'
      /\ \A y \in Users : y # x =>
           toServer'[y] = toServer[y] /\ chan'[y] = chan[y] /\ entering'[y] = entering[y]
  BY DEF ServerActs
<1>2. ~Some(toClient[v], Lefts(u)) BY ServerTells, HearsIs
<1>3. u \in distributed[v][r] BY <1>1
<1>4. r # Nowhere BY Places, KeysAssumption
\* Where u is told nothing that makes it forget v, it goes on.
<1>5. ASSUME NEW R \in SUBSET ToClient, Hears(u, R), R \cap Forgetting(v) = {}
      PROVE  \/ After(toClient[u], KeysOf(r, v), Forgetting(v)) \/ Got(u, v, r)
             => After(toClient'[u], KeysOf(r, v), Forgetting(v)) \/ Got(u, v, r)'
  <2>1. After(toClient[u], KeysOf(r, v), Forgetting(v)) =>
          After(toClient'[u], KeysOf(r, v), Forgetting(v))
    BY <1>5, HearsIs
  <2>2. ~Some(toClient[u], Forgetting(v)) => ~Some(toClient'[u], Forgetting(v))
    BY <1>5, HearsIs
  <2> QED BY <1>1, <2>1, <2>2 DEF Got
<1>6. CASE Relaying(x)
  <2>1. \A y \in Users : chan'[y] = chan[y] /\ entering'[y] = entering[y]
    BY <1>1, <1>6 DEF Relaying
  <2>2. \A y \in Users : Still(y)' <=> Still(y)
    <3>1. ASSUME NEW y \in Users PROVE Still(y)' <=> Still(y)
      <4>1. CASE y = x BY <1>6, <4>1, ServerTakes, GaveOne DEF Still, Entering, Relaying
      <4>2. CASE y # x BY <1>1, <4>2 DEF Still
      <4> QED BY <4>1, <4>2
    <3> QED BY <3>1
  <2>3. Bound(v, r)
    <3>1. After(toServer'[v], MovesTo(r), Moves) => After(toServer[v], MovesTo(r), Moves)
      <4>1. CASE v = x BY <1>6, <4>1, ServerTakes DEF Entering, Relaying
      <4>2. CASE v # x BY <1>1, <4>2
      <4> QED BY <4>1, <4>2
    <3> QED BY <2>1, <2>2, <3>1 DEF Bound, Place
  <2>4. Hears(u, Relays(x, u)) /\ Relays(x, u) \cap Forgetting(v) = {}
    BY <1>6, Kinds DEF Relaying
  <2>5. \/ After(toServer[v], KeysTo(r, u), Moves)
        \/ /\ Still(v) /\ chan[v] = r
           /\ \/ <<r, v, u>> \in wasted
              \/ /\ chan[u] = r
                 /\ After(toClient[u], KeysOf(r, v), Forgetting(v)) \/ Got(u, v, r)
    BY <1>2, <1>3, <2>2, <2>3 DEF Answer
  <2>6. ASSUME v = x, Gave(x, KeysTo(r, u)), ~Some(toServer'[v], Moves)
        PROVE  /\ Still(v)' /\ chan'[v] = r
               /\ \/ <<r, v, u>> \in wasted'
                  \/ chan'[u] = r /\ After(toClient'[u], KeysOf(r, v), Forgetting(v))
    <3>1. Still(v)' /\ Still(v) BY <2>2, <2>6 DEF Still
    <3>2. ~After(toServer[v], MovesTo(r), Moves)
      <4>1. ~Some(toServer[v], Moves) BY <3>1 DEF Still
      <4> QED BY <4>1 DEF After, Some, MovesTo
    <3>3. chan[v] = r BY <1>6, <2>3, <2>6, <3>2 DEF Bound, Place, Relaying
    <3>4. (chan[u] = r /\ Gets(u, KeysOf(r, v))) \/ <<r, v, u>> \in wasted'
      BY <1>6, <2>6 DEF Relaying
    <3>5. Gets(u, KeysOf(r, v)) => After(toClient'[u], KeysOf(r, v), Forgetting(v))
      BY GetsIs, Subsets
    <3> QED BY <2>1, <3>1, <3>3, <3>4, <3>5
  <2>7. After(toServer[v], KeysTo(r, u), Moves) =>
          \/ After(toServer'[v], KeysTo(r, u), Moves)
          \/ v = x /\ Gave(x, KeysTo(r, u)) /\ ~Some(toServer'[v], Moves)
    <3>1. CASE v = x BY <1>6, <3>1, ServerTakes DEF Entering, Relaying
    <3>2. CASE v # x BY <1>1, <3>2
    <3> QED BY <3>1, <3>2
  <2> QED BY <1>1, <1>5, <2>1, <2>2, <2>4, <2>5, <2>6, <2>7, Subsets
<1>7. CASE Leaving(x)
  <2>1. u # x
    <3>1. u = x => Gets(v, Lefts(u)) BY <1>7 DEF Leaving
    <3> QED BY <3>1, GetsIs, Subsets
  <2>2. toServer'[u] = toServer[u] /\ chan'[u] = chan[u] /\ Still(u) BY <1>1, <2>1 DEF Still
  <2>3. CASE v = x
    <3>1. \A S, T : After(toServer[v], S, T) <=>
                      After(toServer'[v], S, T) \/ (Gave(x, S) /\ ~Some(toServer'[v], T))
      BY <1>7, <2>3, ServerTakes DEF Entering, Leaving
    <3>2. Gave(x, Moves) /\ Gave(x, MovesTo(entering'[x])) /\ ~Gave(x, KeysTo(r, u))
      BY <1>7, GaveOne DEF Leaving
    <3>3. Place(v)' = entering'[v] BY <1>7, <2>3 DEF Place, Leaving
    <3>4. Bound(v, r)
      <4>1. CASE After(toServer'[v], MovesTo(r), Moves) BY <3>1, <4>1 DEF Bound
      <4>2. CASE Still(v)' /\ Place(v)' = r
        <5>1. ~Some(toServer'[v], Moves) /\ Gave(x, MovesTo(r))
          BY <2>3, <3>2, <3>3, <4>2 DEF Still
        <5> QED BY <3>1, <5>1 DEF Bound
      <4> QED BY <4>1, <4>2 DEF Bound
    <3>5. ~Still(v)
      <4>1. Some(toServer[v], Moves) BY <1>7, <2>3, <3>2, ServerTakes DEF Entering, Leaving
      <4> QED BY <4>1 DEF Still
    <3>6. After(toServer[v], KeysTo(r, u), Moves) BY <1>2, <1>3, <2>2, <3>4, <3>5 DEF Answer
    <3> QED BY <3>1, <3>2, <3>6
  <2>4. CASE v # x
    <3>1. /\ toServer'[v] = toServer[v] /\ chan'[v] = chan[v] /\ entering'[v] = entering[v]
      BY <1>1, <2>4
    <3>2. Bound(v, r) /\ (Still(v)' <=> Still(v)) BY <3>1 DEF Bound, Still, Place
    <3>3. Hears(u, Lefts(x)) /\ Lefts(x) \cap Forgetting(v) = {}
      BY <1>7, <2>1, <2>4, Kinds DEF Leaving, Hears
    <3> QED BY <1>1, <1>2, <1>3, <1>5, <2>2, <3>1, <3>2, <3>3, Subsets DEF Answer
  <2> QED BY <2>3, <2>4
<1>8. CASE Entering(x)
  <2>1. \A y \in Users : toServer'[y] = toServer[y] BY <1>1, <1>8 DEF Entering
  <2>2. \A y \in Users : Place(y)' = Place(y) /\ (Still(y)' <=> Still(y))
    <3>1. ASSUME NEW y \in Users PROVE Place(y)' = Place(y) /\ (Still(y)' <=> Still(y))
      <4>1. Still(y)' <=> Still(y) BY <2>1 DEF Still
      <4>2. CASE y = x
        <5>1. Place(y)' = entering[y] BY <1>8, <4>2 DEF Place, Entering
        <5> QED BY <1>8, <4>1, <4>2, <5>1 DEF Place, Entering
      <4>3. CASE y # x BY <1>1, <4>1, <4>3 DEF Place
      <4> QED BY <4>2, <4>3
    <3> QED BY <3>1
  <2>3. Bound(v, r) /\ Still(u) BY <2>1, <2>2 DEF Bound
  <2>4. \/ After(toServer[v], KeysTo(r, u), Moves)
        \/ /\ Still(v) /\ chan[v] = r
           /\ \/ <<r, v, u>> \in wasted
              \/ /\ chan[u] = r
                 /\ After(toClient[u], KeysOf(r, v), Forgetting(v)) \/ Got(u, v, r)
    BY <1>2, <1>3, <2>3 DEF Answer
  <2>5. chan[v] = r => chan'[v] = r BY <1>1, <1>4, <1>8 DEF Entering
  <2>6. chan[u] = r => u # x /\ chan'[u] = r BY <1>1, <1>4, <1>8 DEF Entering
  <2>7. u # x => Hears(u, Joineds(x)) BY <1>8 DEF Entering, Hears
  <2>8. Joineds(x) \cap Forgetting(v) = {} /\ Joineds(x) \in SUBSET ToClient BY Kinds, Subsets
  <2> QED BY <1>1, <1>5, <2>1, <2>2, <2>4, <2>5, <2>6, <2>7, <2>8
<1> QED BY <1>6, <1>7, <1>8 DEF ServerActs

LEMMA ServerKeepsAsking ==
    ASSUME Typed, NEW x \in Users, ServerActs(x), NEW v \in Users, NEW u \in Users
    PROVE  Asking(v, u) => Asking(v, u)' \/ (v = x /\ Relaying(x) /\ Gets(v, Bundles(u)))
<1>1. Known(v)' = Known(v) /\ (v # x => toServer'[v] = toServer[v]) BY DEF ServerActs, Known
<1>2. Comes(toClient[v], u, Known(v)) => Comes(toClient'[v], u, Known(v))
  BY ServerTells, HearsIs
<1>3. ASSUME v = x, Some(toServer[v], Requests(u)), ~Some(toServer'[v], Requests(u))
      PROVE  Relaying(x) /\ Gets(v, Bundles(u))
  <2>1. Gave(x, Requests(u)) /\ (Relaying(x) \/ Leaving(x)) BY <1>3, ServerTakes
  <2>2. Relaying(x) BY <2>1, GaveOne
  <2> QED BY <1>3, <2>1, <2>2 DEF Relaying
<1> QED BY <1>1, <1>2, <1>3 DEF Asking

LEMMA ServerKeepsDeal ==
    ASSUME Typed, NEW x \in Users, ServerActs(x), NEW v \in Users, NEW u \in Users,
           NEW r \in Rooms, Deal(v, u, r),
           NEW R \in SUBSET ToClient, Hears(v, R), R \cap Forgetting(u) = {}
    PROVE  Deal(v, u, r)'
<1>1. distributed' = distributed BY DEF ServerActs
<1>2. /\ Some(toClient'[v], Forgetting(u)) => Some(toClient[v], Forgetting(u))
      /\ After(toClient[v], Bundles(u), Forgetting(u)) =>
           After(toClient'[v], Bundles(u), Forgetting(u))
  BY HearsIs
<1>3. Gets(v, Bundles(u)) => After(toClient'[v], Bundles(u), Forgetting(u))
  BY GetsIs, Subsets
<1>4. Asking(v, u) => Asking(v, u)' \/ Gets(v, Bundles(u)) BY ServerKeepsAsking
<1> QED BY <1>1, <1>2, <1>3, <1>4 DEF Deal

\* What Both says of u on its way and v in r.
LEMMA ServerKeepsOnWay ==
    ASSUME Typed, NEW x \in Users, ServerActs(x), NEW u \in Users, NEW v \in Users,
           NEW r \in Rooms, u # v, Still(u)', Still(v)', chan'[u] = Nowhere, chan'[v] = r,
           Both(u, v, r)
    PROVE  Deal(v, u, r)' \/ Asking(u, v)' \/ Untold(v, u)'
<1>1. /\ Known(v)' = Known(v) /\ Known(u)' = Known(u)
      /\ \A y \in Users : y # x => toServer'[y] = toServer[y] /\ chan'[y] = chan[y]
  BY DEF ServerActs, Known
<1>2. r # Nowhere BY Places, KeysAssumption
<1>3. CASE Leaving(x)
  <2>1. v # x BY <1>2, <1>3 DEF Leaving
  <2>2. CASE u = x
    <3>1. Gets(v, Lefts(u)) BY <1>3, <2>1, <2>2 DEF Leaving
    <3>2. Stranger(toClient'[v], u, Known(v)) BY <3>1, GetsIs, Subsets
    <3> QED BY <1>1, <3>2 DEF Untold
  <2>3. CASE u # x
    <3>1. Deal(v, u, r) \/ Asking(u, v) \/ Untold(v, u)
      BY <1>1, <2>1, <2>3 DEF Both, Still
    <3>2. Hears(v, Lefts(x)) BY <1>3, <2>1 DEF Leaving, Hears
    <3>3. Lefts(x) \cap Forgetting(u) = {} /\ Lefts(x) \cap Brings(u) = {}
          /\ Lefts(x) \in SUBSET ToClient
      BY <2>3, Kinds, Subsets
    <3>4. Deal(v, u, r) => Deal(v, u, r)' BY <3>2, <3>3, ServerKeepsDeal
    <3>5. Asking(u, v) => Asking(u, v)' BY <2>3, ServerKeepsAsking
    <3>6. Stranger(toClient[v], u, Known(v)) => Stranger(toClient'[v], u, Known(v))
      BY <3>2, <3>3, HearsIs
    <3> QED BY <1>1, <3>1, <3>4, <3>5, <3>6 DEF Untold
  <2> QED BY <2>2, <2>3
<1>4. CASE Relaying(x)
  <2>1. u # x /\ chan[u] = Nowhere /\ chan[v] = r BY <1>1, <1>4 DEF Relaying
  <2>2. Still(u) BY <1>1, <2>1 DEF Still
  <2>3. Still(v)
    <3>1. CASE v = x BY <1>4, <3>1, ServerTakes, GaveOne DEF Still, Entering, Relaying
    <3>2. CASE v # x BY <1>1, <3>2 DEF Still
    <3> QED BY <3>1, <3>2
  <2>4. Deal(v, u, r) \/ Asking(u, v) \/ Untold(v, u) BY <2>1, <2>2, <2>3 DEF Both
  <2> DEFINE R == Relays(x, v)
  <2>5. /\ Hears(v, R) /\ R \cap Forgetting(u) = {} /\ R \in SUBSET ToClient
        /\ R \cap Brings(u) \subseteq Bundles(u)
    BY <1>4, <2>1, Kinds, Subsets DEF Relaying
  <2> HIDE DEF R
  <2>6. Deal(v, u, r) => Deal(v, u, r)' BY <2>5, ServerKeepsDeal
  <2>7. Asking(u, v) => Asking(u, v)' BY <2>1, ServerKeepsAsking
  <2>8. CASE Hears(v, R \ Bundles(u))
    <3>1. R \ Bundles(u) \in SUBSET ToClient /\ (R \ Bundles(u)) \cap Brings(u) = {} BY <2>5
    <3>2. Stranger(toClient[v], u, Known(v)) => Stranger(toClient'[v], u, Known(v))
      BY <2>8, <3>1, HearsIs
    <3> QED BY <1>1, <2>4, <2>6, <2>7, <3>2 DEF Untold
  <2>9. CASE Gets(v, Bundles(u))
    <3>1. After(toClient'[v], Bundles(u), Forgetting(u)) BY <2>9, GetsIs, Subsets
    <3> QED BY <3>1 DEF Deal
  <2> QED BY <2>5, <2>8, <2>9 DEF Hears, Gets
<1>5. CASE Entering(x)
  <2>1. entering[x] # Nowhere
    <3>1. entering[x] \in Channels BY DEF Typed, ServerTyped
    <3> QED BY <3>1, KeysAssumption
  <2>2. u # x /\ chan[u] = Nowhere BY <1>1, <1>5, <2>1 DEF Entering
  <2>3. Still(u) /\ Still(v) BY <1>1, <1>5 DEF Still, Entering
  <2>4. CASE v = x
    <3>1. chan[v] = Nowhere /\ entering[v] = r BY <1>5, <2>4 DEF Entering
    <3>2. Untold(u, v) \/ Untold(v, u) BY <2>2, <2>3, <3>1 DEF Both
    <3>3. Gets(u, Joineds(v)) BY <1>5, <2>2, <2>4 DEF Entering
    <3>4. Untold(u, v) => Comes(toClient'[u], v, Known(u)) BY <3>3, GetsIs, Subsets DEF Untold
    <3>5. Hears(v, Entered(x, r)) BY <1>5, <2>4, <3>1 DEF Entering, Hears
    <3>6. Entered(x, r) \cap Brings(u) = {} /\ Entered(x, r) \in SUBSET ToClient
      BY <2>2, Kinds, Subsets
    <3>7. Stranger(toClient[v], u, Known(v)) => Stranger(toClient'[v], u, Known(v))
      BY <3>5, <3>6, HearsIs
    <3> QED BY <1>1, <3>2, <3>4, <3>7 DEF Untold, Asking
  <2>5. CASE v # x
    <3>1. Deal(v, u, r) \/ Asking(u, v) \/ Untold(v, u) BY <1>1, <2>2, <2>3, <2>5 DEF Both
    <3>2. Hears(v, Joineds(x)) BY <1>5, <2>5 DEF Entering, Hears
    <3>3. Joineds(x) \cap Forgetting(u) = {} /\ Joineds(x) \cap Brings(u) = {}
          /\ Joineds(x) \in SUBSET ToClient
      BY <2>2, Kinds, Subsets
    <3>4. Deal(v, u, r) => Deal(v, u, r)' BY <3>2, <3>3, ServerKeepsDeal
    <3>5. Asking(u, v) => Asking(u, v)' BY <2>2, ServerKeepsAsking
    <3>6. Stranger(toClient[v], u, Known(v)) => Stranger(toClient'[v], u, Known(v))
      BY <3>2, <3>3, HearsIs
    <3> QED BY <1>1, <3>1, <3>4, <3>5, <3>6 DEF Untold
  <2> QED BY <2>4, <2>5
<1> QED BY <1>3, <1>4, <1>5 DEF ServerActs

\* Of two in a room, when one of them enters it.
LEMMA ServerLetsIn ==
    ASSUME Typed, NEW x \in Users, Entering(x), ServerActs(x), NEW v \in Users, x # v,
           NEW r \in Rooms, Still(x), Still(v), chan[v] = r, Both(x, v, r)
    PROVE  Deal(v, x, r)' \/ Deal(x, v, r)'
<1>1. chan[x] = Nowhere /\ Gets(v, Joineds(x)) /\ Known(v)' = Known(v)
  BY DEF Entering, ServerActs, Known
<1>2. Deal(v, x, r) \/ Asking(x, v) \/ Untold(v, x) BY <1>1 DEF Both
<1>3. Deal(v, x, r) => Deal(v, x, r)'
  <2>1. Joineds(x) \cap Forgetting(x) = {} /\ Hears(v, Joineds(x)) BY <1>1, Kinds DEF Hears
  <2> QED BY <2>1, ServerKeepsDeal, Subsets
<1>4. Asking(x, v) => Asking(x, v)'
  <2>1. ~Relaying(x) BY <1>1 DEF Relaying
  <2> QED BY <2>1, ServerKeepsAsking
<1>5. Untold(v, x) => Comes(toClient'[v], x, Known(v)) BY <1>1, GetsIs, Subsets DEF Untold
<1> QED BY <1>1, <1>2, <1>3, <1>4, <1>5 DEF Deal, Asking

LEMMA ServerKeepsUntold ==
    ASSUME Typed, NEW x \in Users, ServerActs(x), NEW u \in Users, NEW v \in Users,
           chan'[u] = Nowhere, chan'[v] = Nowhere
    PROVE  /\ Untold(v, u) => Untold(v, u)'
           /\ u = x /\ v # x /\ ~Entering(x) => Untold(v, u)'
<1>1. Known(v)' = Known(v) BY DEF ServerActs, Known
<1>2. ASSUME NEW R \in SUBSET ToClient, Hears(v, R), R \cap Brings(u) = {}
      PROVE  Untold(v, u) => Untold(v, u)'
  BY <1>1, <1>2, HearsIs DEF Untold
<1>3. CASE Relaying(x)
  <2>1. u # x /\ v # x BY <1>3 DEF Relaying
  <2>2. Hears(v, Relays(x, v)) BY <1>3 DEF Relaying
  <2> QED BY <1>2, <2>1, <2>2, Kinds, Subsets
<1>4. CASE Leaving(x)
  <2>1. CASE v = x
    <3>1. toClient'[v] = toClient[v] BY <1>4, <2>1 DEF Leaving
    <3> QED BY <1>1, <2>1, <3>1 DEF Untold
  <2>2. CASE v # x
    <3>1. Gets(v, Lefts(x)) /\ Hears(v, Lefts(x)) BY <1>4, <2>2 DEF Leaving, Hears
    <3>2. u = x => Stranger(toClient'[v], u, Known(v)) BY <3>1, GetsIs, Subsets
    <3> QED BY <1>1, <1>2, <3>1, <3>2, Kinds, Subsets DEF Untold
  <2> QED BY <2>1, <2>2
<1>5. CASE Entering(x)
  <2>1. entering[x] \in Channels BY DEF Typed, ServerTyped
  <2>2. u # x /\ v # x BY <1>5, <2>1, KeysAssumption DEF Entering
  <2>3. Hears(v, Joineds(x)) BY <1>5, <2>2 DEF Entering, Hears
  <2> QED BY <1>2, <2>2, <2>3, Kinds, Subsets
<1> QED BY <1>3, <1>4, <1>5 DEF ServerActs

LEMMA ServerKeepsBoth ==
    ASSUME Typed, NEW x \in Users, ServerActs(x), NEW u \in Users, NEW v \in Users,
           NEW r \in Rooms, Both(u, v, r), Both(v, u, r)
    PROVE  Both(u, v, r)'
<1> SUFFICES ASSUME u # v, Still(u)', Still(v)' PROVE Both(u, v, r)' BY DEF Both
<1>1. \A y \in Users : y # x => toServer'[y] = toServer[y] /\ chan'[y] = chan[y]
  BY DEF ServerActs
<1>2. r # Nowhere BY Places, KeysAssumption
<1>3. ASSUME NEW y \in Users, Still(y)', ~Leaving(x) \/ y # x PROVE Still(y)
  <2>1. CASE y = x
    BY <1>3, <2>1, ServerTakes, GaveOne DEF Still, Entering, Relaying, ServerActs
  <2>2. CASE y # x BY <1>1, <1>3, <2>2 DEF Still
  <2> QED BY <2>1, <2>2
<1>4. ASSUME chan'[u] = r, chan'[v] = r PROVE Deal(u, v, r)' \/ Deal(v, u, r)'
  <2>1. ASSUME chan[u] = r, chan[v] = r, Still(u), Still(v),
               NEW A \in SUBSET ToClient, NEW B \in SUBSET ToClient, Hears(u, A), Hears(v, B),
               A \cap Forgetting(v) = {}, B \cap Forgetting(u) = {}
        PROVE  Deal(u, v, r)' \/ Deal(v, u, r)'
    <3>1. Deal(u, v, r) \/ Deal(v, u, r) BY <2>1 DEF Both
    <3>2. Deal(u, v, r) => Deal(u, v, r)' BY <2>1, ServerKeepsDeal
    <3>3. Deal(v, u, r) => Deal(v, u, r)' BY <2>1, ServerKeepsDeal
    <3> QED BY <3>1, <3>2, <3>3
  <2>2. CASE Relaying(x)
    <3>1. chan[u] = r /\ chan[v] = r /\ Still(u) /\ Still(v)
      BY <1>1, <1>2, <1>3, <1>4, <2>2 DEF Relaying, Leaving
    <3>2. Hears(u, Relays(x, u)) /\ Hears(v, Relays(x, v)) BY <2>2 DEF Relaying
    <3> QED BY <2>1, <3>1, <3>2, Kinds, Subsets
  <2>3. CASE Leaving(x)
    <3>1. u # x /\ v # x BY <1>2, <1>4, <2>3 DEF Leaving
    <3>2. chan[u] = r /\ chan[v] = r /\ Still(u) /\ Still(v) BY <1>1, <1>3, <1>4, <3>1
    <3>3. Hears(u, Lefts(x)) /\ Hears(v, Lefts(x)) BY <2>3, <3>1 DEF Leaving, Hears
    <3> QED BY <2>1, <3>1, <3>2, <3>3, Kinds, Subsets
  <2>4. CASE Entering(x)
    <3>1. Still(u) /\ Still(v) BY <1>1, <2>4 DEF Still, Entering
    <3>2. CASE u = x
      <4>1. chan[v] = r BY <1>1, <1>4, <3>2
      <4> QED BY <2>4, <3>1, <3>2, <4>1, ServerLetsIn
    <3>3. CASE v = x
      <4>1. chan[u] = r BY <1>1, <1>4, <3>3
      <4> QED BY <2>4, <3>1, <3>3, <4>1, ServerLetsIn
    <3>4. CASE u # x /\ v # x
      <4>1. chan[u] = r /\ chan[v] = r BY <1>1, <1>4, <3>4
      <4>2. Hears(u, Joineds(x)) /\ Hears(v, Joineds(x)) BY <2>4, <3>4 DEF Entering, Hears
      <4> QED BY <2>1, <3>1, <4>1, <4>2, Kinds, Subsets
    <3> QED BY <3>2, <3>3, <3>4
  <2> QED BY <2>2, <2>3, <2>4 DEF ServerActs
<1>5. chan'[u] = Nowhere /\ chan'[v] = r => Deal(v, u, r)' \/ Asking(u, v)' \/ Untold(v, u)'
  BY ServerKeepsOnWay
<1>6. ASSUME chan'[u] = Nowhere, chan'[v] = Nowhere PROVE Untold(u, v)' \/ Untold(v, u)'
  <2>1. CASE Leaving(x) /\ (u = x \/ v = x)
    <3>1. ~Entering(x) BY <2>1 DEF Leaving, Entering
    <3> QED BY <1>6, <2>1, <3>1, ServerKeepsUntold
  <2>2. CASE ~(Leaving(x) /\ (u = x \/ v = x))
    <3>1. u # x /\ v # x
      <4>1. entering[x] \in Channels BY DEF Typed, ServerTyped
      <4> QED BY <1>6, <2>2, <4>1, KeysAssumption DEF ServerActs, Relaying, Entering
    <3>2. Untold(u, v) \/ Untold(v, u) BY <1>1, <1>3, <1>6, <3>1 DEF Both
    <3> QED BY <1>6, <3>2, ServerKeepsUntold
  <2> QED BY <2>1, <2>2
<1> QED BY <1>4, <1>5, <1>6 DEF Both

LEMMA ServerKeepsPairs ==
    ASSUME Typed, PairInv, NEW x \in Users, ServerActs(x)
    PROVE  PairInv'
<1>1. ASSUME NEW v \in Users, NEW u \in Users, NEW r \in Rooms
      PROVE  Given(v, r, u)' /\ Answer(v, u, r)' /\ Both(v, u, r)'
  <2>1. Given(v, r, u) /\ Answer(v, u, r) /\ Both(v, u, r) /\ Both(u, v, r) BY DEF PairInv
  <2> QED BY <2>1, ServerKeepsGiven, ServerKeepsAnswer, ServerKeepsBoth
<1>2. \A v \in Users : Agrees(v)' BY ServerAgrees DEF PairInv
<1> QED BY <1>1, <1>2 DEF PairInv

\* What there is to show of a step of the server that moves nobody.
LEMMA RelayActs ==
    ASSUME Typed, NEW x \in Users, NEW type, Serving(x, type), type # "join",
           UNCHANGED <<server, signal, waiting, late>>, wasted \subseteq wasted',
           NEW vs, NEW m \in ToClient, Tell(vs, m) \/ UNCHANGED toClient,
           \A w \in vs : m \in Relays(x, w),
           \A u \in Users : type = "bundle_please" /\ Head(toServer[x]).user = u =>
              Tell(vs, m) /\ x \in vs /\ m \in Bundles(u),
           \A r \in Rooms, u \in Users : type = "key" /\ IsKey(Head(toServer[x]), r, u) =>
              \/ chan[u] = r /\ Tell(vs, m) /\ u \in vs /\ m \in KeysOf(r, x)
              \/ <<r, x, u>> \in wasted'
    PROVE  ServerActs(x)
<1>1. /\ toServer[x] # <<>> /\ toServer'[x] = Tail(toServer[x])
      /\ Head(toServer[x]) \in ToServer /\ Head(toServer[x]).type = type
      /\ \A y \in Users : y # x => toServer'[y] = toServer[y]
      /\ chan[x] # Nowhere
  BY ServedIs DEF Typed
<1>2. ASSUME NEW w \in Users
      PROVE  /\ Tell(vs, m) /\ w \in vs => toClient'[w] = Append(toClient[w], m)
             /\ toClient'[w] = toClient[w] \/ (w \in vs /\ toClient'[w] = Append(toClient[w], m))
  <2>1. QueuesTyped BY DEF Typed
  <2>2. Tell(vs, m) => toClient'[w] = IF w \in vs THEN Append(toClient[w], m) ELSE toClient[w]
    BY <2>1, Tells, Zenon
  <2> QED BY <2>2
<1>3. Gave(x, ToServer \ Moves) BY <1>1 DEF Gave, Moves
<1>4. \A w \in Users : Hears(w, Relays(x, w)) BY <1>2 DEF Hears, Gets
<1>5. ASSUME NEW u \in Users, Gave(x, Requests(u)) PROVE Gets(x, Bundles(u))
  <2>1. type = "bundle_please" /\ Head(toServer[x]).user = u BY <1>1, <1>5 DEF Gave, Requests
  <2> QED BY <1>2, <2>1 DEF Gets
<1>6. ASSUME NEW r \in Rooms, NEW u \in Users, Gave(x, KeysTo(r, u))
      PROVE  (chan[u] = r /\ Gets(u, KeysOf(r, x))) \/ <<r, x, u>> \in wasted'
  <2>1. type = "key" /\ IsKey(Head(toServer[x]), r, u) BY <1>1, <1>6 DEF Gave, KeysTo, IsKey
  <2> QED BY <1>2, <2>1 DEF Gets
<1>7. chan' = chan /\ entering' = entering BY DEF server
<1>8. Relaying(x) BY <1>1, <1>3, <1>4, <1>5, <1>6, <1>7 DEF Relaying
<1> QED BY <1>1, <1>7, <1>8 DEF ServerActs, signal

LEMMA ServerStepActs == ASSUME Typed, NEW x \in Users, ServerStep(x) PROVE ServerActs(x)
<1> DEFINE m == Head(toServer[x])
<1>1. CASE ServerLeaves(x)
  <2>1. /\ Serving(x, "join") /\ chan' = [chan EXCEPT ![x] = Nowhere]
        /\ entering' = [entering EXCEPT ![x] = m.ch] /\ Tell(Others(x), UserLeft(x))
        /\ UNCHANGED <<signal, waiting, late, wasted>>
    BY <1>1 DEF ServerLeaves, history
  <2>2. /\ toServer[x] # <<>> /\ toServer'[x] = Tail(toServer[x])
        /\ m \in ToServer /\ m.type = "join"
        /\ \A y \in Users : y # x => toServer'[y] = toServer[y]
        /\ chan[x] # Nowhere
    BY <2>1, ServedIs DEF Typed
  <2>3. UserLeft(x) \in ToClient /\ UserLeft(x) \in Lefts(x) BY Constructors DEF Lefts, UserLeft
  <2>4. \A w \in Users : toClient'[w] = IF w \in Others(x) THEN Append(toClient[w], UserLeft(x))
                                        ELSE toClient[w]
    BY <2>1, <2>3, Tells DEF Typed
  <2>5. /\ chan'[x] = Nowhere /\ entering'[x] = m.ch
        /\ \A y \in Users : y # x => chan'[y] = chan[y] /\ entering'[y] = entering[y]
    BY <2>1 DEF Typed, ServerTyped
  <2>6. Gave(x, MovesTo(entering'[x])) BY <2>2, <2>5 DEF Gave, MovesTo, Moves
  <2>7. Leaving(x) BY <2>2, <2>3, <2>4, <2>5, <2>6 DEF Leaving, Gets, Others
  <2> QED BY <2>1, <2>2, <2>5, <2>7 DEF ServerActs, signal
<1>2. CASE ServerEnters(x)
  <2> DEFINE here == {w \in Users : chan'[w] = entering[x]}
  <2>1. /\ chan[x] = Nowhere /\ chan' = [chan EXCEPT ![x] = entering[x]]
        /\ toClient' = [v \in Users |-> Append(toClient[v],
                           IF v = x THEN UserList(entering[x], here) ELSE UserJoined(x))]
        /\ UNCHANGED <<entering, toServer, signal, waiting, late, wasted>>
    BY <1>2 DEF ServerEnters, Told, history
  <2>2. /\ chan'[x] = entering[x] /\ entering[x] \in Channels
        /\ \A y \in Users : y # x => chan'[y] = chan[y]
    BY <2>1 DEF Typed, ServerTyped
  <2>3. UserJoined(x) \in Joineds(x) BY Constructors DEF Joineds, UserJoined
  <2>4. UserList(entering[x], here) \in Entered(x, entering[x])
    <3>1. \A w \in here : w = x \/ chan[w] # Nowhere BY <2>2, KeysAssumption
    <3>2. UserList(entering[x], here) \in ToClient BY <2>2, Constructors
    <3> HIDE DEF here
    <3> QED BY <3>1, <3>2 DEF Entered, ListsOf, Lists, UserList
  <2> HIDE DEF here
  <2>5. Gets(x, Entered(x, entering[x])) /\ \A w \in Users : w # x => Gets(w, Joineds(x))
    BY <2>1, <2>3, <2>4 DEF Gets
  <2>6. Entering(x) BY <2>1, <2>2, <2>5 DEF Entering
  <2> QED BY <2>1, <2>2, <2>6 DEF ServerActs, signal
<1>3. CASE ServerBundle(x)
  <2>1. /\ Serving(x, "bundle_please") /\ Tell({x}, Bundle(m.user))
        /\ UNCHANGED <<server, signal, waiting, late, wasted>>
    BY <1>3 DEF ServerBundle, history
  <2>2. m.user \in Users BY <2>1, ServedTyped
  <2>3. /\ Bundle(m.user) \in ToClient /\ Bundle(m.user) \in Bundles(m.user)
        /\ Bundle(m.user) \in Relays(x, x)
    BY <2>2, Constructors DEF Bundles, Relays, Bundle
  <2>4. /\ \A w \in {x} : Bundle(m.user) \in Relays(x, w)
        /\ \A u \in Users : m.user = u => x \in {x} /\ Bundle(m.user) \in Bundles(u)
    BY <2>3
  <2> QED BY <2>1, <2>3, <2>4, RelayActs
<1>4. CASE ServerKey(x)
  <2> DEFINE k == KeyReceived(m.ch, x, m.prekey)
  <2>1. /\ Serving(x, "key") /\ UNCHANGED <<server, signal, waiting, late>>
        /\ \/ chan[m.user] = m.ch /\ Tell({m.user}, k) /\ wasted' = wasted
           \/ UNCHANGED toClient /\ wasted' = wasted \cup {<<m.ch, x, m.user>>}
    BY <1>4 DEF ServerKey
  <2>2. m.user \in Users /\ m.ch \in Rooms /\ m.prekey \in BOOLEAN BY <2>1, ServedTyped
  <2>3. k \in ToClient BY <2>2, Constructors
  <2>4. k \in KeysOf(m.ch, x) /\ \A w : k \in Relays(x, w)
    BY <2>3 DEF KeysOf, Relays, KeyReceived, IsKey
  <2> HIDE DEF k
  <2>5. ASSUME NEW r \in Rooms, NEW u \in Users, IsKey(m, r, u)
        PROVE  \/ chan[u] = r /\ Tell({m.user}, k) /\ u \in {m.user} /\ k \in KeysOf(r, x)
               \/ <<r, x, u>> \in wasted'
    <3>1. r = m.ch /\ u = m.user BY <2>5 DEF IsKey
    <3> QED BY <2>1, <2>4, <3>1
  <2>6. wasted \subseteq wasted' /\ (Tell({m.user}, k) \/ UNCHANGED toClient) BY <2>1
  <2> QED BY <2>1, <2>3, <2>4, <2>5, <2>6, RelayActs
<1>5. CASE ServerChat(x)
  <2> DEFINE c == ChatReceived(x, m)
  <2> DEFINE vs == {v \in Others(x) : chan[v] = chan[x]}
  <2>1. /\ Serving(x, "chat")
        /\ Tell(vs, c) \/ UNCHANGED toClient
        /\ UNCHANGED <<server, signal, waiting, late, wasted>>
    BY <1>5 DEF ServerChat, history
  <2>2. m \in ToServer /\ m.type = "chat" BY <2>1, ServedTyped
  <2>3. c \in ToClient BY <2>2, ChatGoesOn
  <2>4. c.type = "chat" BY DEF ChatReceived
  <2> HIDE DEF c, vs
  <2>5. \A w \in vs : c \in Relays(x, w) BY <2>3, <2>4 DEF Relays
  <2> QED BY <2>1, <2>3, <2>5, RelayActs
<1>6. CASE ServerDirect(x)
  <2> DEFINE d == DirectReceived(x, m.prekey)
  <2>1. /\ Serving(x, "direct") /\ Tell({m.user, x}, d)
        /\ UNCHANGED <<server, signal, waiting, late, wasted>>
    BY <1>6 DEF ServerDirect, history
  <2>2. m.prekey \in BOOLEAN BY <2>1, ServedTyped
  <2>3. d \in ToClient BY <2>2, Constructors
  <2>4. d.type = "direct" /\ d.user = x BY DEF DirectReceived
  <2> HIDE DEF d
  <2>5. \A w \in {m.user, x} : d \in Relays(x, w) BY <2>3, <2>4 DEF Relays
  <2> QED BY <2>1, <2>3, <2>5, RelayActs
<1> QED BY <1>1, <1>2, <1>3, <1>4, <1>5, <1>6 DEF ServerStep

----------------------------------------------------------------------------
(* What each step of a client does.                                        *)

\* What the others have of SignalState, and what is counted of theirs.
Alone(x) ==
    /\ UNCHANGED <<chan, entering>>
    /\ \A y \in Users : y # x =>
         /\ channel'[y] = channel[y] /\ established'[y] = established[y]
         /\ pending'[y] = pending[y] /\ distributed'[y] = distributed[y]
         /\ waiting'[y] = waiting[y]
         /\ \A r \in Rooms, w \in Users : <<r, y, w>> \in wasted => <<r, y, w>> \in wasted'
    /\ \A y \in Users : holds[y] \subseteq holds'[y]
    /\ late \subseteq late'

\* A user who does not move, and reads nothing.
LEMMA QuietActs ==
    ASSUME Typed, NEW x \in Users, NEW ms \in Seq(ToServer), Post(x, ms), ~Some(ms, Moves),
           UNCHANGED <<server, toClient, signal, wasted>>, late \subseteq late',
           \A y \in Users : y # x => waiting'[y] = waiting[y], QueuesLate(x)
    PROVE  ClientActs(x, ms)
<1>1. /\ toServer'[x] = toServer[x] \o ms
      /\ \A y \in Users : y # x => toServer'[y] = toServer[y]
  BY Posted DEF Typed
<1>2. \A S : ~Took(x, S) BY TookIs
<1>3. \A r : ~After(ms, MovesTo(r), Moves)
  <2>1. ASSUME NEW r, After(ms, MovesTo(r), Moves) PROVE FALSE BY <2>1 DEF After, Some, MovesTo
  <2> QED BY <2>1
<1>4. Elsewhere(x) BY <1>1 DEF Elsewhere, server, signal
<1>5. Distributes(x, ms) BY <1>2, <1>3 DEF Distributes, signal
<1>6. Follows(x, ms) BY <1>2 DEF Follows, Known, signal
<1> QED BY <1>1, <1>4, <1>5, <1>6 DEF ClientActs

\* What there is to show of a reader, by the message h it takes.
ReaderDoes(x, ms, type, h) ==
    /\ Post(x, ms) /\ ~Some(ms, Moves)
    /\ Reading(x, type) /\ h = Head(toClient[x])
    /\ Alone(x)
    /\ \A m \in waiting'[x] : m \in waiting[x]
    /\ \A r \in Rooms, w \in Users : w \in distributed'[x][r] =>
         \/ After(ms, KeysTo(r, w), Moves)
         \/ /\ w \in distributed[x][r] /\ ~(type = "left" /\ h.user = w)
            /\ <<r, x, w>> \in wasted => <<r, x, w>> \in wasted'
    /\ \A r \in Rooms, w \in Users : w \in distributed[x][r] =>
         \/ w \in distributed'[x][r]
         \/ type = "user_list" \/ (type = "left" /\ h.user = w)
    /\ type = "key" => /\ h.user \in distributed'[x][h.ch] /\ <<h.ch, h.user>> \in holds'[x]
                       /\ \A m \in waiting'[x] : m.for # h.ch
    /\ type = "bundle" /\ channel[x] \in Rooms => h.user \in distributed'[x][channel[x]]
    /\ channel'[x] = IF type = "user_list" THEN h.ch ELSE channel[x]
    /\ \A w \in Users : w # x /\ type = "joined" /\ h.user = w /\ w \notin Known(x) =>
         Some(ms, Requests(w))
    /\ \A w \in Users : w # x =>
         \/ w \notin established'[x] \cup pending'[x]
         \/ /\ ~(type = "left" /\ h.user = w)
            /\ \/ w \in Known(x)
               \/ type \in {"joined", "bundle", "key", "direct"} /\ h.user = w
               \/ type = "user_list" /\ w \in h.users

LEMMA ReaderActs ==
    ASSUME Typed, NEW x \in Users, NEW ms \in Seq(ToServer), NEW type, NEW h,
           ReaderDoes(x, ms, type, h)
    PROVE  ClientActs(x, ms)
<1>0. Post(x, ms) /\ ~Some(ms, Moves) /\ Reading(x, type) /\ h = Head(toClient[x]) /\ Alone(x)
  BY DEF ReaderDoes
<1>1. /\ toServer'[x] = toServer[x] \o ms
      /\ \A y \in Users : y # x => toServer'[y] = toServer[y]
  BY <1>0, Posted DEF Typed
<1>2. /\ toClient[x] # <<>> /\ toClient'[x] = Tail(toClient[x])
      /\ h \in ToClient /\ h.type = type
      /\ \A y \in Users : y # x => toClient'[y] = toClient[y]
  BY <1>0, Read DEF Typed
<1>3. \A S : Took(x, S) <=> h \in S BY <1>0, <1>2 DEF Took
<1>4. \A r : ~After(ms, MovesTo(r), Moves)
  <2>1. ASSUME NEW r, After(ms, MovesTo(r), Moves) PROVE FALSE
    BY <1>0, <2>1 DEF After, Some, MovesTo
  <2> QED BY <2>1
<1>5. /\ \A w : h \in Lefts(w) <=> type = "left" /\ h.user = w
      /\ h \in Lists <=> type = "user_list"
      /\ \A ch : h \in ListsOf(ch) <=> type = "user_list" /\ h.ch = ch
      /\ \A w : h \in Joineds(w) <=> type = "joined" /\ h.user = w
      /\ \A w : h \in Bundles(w) <=> type = "bundle" /\ h.user = w
      /\ \A r, w : h \in KeysOf(r, w) <=> type = "key" /\ h.ch = r /\ h.user = w
      /\ \A w : h \in Brings(w) <=>
           \/ type \in {"joined", "bundle", "key", "direct"} /\ h.user = w
           \/ type = "user_list" /\ w \in h.users
  BY <1>2 DEF Lefts, Lists, ListsOf, Joineds, Bundles, KeysOf, IsKey, Brings
<1>6. \A w : h \in Forgetting(w) <=> type = "user_list" \/ (type = "left" /\ h.user = w)
  BY <1>5 DEF Forgetting
<1>7. Elsewhere(x) BY <1>0, <1>1, <1>2 DEF Elsewhere, Alone
<1>8. Distributes(x, ms)
  <2>1. \A r \in Rooms, w \in Users : w \in distributed'[x][r] =>
          \/ After(ms, KeysTo(r, w), Moves)
          \/ /\ w \in distributed[x][r] /\ ~Took(x, Lefts(w))
             /\ <<r, x, w>> \in wasted => <<r, x, w>> \in wasted'
    BY <1>3, <1>5 DEF ReaderDoes
  <2>2. \A r \in Rooms, w \in Users : w \in distributed[x][r] =>
          w \in distributed'[x][r] \/ Some(ms, Moves) \/ Took(x, Forgetting(w))
    BY <1>0, <1>3, <1>6 DEF ReaderDoes
  <2>3. \A r \in Rooms, w \in Users : Took(x, KeysOf(r, w)) =>
          /\ w \in distributed'[x][r] /\ <<r, w>> \in holds'[x]
          /\ \A m \in waiting'[x] : m.for # r
    BY <1>3, <1>5 DEF ReaderDoes
  <2>4. \A w \in Users : Took(x, Bundles(w)) /\ channel[x] \in Rooms =>
          w \in distributed'[x][channel[x]]
    BY <1>3, <1>5 DEF ReaderDoes
  <2> QED BY <1>4, <2>1, <2>2, <2>3, <2>4 DEF Distributes
<1>9. Follows(x, ms)
  <2>1. \A ch \in Channels : Took(x, ListsOf(ch)) => channel'[x] = ch BY <1>3, <1>5 DEF ReaderDoes
  <2>2. ~Took(x, Lists) => channel'[x] = channel[x] BY <1>3, <1>5 DEF ReaderDoes
  <2>3. ASSUME NEW w \in Users, w # x
        PROVE  /\ Took(x, Joineds(w)) /\ w \notin Known(x) => Some(ms, Requests(w))
               /\ \/ Took(x, Lefts(w))
                  \/ w \notin Known(x) /\ ~Took(x, Brings(w))
                  => w \notin established'[x] \cup pending'[x]
    BY <1>3, <1>5, <2>3 DEF ReaderDoes
  <2> QED BY <2>1, <2>2, <2>3 DEF Follows
<1>10. QueuesLate(x) BY DEF QueuesLate, ReaderDoes
<1> QED BY <1>1, <1>2, <1>7, <1>8, <1>9, <1>10 DEF ClientActs

\* What is forgotten, and what is not.
LEMMA ForgetsOne ==
    ASSUME Typed, NEW u \in Users, NEW ch \in Channels, Forget(u, ch)
    PROVE  /\ \A y \in Users : y # u => distributed'[y] = distributed[y]
           /\ \A r \in Rooms : distributed'[u][r] = IF r = ch THEN {} ELSE distributed[u][r]
           /\ \A r \in Rooms, y, w \in Users :
                <<r, y, w>> \in wasted /\ (y # u \/ r # ch) => <<r, y, w>> \in wasted'
<1>1. CASE ch \in Rooms
  <2>1. /\ distributed' = [distributed EXCEPT ![u][ch] = {}]
        /\ wasted' = {w \in wasted : <<w[1], w[2]>> # <<ch, u>>}
    BY <1>1 DEF Forget
  <2>2. ASSUME NEW r \in Rooms, NEW y \in Users, NEW w \in Users, <<r, y, w>> \in wasted,
               y # u \/ r # ch
        PROVE  <<r, y, w>> \in wasted'
    BY <2>1, <2>2
  <2> QED BY <1>1, <2>1, <2>2 DEF Typed, SignalTyped
<1>2. CASE ch \notin Rooms BY <1>2 DEF Forget, Typed, SignalTyped
<1> QED BY <1>1, <1>2

LEMMA JoinActs ==
    ASSUME Typed, NEW x \in Users, NEW ch \in Channels, Join(x, ch)
    PROVE  ClientActs(x, <<RequestJoin(ch)>>)
<1> DEFINE m == RequestJoin(ch)
<1>1. /\ Post(x, <<m>>) /\ Forget(x, ch) /\ channel' = [channel EXCEPT ![x] = ch]
      /\ UNCHANGED <<server, toClient, established, pending, holds, waiting, late>>
  BY DEF Join
<1>2. m \in Moves /\ \A r : m \in MovesTo(r) => r = ch
  BY Constructors DEF Moves, MovesTo, RequestJoin
<1>3. m \in ToServer /\ <<m>> \in Seq(ToServer) BY Constructors, Single
<1> HIDE DEF m
<1>4. /\ toServer'[x] = toServer[x] \o <<m>>
      /\ \A y \in Users : y # x => toServer'[y] = toServer[y]
  BY <1>1, <1>3, Posted DEF Typed
<1>5. \A S : ~Took(x, S) BY <1>1, TookIs
<1>6. Some(<<m>>, Moves) /\ \A r : After(<<m>>, MovesTo(r), Moves) => r = ch
  BY <1>2, InOne
<1>7. /\ \A y \in Users : y # x => distributed'[y] = distributed[y]
      /\ \A r \in Rooms : distributed'[x][r] = IF r = ch THEN {} ELSE distributed[x][r]
      /\ \A r \in Rooms, y, w \in Users :
           <<r, y, w>> \in wasted /\ (y # x \/ r # ch) => <<r, y, w>> \in wasted'
  BY <1>1, ForgetsOne
<1>8. Elsewhere(x) BY <1>1, <1>4, <1>7 DEF Elsewhere, server, Typed, SignalTyped
<1>9. Distributes(x, <<m>>) BY <1>5, <1>6, <1>7 DEF Distributes
<1>10. Follows(x, <<m>>) BY <1>1, <1>5, <1>6 DEF Follows, Known
<1>11. QueuesLate(x) BY <1>1 DEF QueuesLate
<1> QED BY <1>1, <1>3, <1>4, <1>8, <1>9, <1>10, <1>11 DEF ClientActs, m

LEMMA AsksActs ==
    ASSUME Typed, NEW u \in Users, NEW vs \in SUBSET Users, Ask(u, vs)
    PROVE  /\ \E ms \in Seq(ToServer) :
                /\ Post(u, ms) /\ ~Some(ms, Moves)
                /\ \A v \in Unknown(u, vs) : Some(ms, Requests(v))
           /\ pending' = [pending EXCEPT ![u] = @ \cup Unknown(u, vs)]
           /\ Unknown(u, vs) \subseteq Users
<1>1. PICK ms \in Seq(ToServer) :
        /\ Post(u, ms)
        /\ \A i \in 1..Len(ms) : \E v \in Unknown(u, vs) : ms[i] = RequestBundle(v)
        /\ \A v \in Unknown(u, vs) : \E i \in 1..Len(ms) : ms[i] = RequestBundle(v)
  BY Asks DEF Typed
<1>2. Unknown(u, vs) \subseteq Users BY Asks DEF Typed
<1>3. \A v : RequestBundle(v) \notin Moves BY DEF Moves, RequestBundle
<1>4. \A v \in Users : RequestBundle(v) \in Requests(v)
  <2>1. \A v \in Users : RequestBundle(v) \in ToServer BY Constructors
  <2>2. \A v : RequestBundle(v).type = "bundle_please" /\ RequestBundle(v).user = v
    BY DEF RequestBundle
  <2> QED BY <2>1, <2>2 DEF Requests
<1>5. ~Some(ms, Moves) BY <1>1, <1>3 DEF Some
<1>6. ASSUME NEW v \in Unknown(u, vs) PROVE Some(ms, Requests(v))
  <2>1. PICK i \in 1..Len(ms) : ms[i] = RequestBundle(v) BY <1>1
  <2> QED BY <1>2, <1>4, <2>1 DEF Some
<1> QED BY <1>1, <1>2, <1>5, <1>6, Asks DEF Typed

LEMMA ListActs ==
    ASSUME Typed, NEW x \in Users, ReadUserList(x)
    PROVE  \E ms : ClientActs(x, ms)
<1> DEFINE h == Head(toClient[x])
<1>1. /\ Reading(x, "user_list") /\ channel' = [channel EXCEPT ![x] = h.ch]
      /\ Forget(x, IF h.ch # channel[x] THEN h.ch ELSE Lobby) /\ Ask(x, h.users)
      /\ UNCHANGED <<server, established, holds, waiting, late>>
  BY DEF ReadUserList
<1>2. h \in ToClient /\ h.type = "user_list" BY <1>1, Read DEF Typed
<1>3. h.ch \in Channels /\ h.users \in SUBSET Users BY <1>2, Fields
<1> DEFINE ch == IF h.ch # channel[x] THEN h.ch ELSE Lobby
<1>4. ch \in Channels BY <1>3, Places
<1>5. Forget(x, ch) BY <1>1
<1> HIDE DEF ch, h
<1>6. PICK ms \in Seq(ToServer) : Post(x, ms) /\ ~Some(ms, Moves) BY <1>1, <1>3, AsksActs
<1>7. pending' = [pending EXCEPT ![x] = @ \cup Unknown(x, h.users)] BY <1>1, <1>3, AsksActs
<1>8. /\ \A y \in Users : y # x => distributed'[y] = distributed[y]
      /\ \A r \in Rooms : distributed'[x][r] = IF r = ch THEN {} ELSE distributed[x][r]
      /\ \A r \in Rooms, y, w \in Users :
           <<r, y, w>> \in wasted /\ (y # x \/ r # ch) => <<r, y, w>> \in wasted'
  BY <1>4, <1>5, ForgetsOne
<1>9. Alone(x) BY <1>1, <1>7, <1>8 DEF Alone, server, Typed, SignalTyped
<1>10. ASSUME NEW w \in Users
       PROVE  w \notin established'[x] \cup pending'[x] \/ w \in Known(x) \/ w \in h.users
  BY <1>1, <1>7 DEF Known, Unknown, Typed, SignalTyped
<1>11. \A r \in Rooms, w \in Users : w \in distributed'[x][r] =>
         w \in distributed[x][r] /\ (<<r, x, w>> \in wasted => <<r, x, w>> \in wasted')
  BY <1>8
<1>12. channel'[x] = h.ch BY <1>1 DEF Typed, SignalTyped
<1>13. h = Head(toClient[x]) BY DEF h
<1>14. \A m \in waiting'[x] : m \in waiting[x] BY <1>1
<1>15. ReaderDoes(x, ms, "user_list", h)
  BY <1>1, <1>6, <1>9, <1>10, <1>11, <1>12, <1>13, <1>14 DEF ReaderDoes
<1> QED BY <1>15, ReaderActs

LEMMA JoinedActs ==
    ASSUME Typed, NEW x \in Users, ReadUserJoined(x)
    PROVE  \E ms : ClientActs(x, ms)
<1> DEFINE h == Head(toClient[x])
<1>1. /\ Reading(x, "joined") /\ Ask(x, {h.user})
      /\ UNCHANGED <<server, channel, established, distributed, holds, waiting, wasted, late>>
  BY DEF ReadUserJoined, history
<1>2. h \in ToClient /\ h.type = "joined" BY <1>1, Read DEF Typed
<1>3. h.user \in Users /\ {h.user} \in SUBSET Users BY <1>2, Fields
<1>4. PICK ms \in Seq(ToServer) : /\ Post(x, ms) /\ ~Some(ms, Moves)
                                  /\ \A v \in Unknown(x, {h.user}) : Some(ms, Requests(v))
  BY <1>1, <1>3, AsksActs
<1>5. pending' = [pending EXCEPT ![x] = @ \cup Unknown(x, {h.user})] BY <1>1, <1>3, AsksActs
<1> HIDE DEF h
<1>6. h = Head(toClient[x]) BY DEF h
<1>7. Alone(x) BY <1>1, <1>5 DEF Alone, server, Typed, SignalTyped
<1>8. \A w \in Users : w # x /\ h.user = w /\ w \notin Known(x) => Some(ms, Requests(w))
  BY <1>4 DEF Unknown, Known
<1>9. \A w \in Users : w \notin established'[x] \cup pending'[x] \/ w \in Known(x) \/ h.user = w
  BY <1>1, <1>5 DEF Known, Unknown, Typed, SignalTyped
<1>10. channel'[x] = channel[x] /\ \A m \in waiting'[x] : m \in waiting[x] BY <1>1
<1>11. /\ \A r \in Rooms, w \in Users : w \in distributed'[x][r] =>
            w \in distributed[x][r] /\ (<<r, x, w>> \in wasted => <<r, x, w>> \in wasted')
       /\ \A r \in Rooms, w \in Users : w \in distributed[x][r] => w \in distributed'[x][r]
  BY <1>1
<1>12. ReaderDoes(x, ms, "joined", h)
  BY <1>1, <1>4, <1>6, <1>7, <1>8, <1>9, <1>10, <1>11 DEF ReaderDoes
<1> QED BY <1>12, ReaderActs

LEMMA LeftActs ==
    ASSUME Typed, NEW x \in Users, ReadUserLeft(x)
    PROVE  ClientActs(x, <<>>)
<1> DEFINE h == Head(toClient[x])
<1> DEFINE v == h.user
<1>1. /\ Reading(x, "left")
      /\ established' = [established EXCEPT ![x] = @ \ {v}]
      /\ pending' = [pending EXCEPT ![x] = @ \ {v}]
      /\ distributed' = [distributed EXCEPT ![x] = [r \in Rooms |-> @[r] \ {v}]]
      /\ wasted' = {w \in wasted : <<w[2], w[3]>> # <<x, v>>}
      /\ UNCHANGED <<server, toServer, channel, holds, waiting, late>>
  BY DEF ReadUserLeft
<1>2. h \in ToClient /\ h.type = "left" BY <1>1, Read DEF Typed
<1>3. v \in Users BY <1>2, Fields
<1>4. <<>> \in Seq(ToServer) /\ Post(x, <<>>) BY <1>1, NothingPosted
<1>5. ~Some(<<>>, Moves) BY InEmpty
<1>6. h = Head(toClient[x]) /\ v = h.user OBVIOUS
<1> HIDE DEF v
<1> HIDE DEF h
<1>7. /\ \A y \in Users : y # x => distributed'[y] = distributed[y]
      /\ \A r \in Rooms : distributed'[x][r] = distributed[x][r] \ {v}
  BY <1>1 DEF Typed, SignalTyped
<1>8. \A r \in Rooms, y, w \in Users : <<r, y, w>> \in wasted /\ (y # x \/ w # v) =>
         <<r, y, w>> \in wasted'
  <2>1. ASSUME NEW r \in Rooms, NEW y \in Users, NEW w \in Users, <<r, y, w>> \in wasted,
               y # x \/ w # v
        PROVE  <<r, y, w>> \in wasted'
    BY <1>1, <2>1
  <2> QED BY <2>1
<1>9. Alone(x) BY <1>1, <1>7, <1>8 DEF Alone, server, Typed, SignalTyped
<1>10. \A w \in Users : w \in established'[x] \cup pending'[x] => w \in Known(x) /\ w # v
  BY <1>1 DEF Known, Typed, SignalTyped
<1>11. \A r \in Rooms, w \in Users : w \in distributed'[x][r] =>
         w \in distributed[x][r] /\ w # v /\ (<<r, x, w>> \in wasted => <<r, x, w>> \in wasted')
  BY <1>7, <1>8
<1>12. \A r \in Rooms, w \in Users : w \in distributed[x][r] => w \in distributed'[x][r] \/ w = v
  BY <1>7
<1>13. channel'[x] = channel[x] /\ \A m \in waiting'[x] : m \in waiting[x] BY <1>1
<1>14. ReaderDoes(x, <<>>, "left", h)
  BY <1>1, <1>4, <1>5, <1>6, <1>9, <1>10, <1>11, <1>12, <1>13 DEF ReaderDoes
<1> QED BY <1>4, <1>14, ReaderActs

LEMMA ChatActs ==
    ASSUME Typed, NEW x \in Users, ReadChat(x)
    PROVE  ClientActs(x, <<>>)
<1> DEFINE h == Head(toClient[x])
<1>1. /\ Reading(x, "chat")
      /\ UNCHANGED <<server, toServer, signal, waiting, wasted, late>>
  BY DEF ReadChat
<1>2. <<>> \in Seq(ToServer) /\ Post(x, <<>>) BY <1>1, NothingPosted
<1>3. ~Some(<<>>, Moves) BY InEmpty
<1>4. h = Head(toClient[x]) OBVIOUS
<1> HIDE DEF h
<1>5. Alone(x) BY <1>1 DEF Alone, server, signal
<1>6. ReaderDoes(x, <<>>, "chat", h)
  BY <1>1, <1>2, <1>3, <1>4, <1>5 DEF ReaderDoes, signal, Known
<1> QED BY <1>2, <1>6, ReaderActs

LEMMA SessionActs ==
    ASSUME Typed, NEW x \in Users, NEW v \in Users, NEW p \in BOOLEAN, TakeSession(x, v, p)
    PROVE  /\ \A y \in Users : y # x => established'[y] = established[y] /\ pending'[y] = pending[y]
           /\ \A w \in Users : w \in established'[x] \cup pending'[x] => w \in Known(x) \/ w = v
           /\ late \subseteq late'
<1>1. CASE p = TRUE
  BY <1>1 DEF TakeSession, Typed, SignalTyped, Known
<1>2. CASE p = FALSE BY <1>2 DEF TakeSession, Known
<1> QED BY <1>1, <1>2

LEMMA DirectActs ==
    ASSUME Typed, NEW x \in Users, ReadDirect(x)
    PROVE  ClientActs(x, <<>>)
<1> DEFINE h == Head(toClient[x])
<1>1. /\ Reading(x, "direct")
      /\ h.user = x => UNCHANGED <<established, pending, late>>
      /\ h.user # x => TakeSession(x, h.user, h.prekey)
      /\ UNCHANGED <<server, toServer, channel, distributed, holds, waiting, wasted>>
  BY DEF ReadDirect
<1>2. h \in ToClient /\ h.type = "direct" BY <1>1, Read DEF Typed
<1>3. h.user \in Users /\ h.prekey \in BOOLEAN BY <1>2, Fields
<1>4. <<>> \in Seq(ToServer) /\ Post(x, <<>>) BY <1>1, NothingPosted
<1>5. ~Some(<<>>, Moves) BY InEmpty
<1>6. h = Head(toClient[x]) OBVIOUS
<1> HIDE DEF h
<1>7. /\ \A y \in Users : y # x => established'[y] = established[y] /\ pending'[y] = pending[y]
      /\ \A w \in Users : w \in established'[x] \cup pending'[x] => w \in Known(x) \/ w = h.user
      /\ late \subseteq late'
  <2>1. CASE h.user = x BY <1>1, <2>1 DEF Known
  <2>2. CASE h.user # x BY <1>1, <1>3, <2>2, SessionActs
  <2> QED BY <2>1, <2>2
<1>8. Alone(x) BY <1>1, <1>7 DEF Alone, server
<1>9. ReaderDoes(x, <<>>, "direct", h)
  BY <1>1, <1>4, <1>5, <1>6, <1>7, <1>8 DEF ReaderDoes
<1> QED BY <1>4, <1>9, ReaderActs


\* What is sent with a key.
LEMMA KeyGoes ==
    ASSUME Typed, NEW r \in Rooms, NEW v \in Users, NEW p \in BOOLEAN
    PROVE  SendKey(r, v, p) \in KeysTo(r, v) /\ SendKey(r, v, p) \notin Moves
<1>1. SendKey(r, v, p) \in ToServer BY Constructors
<1>2. SendKey(r, v, p).type = "key" /\ IsKey(SendKey(r, v, p), r, v) BY DEF SendKey, IsKey
<1> QED BY <1>1, <1>2 DEF KeysTo, Moves

LEMMA BundleMessages ==
    ASSUME Typed, NEW u \in Users, NEW v \in Users
    PROVE  LET ms == DirectDue(u, v) \o OurKey(u, v) IN
           /\ ms \in Seq(ToServer) /\ ~Some(ms, Moves)
           /\ channel[u] \in Rooms => After(ms, KeysTo(channel[u], v), Moves)
<1> DEFINE ds == DirectDue(u, v)
<1> DEFINE ks == OurKey(u, v)
<1>1. ds \in Seq(ToServer) /\ ks \in Seq(ToServer) /\ ds \o ks \in Seq(ToServer) BY BundleSends
<1>2. ~Some(ds, Moves)
  <2>1. SendDirect(v, TRUE) \notin Moves BY DEF SendDirect, Moves
  <2>2. Cardinality(Due(u, v)) \in Nat BY DueIs DEF Typed
  <2> DEFINE n == Cardinality(Due(u, v))
  <2> DEFINE d == SendDirect(v, TRUE)
  <2>3. ds = [i \in 1..n |-> d] BY DEF DirectDue
  <2> HIDE DEF ds, n, d
  <2>4. \A i \in 1..Len(ds) : ds[i] = d BY <2>2, <2>3 DEF n
  <2> QED BY <2>1, <2>4 DEF Some, d
<1>3. ~Some(ks, Moves) /\ (channel[u] \in Rooms => After(ks, KeysTo(channel[u], v), Moves))
  <2>1. CASE channel[u] \in Rooms
    <3> DEFINE k == SendKey(channel[u], v, TRUE)
    <3>1. k \in KeysTo(channel[u], v) /\ k \notin Moves BY <2>1, KeyGoes, Zenon
    <3>2. ks = <<k>> BY <2>1, Places, Zenon DEF OurKey
    <3> HIDE DEF k, ks
    <3> QED BY <3>1, <3>2, InOne
  <2>2. CASE channel[u] \notin Rooms
    <3>1. ks = <<>> BY <2>2, Places DEF OurKey, Typed, SignalTyped
    <3> QED BY <2>2, <3>1, InEmpty
  <2> QED BY <2>1, <2>2
<1> HIDE DEF ds, ks
<1>4. /\ Some(ds \o ks, Moves) <=> Some(ds, Moves) \/ Some(ks, Moves)
      /\ \A S : After(ds \o ks, S, Moves) <=> After(ks, S, Moves)
                                             \/ (After(ds, S, Moves) /\ ~Some(ks, Moves))
  BY <1>1, InConcat
<1> QED BY <1>1, <1>2, <1>3, <1>4 DEF ds, ks

LEMMA BundleActs ==
    ASSUME Typed, NEW x \in Users, ReadBundle(x)
    PROVE  \E ms : ClientActs(x, ms)
<1> DEFINE h == Head(toClient[x])
<1> DEFINE v == h.user
<1> DEFINE ms == DirectDue(x, v) \o OurKey(x, v)
<1>1. /\ Reading(x, "bundle") /\ v \in Users
      /\ established' = [established EXCEPT ![x] = @ \cup {v}]
      /\ pending' = [pending EXCEPT ![x] = @ \ {v}]
      /\ Drained(x, v) /\ Post(x, ms)
      /\ distributed' = IF channel[x] # Lobby
                        THEN [distributed EXCEPT ![x][channel[x]] = @ \cup {v}]
                        ELSE distributed
      /\ UNCHANGED <<server, channel, holds, wasted, late>>
  BY BundleFacts
<1>2. h \in ToClient /\ h.type = "bundle" BY <1>1, Read DEF Typed
<1>3. /\ ms \in Seq(ToServer) /\ ~Some(ms, Moves)
      /\ channel[x] \in Rooms => After(ms, KeysTo(channel[x], v), Moves)
  BY <1>1, BundleMessages
<1>4. h = Head(toClient[x]) /\ v = h.user OBVIOUS
<1> HIDE DEF ms
<1> HIDE DEF v
<1> HIDE DEF h
<1>5. /\ \A y \in Users : y # x => waiting'[y] = waiting[y]
      /\ \A m \in waiting'[x] : m \in waiting[x]
  BY <1>1 DEF Drained, Kept, Typed, WritingTyped
<1>6. /\ \A y \in Users : y # x => distributed'[y] = distributed[y]
      /\ \A r \in Rooms, w \in Users : w \in distributed'[x][r] =>
           w \in distributed[x][r] \/ (r = channel[x] /\ w = v)
      /\ \A r \in Rooms : distributed[x][r] \subseteq distributed'[x][r]
      /\ channel[x] \in Rooms => v \in distributed'[x][channel[x]]
  <2>1. CASE channel[x] \in Rooms
    <3>1. distributed' = [distributed EXCEPT ![x][channel[x]] = @ \cup {v}]
      BY <1>1, <2>1, Places
    <3> QED BY <2>1, <3>1 DEF Typed, SignalTyped
  <2>2. CASE channel[x] \notin Rooms
    <3>1. channel[x] = Lobby BY <2>2, Places DEF Typed, SignalTyped
    <3> QED BY <1>1, <2>2, <3>1
  <2> QED BY <2>1, <2>2
<1>7. Alone(x) BY <1>1, <1>5, <1>6 DEF Alone, server, Typed, SignalTyped
<1>8. \A w \in Users : w \in established'[x] \cup pending'[x] => w \in Known(x) \/ w = v
  BY <1>1 DEF Known, Typed, SignalTyped
<1>9. channel'[x] = channel[x] BY <1>1
<1>10. \A r \in Rooms, w \in Users : <<r, x, w>> \in wasted => <<r, x, w>> \in wasted' BY <1>1
<1>11. \A r \in Rooms, w \in Users : w \in distributed'[x][r] =>
         After(ms, KeysTo(r, w), Moves) \/ w \in distributed[x][r]
  BY <1>3, <1>6
<1>12. ReaderDoes(x, ms, "bundle", h)
  BY <1>1, <1>3, <1>4, <1>5, <1>6, <1>7, <1>8, <1>9, <1>10, <1>11 DEF ReaderDoes
<1> QED BY <1>3, <1>12, ReaderActs

LEMMA KeyMessages ==
    ASSUME Typed, NEW u \in Users, NEW v \in Users, NEW r \in Rooms,
           NEW due \in Queued(Due(u, r))
    PROVE  LET ms == InReturn(u, v, r) \o ChatsDue(u, v, r, due) IN
           /\ ms \in Seq(ToServer) /\ ~Some(ms, Moves)
           /\ v \notin distributed[u][r] => After(ms, KeysTo(r, v), Moves)
<1> DEFINE ks == InReturn(u, v, r)
<1> DEFINE cs == ChatsDue(u, v, r, due)
<1>1. ks \in Seq(ToServer) /\ cs \in Seq(ToServer) /\ ks \o cs \in Seq(ToServer) BY KeySends
<1>2. ~Some(cs, Moves)
  <2>1. \A i \in 1..Len(cs) : cs[i].type = "chat"
    <3>0. \A i \in 1..Len(ChatsDue(u, v, r, due)) :
            /\ due[i] \in Due(u, r)
            /\ ChatsDue(u, v, r, due)[i] = SendChat(r, due[i].id, distributed[u][r] \cup {v})
      BY KeySends
    <3>1. ASSUME NEW i \in 1..Len(cs) PROVE cs[i].type = "chat"
      <4>1. cs[i] = SendChat(r, due[i].id, distributed[u][r] \cup {v}) BY <3>0
      <4>2. SendChat(r, due[i].id, distributed[u][r] \cup {v}).type = "chat" BY DEF SendChat
      <4> HIDE DEF cs
      <4> QED BY <4>1, <4>2
    <3> QED BY <3>1
  <2> HIDE DEF cs
  <2> QED BY <2>1 DEF Some, Moves
<1>3. ~Some(ks, Moves) /\ (v \notin distributed[u][r] => After(ks, KeysTo(r, v), Moves))
  <2>1. CASE v \notin distributed[u][r]
    <3> DEFINE k == SendKey(r, v, FALSE)
    <3>1. k \in KeysTo(r, v) /\ k \notin Moves BY KeyGoes, Zenon
    <3>2. ks = <<k>> BY <2>1, Zenon DEF InReturn, Owed
    <3> HIDE DEF k, ks
    <3> QED BY <3>1, <3>2, InOne
  <2>2. CASE v \in distributed[u][r]
    <3>1. ks = <<>> BY <2>2 DEF InReturn, Owed
    <3> QED BY <2>2, <3>1, InEmpty
  <2> QED BY <2>1, <2>2
<1> HIDE DEF ks, cs
<1>4. /\ Some(ks \o cs, Moves) <=> Some(ks, Moves) \/ Some(cs, Moves)
      /\ \A S : After(ks \o cs, S, Moves) <=> After(cs, S, Moves)
                                             \/ (After(ks, S, Moves) /\ ~Some(cs, Moves))
  BY <1>1, InConcat
<1> QED BY <1>1, <1>2, <1>3, <1>4 DEF ks, cs

LEMMA KeyActs ==
    ASSUME Typed, NEW x \in Users, ReadKey(x)
    PROVE  \E ms : ClientActs(x, ms)
<1> DEFINE h == Head(toClient[x])
<1> DEFINE r == h.ch
<1> DEFINE v == h.user
<1>1. /\ Reading(x, "key") /\ r \in Rooms /\ v \in Users /\ h.prekey \in BOOLEAN
      /\ holds' = [holds EXCEPT ![x] = @ \cup {<<r, v>>}]
      /\ TakeSession(x, v, h.prekey)
      /\ distributed' = [distributed EXCEPT ![x][r] = @ \cup {v}]
      /\ \E due \in Queued(Due(x, r)) : Post(x, InReturn(x, v, r) \o ChatsDue(x, v, r, due))
      /\ Drained(x, r)
      /\ UNCHANGED <<server, channel, wasted>>
  BY KeyFacts
<1>2. h \in ToClient /\ h.type = "key" BY <1>1, Read DEF Typed
<1>3. h = Head(toClient[x]) /\ v = h.user /\ r = h.ch OBVIOUS
<1> HIDE DEF v
<1> HIDE DEF r
<1> HIDE DEF h
<1>4. PICK due \in Queued(Due(x, r)) : Post(x, InReturn(x, v, r) \o ChatsDue(x, v, r, due))
  BY <1>1
<1> DEFINE ms == InReturn(x, v, r) \o ChatsDue(x, v, r, due)
<1>5. /\ ms \in Seq(ToServer) /\ ~Some(ms, Moves) /\ Post(x, ms)
      /\ v \notin distributed[x][r] => After(ms, KeysTo(r, v), Moves)
  BY <1>1, <1>4, KeyMessages
<1> HIDE DEF ms
<1>6. /\ \A y \in Users : y # x => waiting'[y] = waiting[y]
      /\ \A m \in waiting'[x] : m \in waiting[x] /\ m.for # r
  BY <1>1 DEF Drained, Kept, Typed, WritingTyped
<1>7. /\ \A y \in Users : y # x => distributed'[y] = distributed[y]
      /\ \A s \in Rooms, w \in Users : w \in distributed'[x][s] =>
           w \in distributed[x][s] \/ (s = r /\ w = v)
      /\ \A s \in Rooms : distributed[x][s] \subseteq distributed'[x][s]
      /\ v \in distributed'[x][r]
  BY <1>1 DEF Typed, SignalTyped
<1>8. /\ \A y \in Users : holds[y] \subseteq holds'[y]
      /\ <<r, v>> \in holds'[x]
  BY <1>1 DEF Typed, SignalTyped
<1>9. /\ \A y \in Users : y # x => established'[y] = established[y] /\ pending'[y] = pending[y]
      /\ \A w \in Users : w \in established'[x] \cup pending'[x] => w \in Known(x) \/ w = v
      /\ late \subseteq late'
  BY <1>1, SessionActs
<1>10. Alone(x) BY <1>1, <1>6, <1>7, <1>8, <1>9 DEF Alone, server
<1>11. channel'[x] = channel[x] BY <1>1
<1>12. \A s \in Rooms, w \in Users : <<s, x, w>> \in wasted => <<s, x, w>> \in wasted' BY <1>1
<1>13. \A s \in Rooms, w \in Users : w \in distributed'[x][s] =>
         After(ms, KeysTo(s, w), Moves) \/ w \in distributed[x][s]
  BY <1>5, <1>7
<1>14. ReaderDoes(x, ms, "key", h)
  BY <1>1, <1>3, <1>5, <1>6, <1>7, <1>8, <1>9, <1>10, <1>11, <1>12, <1>13 DEF ReaderDoes
<1> QED BY <1>5, <1>14, ReaderActs


LEMMA BeginActs ==
    ASSUME Typed, NEW x \in Users, NEW target, BeginWriting(x, target)
    PROVE  ClientActs(x, <<>>)
<1>1. UNCHANGED <<server, toServer, toClient, signal, waiting, wasted, late>>
  BY DEF BeginWriting, history
<1>2. <<>> \in Seq(ToServer) /\ Post(x, <<>>) BY <1>1, NothingPosted
<1>3. ~Some(<<>>, Moves) BY InEmpty
<1>4. QueuesLate(x) BY <1>1 DEF QueuesLate
<1>5. \A y \in Users : y # x => waiting'[y] = waiting[y] BY <1>1
<1>6. late \subseteq late' BY <1>1
<1> QED BY <1>1, <1>2, <1>3, <1>4, <1>5, <1>6, QuietActs

LEMMA CheckActs ==
    ASSUME Typed, NEW x \in Users, CheckKeys(x)
    PROVE  \E ms : ClientActs(x, ms)
<1> DEFINE target == writer[x].for
<1> DEFINE to == KeysFor(x, target)
<1>1. /\ writer[x].at = "check"
      /\ UNCHANGED <<server, toClient, signal, waiting, wasted, late>>
      /\ IF to # {}
         THEN Post(x, <<IF target \in Users THEN SendDirect(target, target \in fresh[x])
                                            ELSE SendChat(target, writer[x].id, to)>>)
         ELSE toServer' = toServer
  BY DEF CheckKeys
<1>2. target \in Targets /\ writer[x].id \in Chats BY <1>1, WriterAt DEF Typed
<1>3. to \subseteq Users /\ (target \notin Users => target \in Rooms)
  BY <1>2, KeysForType DEF Typed
<1>4. \E ms \in Seq(ToServer) : Post(x, ms) /\ ~Some(ms, Moves)
  <2>1. CASE to = {}
    <3>1. toServer' = toServer BY <1>1, <2>1
    <3> QED BY <3>1, NothingPosted, InEmpty
  <2>2. CASE to # {} /\ target \in Users
    <3> DEFINE m == SendDirect(target, target \in fresh[x])
    <3>1. m \in ToServer
      <4>1. (target \in fresh[x]) \in BOOLEAN OBVIOUS
      <4> QED BY <2>2, <4>1, Constructors, Zenon
    <3>2. m \notin Moves BY DEF SendDirect, Moves
    <3>3. Post(x, <<m>>) BY <1>1, <2>2, Zenon
    <3> HIDE DEF m
    <3>4. <<m>> \in Seq(ToServer) BY <3>1
    <3>5. ~Some(<<m>>, Moves) BY <3>2, InOne
    <3> QED BY <3>3, <3>4, <3>5
  <2>3. CASE to # {} /\ target \notin Users
    <3> DEFINE m == SendChat(target, writer[x].id, to)
    <3>1. m \in ToServer BY <1>2, <1>3, <2>3, Constructors
    <3>2. m \notin Moves BY DEF SendChat, Moves
    <3>3. Post(x, <<m>>) BY <1>1, <2>3, Zenon
    <3> HIDE DEF m
    <3>4. <<m>> \in Seq(ToServer) BY <3>1
    <3>5. ~Some(<<m>>, Moves) BY <3>2, InOne
    <3> QED BY <3>3, <3>4, <3>5
  <2> QED BY <2>1, <2>2, <2>3
<1> HIDE DEF to, target
<1>5. PICK ms \in Seq(ToServer) : Post(x, ms) /\ ~Some(ms, Moves) BY <1>4
<1>6. QueuesLate(x) BY <1>1 DEF QueuesLate
<1>7. (\A y \in Users : y # x => waiting'[y] = waiting[y]) /\ late \subseteq late' BY <1>1
<1>8. ClientActs(x, ms) BY <1>1, <1>5, <1>6, <1>7, QuietActs
<1> QED BY <1>8

LEMMA QueueActs ==
    ASSUME Typed, NEW x \in Users, Queue(x)
    PROVE  ClientActs(x, <<>>)
<1> DEFINE target == writer[x].for
<1> DEFINE id == writer[x].id
<1> DEFINE n == [for |-> target, id |-> id, old |-> FALSE]
<1>1. /\ writer[x].at = "queue"
      /\ waiting' = [waiting EXCEPT ![x] = @ \cup {n}]
      /\ late' = IF KeysFor(x, target) # {} THEN late \cup {id} ELSE late
      /\ UNCHANGED <<server, toServer, toClient, signal, wasted>>
  BY DEF Queue
<1>2. n.for = target /\ n.id = id OBVIOUS
<1>3. \A r \in Rooms : target = r => KeysFor(x, target) = distributed[x][r]
  BY Places DEF KeysFor
<1> HIDE DEF n, id, target
<1>4. <<>> \in Seq(ToServer) /\ Post(x, <<>>) BY <1>1, NothingPosted
<1>5. ~Some(<<>>, Moves) BY InEmpty
<1>6. /\ \A y \in Users : y # x => waiting'[y] = waiting[y]
      /\ waiting'[x] = waiting[x] \cup {n}
  BY <1>1 DEF Typed, WritingTyped
<1>7. late \subseteq late' /\ (KeysFor(x, target) # {} => id \in late') BY <1>1
<1>8. QueuesLate(x) BY <1>2, <1>3, <1>6, <1>7 DEF QueuesLate
<1> QED BY <1>1, <1>4, <1>5, <1>6, <1>7, <1>8, QuietActs

LEMMA AgeActs ==
    ASSUME Typed, NEW x \in Users, Age(x)
    PROVE  ClientActs(x, <<>>)
<1>1. /\ waiting' = [waiting EXCEPT ![x] = {[m EXCEPT !.old = TRUE] : m \in @}]
      /\ UNCHANGED <<server, toServer, toClient, signal, wasted, late>>
  BY DEF Age, history
<1>2. /\ \A y \in Users : y # x => waiting'[y] = waiting[y]
      /\ waiting'[x] = {[m EXCEPT !.old = TRUE] : m \in waiting[x]}
      /\ \A m \in waiting[x] : m \in Message
  BY <1>1 DEF Typed, WritingTyped
<1>3. \A m \in Message : [m EXCEPT !.old = TRUE].for = m.for /\ [m EXCEPT !.old = TRUE].id = m.id
  BY DEF Message
<1>4. \A m \in waiting'[x] : \E o \in waiting[x] : o.for = m.for /\ o.id = m.id
  BY <1>2, <1>3
<1>5. QueuesLate(x) BY <1>4 DEF QueuesLate
<1>6. <<>> \in Seq(ToServer) /\ Post(x, <<>>) BY <1>1, NothingPosted
<1>7. ~Some(<<>>, Moves) BY InEmpty
<1>8. late \subseteq late' BY <1>1
<1> QED BY <1>1, <1>2, <1>5, <1>6, <1>7, <1>8, QuietActs

----------------------------------------------------------------------------
(* The invariant of a pair.                                                *)

LEMMA InitPairs == Init => PairInv
<1> SUFFICES ASSUME Init PROVE PairInv OBVIOUS
<1>1. \A v, u \in Users, r \in Rooms : u \notin distributed[v][r] BY DEF Init
<1>2. \A u \in Users : /\ toClient[u] = <<>> /\ chan[u] = Lobby /\ channel[u] = Lobby
  BY DEF Init
<1>3. Lobby # Nowhere /\ \A r \in Rooms : r # Lobby BY Places, KeysAssumption
<1>4. \A S : ~Some(<<>>, S) BY InEmpty
<1>5. \A v \in Users : Agrees(v) BY <1>2, <1>4 DEF Agrees
<1>6. \A v, u \in Users, r \in Rooms : Given(v, r, u) /\ Answer(v, u, r) BY <1>1 DEF Given, Answer
<1>7. \A v, u \in Users, r \in Rooms : Both(u, v, r) BY <1>2, <1>3 DEF Both
<1> QED BY <1>5, <1>6, <1>7 DEF PairInv

LEMMA PairSame == ASSUME PairInv, UNCHANGED vars PROVE PairInv'
<1>1. UNCHANGED <<chan, entering, toServer, toClient, channel, established, pending, distributed,
                  holds, waiting, wasted, late>>
  BY DEF vars, server, signal, history
<1>2. \A v, u \in Users, r \in Rooms : Given(v, r, u)' BY <1>1 DEF PairInv, Given
<1>3. \A v, u \in Users, r \in Rooms : Answer(v, u, r)'
  BY <1>1 DEF PairInv, Answer, Got, Bound, Still, Place
<1>4. \A v, u \in Users, r \in Rooms : Both(v, u, r)'
  <2>1. ASSUME NEW v \in Users, NEW u \in Users, NEW r \in Rooms PROVE Both(v, u, r)'
    <3>1. Both(v, u, r) BY DEF PairInv
    <3>2. \A w \in Users : Known(w)' = Known(w) BY <1>1 DEF Known
    <3>3. (Asking(u, v)' <=> Asking(u, v)) /\ (Asking(v, u)' <=> Asking(v, u))
      BY <1>1, <3>2 DEF Asking
    <3>4. (Untold(u, v)' <=> Untold(u, v)) /\ (Untold(v, u)' <=> Untold(v, u))
      BY <1>1, <3>2 DEF Untold
    <3>5. (Deal(u, v, r)' <=> Deal(u, v, r)) /\ (Deal(v, u, r)' <=> Deal(v, u, r))
      BY <1>1, <3>3 DEF Deal
    <3>6. (Still(u)' <=> Still(u)) /\ (Still(v)' <=> Still(v)) BY <1>1 DEF Still
    <3> QED BY <1>1, <3>1, <3>3, <3>4, <3>5, <3>6 DEF Both
  <2> QED BY <2>1
<1>5. \A v \in Users : Agrees(v)' BY <1>1 DEF PairInv, Agrees, Still
<1> QED BY <1>2, <1>3, <1>4, <1>5 DEF PairInv

LEMMA PairInductive == Typed /\ PairInv /\ [Next]_vars => PairInv'
<1> SUFFICES ASSUME Typed, PairInv, [Next]_vars PROVE PairInv' OBVIOUS
<1>1. ASSUME NEW u \in Users, NEW ms, ClientActs(u, ms) PROVE PairInv'
  BY <1>1, ClientKeepsPairs
<1>2. ASSUME NEW u \in Users, ReaderStep(u) PROVE PairInv'
  <2>1. \E ms : ClientActs(u, ms)
    BY <1>2, ListActs, JoinedActs, LeftActs, BundleActs, KeyActs, ChatActs, DirectActs
       DEF ReaderStep
  <2> QED BY <1>1, <2>1
<1>3. ASSUME NEW u \in Users, ServerStep(u) PROVE PairInv'
  BY <1>3, ServerStepActs, ServerKeepsPairs
<1>4. ASSUME NEW u \in Users, WriterStep(u) PROVE PairInv'
  <2>1. \E ms : ClientActs(u, ms) BY <1>4, CheckActs, QueueActs DEF WriterStep
  <2> QED BY <1>1, <2>1
<1>5. ASSUME NEW u \in Users, UserStep(u) PROVE PairInv'
  <2>1. ASSUME NEW target, BeginWriting(u, target) PROVE PairInv' BY <1>1, <2>1, BeginActs
  <2>2. CASE Write(u) \/ \E v \in Users : WriteTo(u, v) BY <2>1, <2>2 DEF Write, WriteTo
  <2>3. CASE Age(u) BY <1>1, <2>3, AgeActs
  <2>4. CASE \E ch \in Channels : Join(u, ch) BY <1>1, <2>4, JoinActs
  <2> QED BY <1>5, <2>2, <2>3, <2>4 DEF UserStep
<1> QED BY <1>2, <1>3, <1>4, <1>5, PairSame DEF Next


\* Once nothing is under way: whoever gave its key has had one in return, and has
\* sent what waited for it.
LEMMA SettledPairs ==
    ASSUME Typed, PairInv, Settled, NEW r \in Rooms, NEW u \in Users, NEW v \in Users,
           Together(u, v, r), Relayed(u, v, r)
    PROVE  <<r, u>> \in holds[v] /\ Got(u, v, r)
<1>1. /\ u # v /\ chan[u] = r /\ chan[v] = r
      /\ <<r, u, v>> \notin wasted /\ <<r, v, u>> \notin wasted
  BY DEF Together, Relayed
<1>2. \A w \in Users : toServer[w] = <<>> /\ toClient[w] = <<>> /\ chan[w] # Nowhere
  BY DEF Settled
<1>3. \A S, T : ~Some(<<>>, S) /\ ~After(<<>>, S, T) BY InEmpty
<1>4. \A w \in Users : Still(w) BY <1>2, <1>3 DEF Still
<1>5. Bound(u, r) /\ Bound(v, r) BY <1>1, <1>2, <1>4 DEF Bound, Place
<1>6. \A w, o \in Users : ~Asking(w, o)
  <2>1. 1..Len(<<>>) = {} OBVIOUS
  <2>2. \A o, known : ~Comes(<<>>, o, known) BY <2>1 DEF Comes
  <2> QED BY <1>2, <1>3, <2>2 DEF Asking
<1>7. Answer(u, v, r) /\ Answer(v, u, r) /\ Given(u, r, v) /\ Both(u, v, r) BY DEF PairInv
<1>8. v \in distributed[u][r] \/ u \in distributed[v][r]
  <2>1. Deal(u, v, r) \/ Deal(v, u, r) BY <1>1, <1>4, <1>7 DEF Both
  <2> QED BY <1>2, <1>3, <1>6, <2>1 DEF Deal
<1>9. u \in distributed[v][r] => Got(u, v, r)
  BY <1>1, <1>2, <1>3, <1>4, <1>5, <1>7 DEF Answer
<1>10. v \in distributed[u][r] => Got(v, u, r)
  BY <1>1, <1>2, <1>3, <1>4, <1>5, <1>7 DEF Answer
<1>11. v \in distributed[u][r] /\ Got(u, v, r) BY <1>8, <1>9, <1>10 DEF Got
<1>12. <<r, u>> \in holds[v] BY <1>1, <1>2, <1>3, <1>7, <1>11 DEF Given
<1> QED BY <1>11, <1>12

\* Once nothing is under way, the members of a room hold each other's keys,
\* however their handshakes crossed: of two of them one came to give its key to
\* the other, and handle_sender_key_received answers it.
THEOREM KeysAlwaysExchanged == Spec => []KeysExchanged
<1>1. Init => Typed /\ PairInv BY InitTyped, InitPairs
<1>2. Typed /\ PairInv /\ [Next]_vars => (Typed /\ PairInv)' BY TypedInductive, PairInductive
<1>3. Typed /\ PairInv => KeysExchanged BY SettledPairs DEF KeysExchanged
<1> QED BY <1>1, <1>2, <1>3, PTL DEF Spec

\* A direct message that waits although there is a session is late.
WithSession ==
    \A u, v \in Users : \A m \in waiting[u] :
       m.for = v /\ v \in established[u] => m.id \in late

LEMMA WithSessionSame ==
    ASSUME WithSession, late \subseteq late', NEW x \in Users,
           \A y \in Users : y # x => waiting'[y] = waiting[y] /\ established'[y] = established[y],
           \A v \in Users : \A m \in waiting'[x] :
              m.for = v /\ v \in established'[x] =>
                 \/ m.id \in late'
                 \/ /\ v \in established[x]
                    /\ \E o \in waiting[x] : o.for = m.for /\ o.id = m.id
    PROVE  WithSession'
<1>1. ASSUME NEW u \in Users, NEW v \in Users, NEW m \in waiting'[u],
             m.for = v, v \in established'[u]
      PROVE  m.id \in late'
  <2>1. CASE u = x
    <3>1. ASSUME v \in established[x], NEW o \in waiting[x], o.for = m.for, o.id = m.id
          PROVE  m.id \in late'
      BY <1>1, <3>1 DEF WithSession
    <3> QED BY <1>1, <2>1, <3>1
  <2>2. CASE u # x BY <1>1, <2>2 DEF WithSession
  <2> QED BY <2>1, <2>2
<1> QED BY <1>1 DEF WithSession

LEMMA SessionKeeps ==
    ASSUME Typed, WithSession, NEW x \in Users, NEW v \in Users, NEW p \in BOOLEAN,
           TakeSession(x, v, p),
           \A y \in Users : y # x => waiting'[y] = waiting[y],
           \A m \in waiting'[x] : m \in waiting[x]
    PROVE  WithSession'
<1>1. CASE p = TRUE
  <2>1. established' = [established EXCEPT ![x] = @ \cup {v}] /\ late' = late \cup Ids(For(x, v))
    BY <1>1 DEF TakeSession
  <2>2. /\ \A y \in Users : y # x => established'[y] = established[y]
        /\ established'[x] = established[x] \cup {v}
    BY <2>1 DEF Typed, SignalTyped
  <2>3. \A m \in waiting[x] : m.for = v => m.id \in late' BY <2>1 DEF Ids, For
  <2> QED BY <2>1, <2>2, <2>3, WithSessionSame
<1>2. CASE p = FALSE
  <2>1. established' = established /\ late' = late BY <1>2 DEF TakeSession
  <2> QED BY <2>1, WithSessionSame
<1> QED BY <1>1, <1>2

LEMMA ReadersKeepSession ==
    ASSUME Typed, WithSession, NEW x \in Users, ReaderStep(x)
    PROVE  WithSession'
<1>1. CASE UNCHANGED <<waiting, established, late>> BY <1>1 DEF WithSession
<1>2. CASE ReadUserList(x) \/ ReadUserJoined(x) \/ ReadChat(x)
  BY <1>1, <1>2 DEF ReadUserList, ReadUserJoined, ReadChat, history, signal
<1>3. CASE ReadUserLeft(x)
  <2> DEFINE v == Head(toClient[x]).user
  <2>1. established' = [established EXCEPT ![x] = @ \ {v}] /\ UNCHANGED <<waiting, late>>
    BY <1>3 DEF ReadUserLeft
  <2>2. /\ \A y \in Users : y # x => established'[y] = established[y]
        /\ established'[x] \subseteq established[x]
    BY <2>1 DEF Typed, SignalTyped
  <2> QED BY <2>1, <2>2, WithSessionSame
<1>4. CASE ReadBundle(x)
  <2> DEFINE v == Head(toClient[x]).user
  <2>1. /\ established' = [established EXCEPT ![x] = @ \cup {v}] /\ late' = late
        /\ waiting' = [waiting EXCEPT ![x] = Kept(x, v)]
    BY <1>4, BundleFacts DEF Drained
  <2>2. /\ \A y \in Users : y # x => waiting'[y] = waiting[y] /\ established'[y] = established[y]
        /\ established'[x] = established[x] \cup {v} /\ waiting'[x] = Kept(x, v)
    BY <2>1 DEF Typed, SignalTyped, WritingTyped
  <2> HIDE DEF v
  <2>3. \A m \in Kept(x, v) : m \in waiting[x] /\ m.for # v BY DEF Kept
  <2> QED BY <2>1, <2>2, <2>3, WithSessionSame
<1>5. CASE ReadKey(x)
  <2> DEFINE h == Head(toClient[x])
  <2>1. /\ h.user \in Users /\ h.prekey \in BOOLEAN /\ TakeSession(x, h.user, h.prekey)
        /\ waiting' = [waiting EXCEPT ![x] = Kept(x, h.ch)]
    BY <1>5, KeyFacts DEF Drained
  <2> HIDE DEF h
  <2>2. /\ \A y \in Users : y # x => waiting'[y] = waiting[y]
        /\ \A m \in waiting'[x] : m \in waiting[x]
    BY <2>1 DEF Kept, Typed, WritingTyped
  <2> QED BY <2>1, <2>2, SessionKeeps
<1>6. CASE ReadDirect(x)
  <2> DEFINE h == Head(toClient[x])
  <2>1. /\ Reading(x, "direct") /\ waiting' = waiting
        /\ h.user = x => UNCHANGED <<established, late>>
        /\ h.user # x => TakeSession(x, h.user, h.prekey)
    BY <1>6 DEF ReadDirect
  <2>2. h \in ToClient /\ h.type = "direct" BY <2>1, Read DEF Typed
  <2>3. h.user \in Users /\ h.prekey \in BOOLEAN BY <2>2, Fields
  <2> HIDE DEF h
  <2> QED BY <1>1, <2>1, <2>3, SessionKeeps
<1> QED BY <1>2, <1>3, <1>4, <1>5, <1>6 DEF ReaderStep

LEMMA SessionInductive == Typed /\ WithSession /\ [Next]_vars => WithSession'
<1> SUFFICES ASSUME Typed, WithSession, [Next]_vars PROVE WithSession' OBVIOUS
<1>1. CASE UNCHANGED <<waiting, established, late>> BY <1>1 DEF WithSession
<1>2. ASSUME NEW u \in Users, ServerStep(u) PROVE WithSession'
  BY <1>1, <1>2 DEF ServerStep, ServerLeaves, ServerEnters, ServerBundle, ServerKey, ServerChat,
                    ServerDirect, signal, history
<1>3. ASSUME NEW u \in Users, CheckKeys(u) PROVE WithSession' BY <1>1, <1>3 DEF CheckKeys, signal
<1>4. ASSUME NEW u \in Users, Queue(u) PROVE WithSession'
  <2> DEFINE target == writer[u].for
  <2> DEFINE id == writer[u].id
  <2> DEFINE n == [for |-> target, id |-> id, old |-> FALSE]
  <2>1. /\ waiting' = [waiting EXCEPT ![u] = @ \cup {n}] /\ established' = established
        /\ late' = IF KeysFor(u, target) # {} THEN late \cup {id} ELSE late
    BY <1>4 DEF Queue, signal
  <2>2. n.for = target /\ n.id = id OBVIOUS
  <2>3. \A v \in Users : target = v => KeysFor(u, target) = established[u] \cap {v}
    BY DEF KeysFor
  <2> HIDE DEF n, id, target
  <2>4. /\ \A y \in Users : y # u => waiting'[y] = waiting[y]
        /\ waiting'[u] = waiting[u] \cup {n}
    BY <2>1 DEF Typed, WritingTyped
  <2>5. late \subseteq late' /\ (KeysFor(u, target) # {} => id \in late') BY <2>1
  <2>6. \A v \in Users : target = v /\ v \in established[u] => id \in late' BY <2>3, <2>5
  <2> QED BY <2>1, <2>2, <2>4, <2>5, <2>6, WithSessionSame
<1>5. ASSUME NEW u \in Users, Age(u) PROVE WithSession'
  <2>1. /\ waiting' = [waiting EXCEPT ![u] = {[m EXCEPT !.old = TRUE] : m \in @}]
        /\ established' = established /\ late' = late
    BY <1>5 DEF Age, signal, history
  <2>2. /\ \A y \in Users : y # u => waiting'[y] = waiting[y]
        /\ waiting'[u] = {[m EXCEPT !.old = TRUE] : m \in waiting[u]}
        /\ \A m \in waiting[u] : m \in Message
    BY <2>1 DEF Typed, WritingTyped
  <2>3. \A m \in Message :
          [m EXCEPT !.old = TRUE].for = m.for /\ [m EXCEPT !.old = TRUE].id = m.id
    BY DEF Message
  <2>4. \A m \in waiting'[u] : \E o \in waiting[u] : o.for = m.for /\ o.id = m.id
    BY <2>2, <2>3
  <2>5. \A v \in Users : \A m \in waiting'[u] :
          m.for = v /\ v \in established'[u] =>
             /\ v \in established[u]
             /\ \E o \in waiting[u] : o.for = m.for /\ o.id = m.id
    BY <2>1, <2>4
  <2>6. /\ \A y \in Users : y # u => waiting'[y] = waiting[y] /\ established'[y] = established[y]
        /\ late \subseteq late'
    BY <2>1, <2>2
  <2> QED BY <2>5, <2>6, WithSessionSame
<1>6. ASSUME NEW u \in Users, UserStep(u), ~Age(u) PROVE UNCHANGED <<waiting, established, late>>
  BY <1>6 DEF UserStep, Write, WriteTo, BeginWriting, Join, signal, history
<1> QED BY <1>1, <1>2, <1>3, <1>4, <1>5, <1>6, ReadersKeepSession
        DEF Next, WriterStep, vars, signal, history

\* What a message waits for, once nothing is under way.
LEMMA SettledMessages ==
    ASSUME Typed, PairInv, WithSession, NothingLost
    PROVE  MessagesKept
<1>1. ASSUME Settled, NEW u \in Users, NEW v \in Users, NEW m \in waiting[u],
             Together(u, v, m.for), Relayed(u, v, m.for)
      PROVE  m.id \in late
  <2>1. m.for \in Targets /\ m.for = chan[u] /\ chan[u] \in Channels
    BY <1>1 DEF Together, Settled, Typed, ServerTyped, WritingTyped, Message
  <2>2. m.for \in Rooms BY <2>1, KeysAssumption, Places
  <2>3. Got(u, v, m.for) BY <1>1, <2>2, SettledPairs
  <2> QED BY <1>1, <2>3 DEF Got
<1>2. \A u, v \in Users : \A m \in waiting[u] :
         m.for = v /\ v \in established[u] => m.id \in late
  BY DEF WithSession
<1> QED BY <1>1, <1>2 DEF MessagesKept

\* A queued message does not outlast what it waits for: the bundle of the user it
\* is for drains it, and so does every key that comes for its room.  What was
\* queued late, after the lock was let go, is what can be left.
THEOREM MessagesAlwaysKept == Spec => []MessagesKept
<1>1. Init => WithSession BY DEF Init, WithSession
<1>2. Init => Typed /\ PairInv /\ WithSession /\ NothingLost /\ Apart
  BY <1>1, InitTyped, InitPairs, InitConserved
<1>3. /\ Typed /\ PairInv /\ WithSession /\ NothingLost /\ Apart /\ [Next]_vars
         => (Typed /\ PairInv /\ WithSession /\ NothingLost /\ Apart)'
  BY TypedInductive, PairInductive, SessionInductive, ConservedInductive
<1>4. Typed /\ PairInv /\ WithSession /\ NothingLost /\ Apart => MessagesKept BY SettledMessages
<1> QED BY <1>2, <1>3, <1>4, PTL DEF Spec

=============================================================================
