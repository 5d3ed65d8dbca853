-------------------------- MODULE UdpRelay_proofs --------------------------
(***************************************************************************)
(* Theorems about UdpRelay, for any number of sessions, addresses and      *)
(* channels and any cap of the cache.                                      *)
(***************************************************************************)
EXTENDS UdpRelay, FiniteSetTheorems, TLAPS

USE RelayAssumption

\* The connection tasks: which sessions are in the map, who is in which channel,
\* and that viewers and sharers are members of one channel.
Places ==
    /\ live = {s \in Sessions : tcp[s] \in {"in", "between", "leaving"}}
    /\ \A c \in Channels : members[c] = {s \in Sessions : tcp[s] = "in" /\ chan[s] = c}
    /\ \A s \in Sessions : tcp[s] = "unborn" => chan[s] = General

Watching ==
    \A s \in Sessions : \A v \in viewers[s] :
        v # s /\ tcp[v] = "in" /\ tcp[s] = "in" /\ chan[v] = chan[s]

\* The UDP task: an address is bound before it is cached, and what is about to
\* be cached has room and, if its session is gone by now, has raced.
Bound ==
    /\ \A a \in Addresses : cache[a] # NoSession => addr[cache[a]] = a
    /\ relay.at = "insert" => relay.s \in Sessions /\ addr[relay.s] = relay.src
    /\ relay.at = "insert" => relay.src \in Addresses
    /\ relay.at = "forward" => relay.s \in Sessions

Gone ==
    /\ DeadEntryOnlyByRace
    /\ relay.at = "insert" /\ tcp[relay.s] = "gone" => relay.s \in raced

Capped ==
    /\ Cardinality(Mapped) <= CacheCap
    /\ relay.at = "insert" => Cardinality(Mapped) < CacheCap

IInv == TypeOK /\ Places /\ Watching /\ Bound /\ Gone /\ Capped

----------------------------------------------------------------------------
\* A part of the cached addresses is no more of them.
LEMMA FewerMapped ==
    ASSUME NEW S \in SUBSET Addresses, NEW R \in SUBSET S
    PROVE  /\ IsFiniteSet(S) /\ Cardinality(S) \in Nat
           /\ Cardinality(R) \in Nat /\ Cardinality(R) <= Cardinality(S)
<1>1. IsFiniteSet(S) BY FS_Subset
<1> QED BY <1>1, FS_Subset, FS_CardinalityType

LEMMA IInvInit == Init => IInv
<1> SUFFICES ASSUME Init PROVE IInv OBVIOUS
<1>1. TypeOK BY DEF Init, TypeOK, Resting, Relay, Kinds
<1>2. Places /\ Watching BY DEF Init, Places, Watching
<1>3. Bound /\ Gone BY DEF Init, Bound, Gone, DeadEntryOnlyByRace, Resting
<1>4. Mapped = {} BY DEF Init, Mapped
<1>5. Capped BY <1>4, FS_EmptySet DEF Init, Capped, Resting
<1> QED BY <1>1, <1>2, <1>3, <1>5 DEF IInv

----------------------------------------------------------------------------
\* What a connection task does.
LEMMA TcpStep ==
    ASSUME IInv, NEW s \in Sessions, Tcp(s)
    PROVE  IInv'
<1> USE DEF IInv
<1>1. CASE Connect(s)
  <2>1. TypeOK' BY <1>1 DEF Connect, TypeOK, General
  <2>2. Places' BY <1>1 DEF Connect, TypeOK, Places, General
  <2>3. Watching' BY <1>1 DEF Connect, TypeOK, Watching
  <2>4. Bound' /\ Gone' BY <1>1 DEF Connect, TypeOK, Bound, Gone, DeadEntryOnlyByRace
  <2>5. Capped' BY <1>1 DEF Connect, Capped, Mapped
  <2> QED BY <2>1, <2>2, <2>3, <2>4, <2>5
<1>2. CASE Leave(s)
  <2>1. PICK next \in {"between", "leaving"} : tcp' = [tcp EXCEPT ![s] = next]
    BY <1>2 DEF Leave
  <2>2. TypeOK' BY <1>2, <2>1 DEF Leave, TypeOK, ViewersWithout
  <2>3. Places' BY <1>2, <2>1 DEF Leave, TypeOK, Places
  <2>4. Watching' BY <1>2, <2>1 DEF Leave, TypeOK, Watching, ViewersWithout
  <2>5. Bound' /\ Gone' BY <1>2, <2>1 DEF Leave, TypeOK, Bound, Gone, DeadEntryOnlyByRace
  <2>6. Capped' BY <1>2 DEF Leave, Capped, Mapped
  <2> QED BY <2>2, <2>3, <2>4, <2>5, <2>6
<1>3. ASSUME NEW c \in Channels, Enter(s, c) PROVE IInv'
  <2>1. TypeOK' BY <1>3 DEF Enter, TypeOK
  <2>2. Places' BY <1>3 DEF Enter, TypeOK, Places
  <2>3. Watching' BY <1>3 DEF Enter, TypeOK, Watching
  <2>4. Bound' /\ Gone' BY <1>3 DEF Enter, TypeOK, Bound, Gone, DeadEntryOnlyByRace
  <2>5. Capped' BY <1>3 DEF Enter, Capped, Mapped
  <2> QED BY <2>1, <2>2, <2>3, <2>4, <2>5
<1>4. ASSUME NEW v \in Sessions, Watch(v, s) PROVE IInv'
  <2>1. TypeOK' BY <1>4 DEF Watch, TypeOK
  <2>2. Places' BY <1>4 DEF Watch, Places
  <2>3. Watching' BY <1>4 DEF Watch, TypeOK, Watching
  <2>4. Bound' /\ Gone' /\ Capped'
    BY <1>4 DEF Watch, Bound, Gone, DeadEntryOnlyByRace, Capped, Mapped
  <2> QED BY <2>1, <2>2, <2>3, <2>4
<1>5. CASE Remove(s)
  <2>1. TypeOK' BY <1>5 DEF Remove, TypeOK
  <2>2. Places' BY <1>5 DEF Remove, TypeOK, Places
  <2>3. Watching' BY <1>5 DEF Remove, TypeOK, Watching
  <2>4. Bound' /\ Gone' BY <1>5 DEF Remove, TypeOK, Bound, Gone, DeadEntryOnlyByRace
  <2>5. Capped' BY <1>5 DEF Remove, Capped, Mapped
  <2> QED BY <2>1, <2>2, <2>3, <2>4, <2>5
<1>6. CASE Unmap(s)
  <2>1. TypeOK' BY <1>6 DEF Unmap, TypeOK, Unmapped
  <2>2. Places' BY <1>6 DEF Unmap, TypeOK, Places
  <2>3. Watching' BY <1>6 DEF Unmap, TypeOK, Watching
  <2>4. Bound' BY <1>6 DEF Unmap, TypeOK, Bound, Unmapped
  <2>5. Gone' BY <1>6 DEF Unmap, TypeOK, Bound, Gone, DeadEntryOnlyByRace, Unmapped
  <2>6. Mapped' \subseteq Mapped BY <1>6 DEF Unmap, TypeOK, Mapped, Unmapped
  <2>7. Capped' BY <1>6, <2>6, FewerMapped DEF Unmap, Capped, Mapped
  <2> QED BY <2>1, <2>2, <2>3, <2>4, <2>5, <2>7
<1> QED BY <1>1, <1>2, <1>3, <1>4, <1>5, <1>6 DEF Tcp

----------------------------------------------------------------------------
\* What the UDP task does.
LEMMA ReceiveStep ==
    ASSUME IInv, NEW s \in Sessions, NEW src \in Addresses, NEW kind \in Kinds,
           Receive(s, src, kind)
    PROVE  IInv'
<1> USE DEF IInv
<1>1. UNCHANGED <<tcpVars, raced>> /\ pings' \subseteq pings /\ relay.at = "recv"
  BY DEF Receive
<1>2. Places' /\ Watching' BY <1>1 DEF Places, Watching, tcpVars
<1>3. CASE Cached(s, src, kind)
  <2>1. TypeOK' BY <1>1, <1>3 DEF Cached, TypeOK, tcpVars, Goes, Relay, Evicted, General
  <2>2. Bound' /\ Gone'
    BY <1>1, <1>3 DEF Cached, TypeOK, tcpVars, Goes, Evicted, Bound, Gone, DeadEntryOnlyByRace
  <2>3. Mapped' \subseteq Mapped BY <1>3 DEF Cached, TypeOK, Mapped, Evicted
  <2>4. relay'.at # "insert" BY <1>1, <1>3 DEF Cached, Goes
  <2>5. Capped' BY <2>3, <2>4, FewerMapped DEF Capped, Mapped
  <2> QED BY <1>2, <2>1, <2>2, <2>5
<1>4. CASE Learn(s, src, kind)
  <2>1. TypeOK' BY <1>1, <1>4 DEF Learn, TypeOK, tcpVars, Goes, Relay, General
  <2>2. Bound' BY <1>1, <1>4 DEF Learn, TypeOK, Goes, Bound, Unbound
  <2>3. Gone'
    BY <1>1, <1>4 DEF Learn, TypeOK, tcpVars, Goes, Places, Gone, DeadEntryOnlyByRace
  <2>4. Capped' BY <1>1, <1>4 DEF Learn, Goes, Capped, Mapped
  <2> QED BY <1>2, <2>1, <2>2, <2>3, <2>4
<1> QED BY <1>3, <1>4 DEF Receive

LEMMA RelayStep == IInv /\ (Insert \/ Route \/ Forward) => IInv'
<1> SUFFICES ASSUME IInv, Insert \/ Route \/ Forward PROVE IInv' OBVIOUS
<1> USE DEF IInv
<1>1. UNCHANGED <<tcpVars, addr, pings, raced>> BY DEF Insert, Route, Forward
<1>2. Places' /\ Watching' BY <1>1 DEF Places, Watching, tcpVars
<1>3. CASE Insert
  <2>1. /\ relay.s \in Sessions /\ relay.src \in Addresses /\ relay.kind \in Kinds
        /\ relay'.at = "route"
    BY <1>3 DEF Insert, Bound, Goes, TypeOK, Relay
  <2>2. TypeOK' BY <1>1, <1>3, <2>1 DEF Insert, TypeOK, tcpVars, Goes, Relay, General
  <2>3. Bound' BY <1>1, <1>3, <2>1 DEF Insert, TypeOK, Bound
  <2>4. Gone' BY <1>1, <1>3, <2>1 DEF Insert, TypeOK, tcpVars, Gone, DeadEntryOnlyByRace
  <2>5. Mapped' = Mapped \cup {relay.src} BY <1>3, <2>1 DEF Insert, TypeOK, Mapped
  <2>6. IsFiniteSet(Mapped) /\ Cardinality(Mapped) \in Nat BY FewerMapped DEF Mapped
  <2>7. Cardinality(Mapped \cup {relay.src}) \in {Cardinality(Mapped), Cardinality(Mapped) + 1}
    BY <2>6, FS_AddElement
  <2>8. Cardinality(Mapped)' <= CacheCap BY <1>3, <2>5, <2>6, <2>7 DEF Insert, Capped
  <2>9. Capped' BY <2>1, <2>8 DEF Capped
  <2> QED BY <1>2, <2>2, <2>3, <2>4, <2>9
<1>4. CASE Route \/ Forward
  <2>1. UNCHANGED cache /\ relay' \in Relay /\ relay'.at # "insert"
    BY <1>4 DEF Route, Forward, TypeOK, Relay, Resting, General, Kinds
  <2>2. TypeOK' BY <1>1, <2>1 DEF TypeOK, tcpVars
  <2>3. relay'.at = "forward" => relay'.s \in Sessions
    BY <1>4 DEF Route, Forward, TypeOK, Relay, Resting, Places
  <2>4. Bound' /\ Gone'
    BY <1>1, <2>1, <2>3 DEF tcpVars, Bound, Gone, DeadEntryOnlyByRace
  <2>5. Capped' BY <2>1 DEF Capped, Mapped
  <2> QED BY <1>2, <2>2, <2>4, <2>5
<1> QED BY <1>3, <1>4

LEMMA IInvInductive == IInv /\ [Next]_vars => IInv'
<1> SUFFICES ASSUME IInv, [Next]_vars PROVE IInv' OBVIOUS
<1>1. CASE \E s \in Sessions : Tcp(s) BY <1>1, TcpStep
<1>2. CASE Udp
  <2>1. CASE \E s \in Sessions, kind \in Kinds : \E src \in Homes[s] : Receive(s, src, kind)
    BY <2>1, ReceiveStep
  <2> QED BY <1>2, <2>1, RelayStep DEF Udp
<1>3. CASE UNCHANGED vars
  BY <1>3 DEF IInv, TypeOK, Places, Watching, Bound, Gone, DeadEntryOnlyByRace, Capped, Mapped,
              vars, tcpVars
<1> QED BY <1>1, <1>2, <1>3 DEF Next

----------------------------------------------------------------------------
\* Every reachable state of the relay is well typed: what the UDP task holds in
\* its locals is a session, an address and a channel of the server.
THEOREM TypeCorrect == Spec => []TypeOK
<1>1. IInv => TypeOK BY DEF IInv
<1> QED BY <1>1, IInvInit, IInvInductive, PTL DEF Spec

\* The cache of addresses agrees with the sessions, keeps an entry of a session
\* that is gone only after a race, and never outgrows its cap, although it is
\* looked at and written in different steps.
THEOREM CacheAlwaysSound == Spec => []CacheSound
<1>1. IInv => CacheSound
  <2> SUFFICES ASSUME IInv PROVE CacheSound OBVIOUS
  <2>1. CacheNamesOwner
    <3> SUFFICES ASSUME NEW a \in Addresses, cache[a] \in live PROVE addr[cache[a]] = a
      BY DEF CacheNamesOwner
    <3>1. cache[a] # NoSession BY DEF IInv, TypeOK
    <3> QED BY <3>1 DEF IInv, Bound
  <2> QED BY <2>1 DEF IInv, Gone, Capped, CacheSound
<1> QED BY <1>1, IInvInit, IInvInductive, PTL DEF Spec

\* Voice and video are sent to members of the channel they were said in, however
\* sharers and viewers move while the packet is handled.
THEOREM AlwaysSentInChannel == Spec => []SentInChannel
<1>1. IInv => SentInChannel
  <2> SUFFICES ASSUME IInv, relay.at = "forward",
                      NEW t \in Targets
               PROVE  t \in members[relay.c] \ {relay.s}
    BY DEF SentInChannel
  <2>1. relay.s \in Sessions /\ relay.c \in Channels BY DEF IInv, Bound, TypeOK, Relay
  <2>2. CASE relay.kind = "voice" BY <2>2 DEF Targets
  <2>3. CASE relay.kind # "voice"
    <3>1. relay.s \in members[relay.c] /\ t \in viewers[relay.s] BY <2>3 DEF Targets
    <3>2. tcp[relay.s] = "in" /\ chan[relay.s] = relay.c BY <2>1, <3>1 DEF IInv, Places
    <3>3. t \in Sessions /\ t # relay.s /\ tcp[t] = "in" /\ chan[t] = relay.c
      BY <2>1, <3>1, <3>2 DEF IInv, Watching, TypeOK
    <3> QED BY <2>1, <3>3 DEF IInv, Places
  <2> QED BY <2>2, <2>3
<1> QED BY <1>1, IInvInit, IInvInductive, PTL DEF Spec
=============================================================================
