------------------------- MODULE VideoStream_proofs -------------------------
(***************************************************************************)
(* Theorems about VideoStream, for any number of frames and fragments, any *)
(* keyframe interval, window and queue, and a network that loses and       *)
(* reorders packets and delivers some of them twice.                       *)
(***************************************************************************)
EXTENDS VideoStream, FiniteSetTheorems, TLAPS

USE VideoAssumption

\* All packets of a frame agree about the number of its fragments.
NetOK ==
    /\ assembler.cur < frameId
    /\ \A p \in net :
          /\ p.frame < frameId /\ p.index <= p.count
          /\ assembler.cur = p.frame => p.count = assembler.count
          /\ \A q \in net : q.frame = p.frame => q.count = p.count

\* The slots are those of one frame, and `received' counts the ones filled.
SlotsOK ==
    LET a == assembler IN
    /\ IsFiniteSet(a.parts)
    /\ \A p \in a.parts : p.frame = a.cur /\ p.count = a.count
    /\ \A p, q \in a.parts : p.index = q.index => p = q
    /\ a.slots \in {0, a.count}
    /\ a.slots = 0 => a.parts = {}
    /\ a.slots # 0 => a.received = Cardinality(a.parts) /\ a.received < a.count

Assembling == TypeOK /\ NetOK /\ SlotsOK

----------------------------------------------------------------------------
\* What the decoder has yet to take, seen from its end: the frame before the
\* i-th, whether that one is a gap in the order, and whether a keyframe follows.
Before(i) == IF i = 1 THEN last ELSE queue[i - 1].frame
Gap(i)    == ~queue[i].key /\ queue[i].frame # Before(i) + 1
Mended(i) == \E j \in DOMAIN queue : j > i /\ queue[j].key

\* The last frame handed on is the last one in the queue.
HandedOn ==
    /\ assembler.everKey <=> assembler.lastDone # None
    /\ queue = <<>> => assembler.lastDone = last
    /\ queue # <<>> => assembler.lastDone = queue[Len(queue)].frame
    /\ queue # <<>> /\ last = None => queue[1].key

\* A loss that no queued keyframe makes up for has its flag raised, a gap in the
\* queue is such a loss, and a decoder without its references is told, has told
\* itself, or finds a keyframe in what it is about to take.
Told ==
    /\ owed => needsKeyframe
    /\ \A i \in DOMAIN queue : Gap(i) => owed \/ Mended(i)
    /\ ~clean /\ last # None =>
          needsKeyframe \/ suppress \/ (at # "finish" /\ Mended(0))

Pictures ==
    /\ at # "recv" => last # None /\ (clean => latest)
    /\ shown # "corrupt"

Sound == causes = {} => HandedOn /\ Told /\ Pictures

----------------------------------------------------------------------------
\* The operators of the assembler, field by field.
LEMMA RestartedFields ==
    ASSUME TypeOK, NetOK, SlotsOK, NEW p \in net
    PROVE  LET a == Restarted(p) IN
           /\ a \in Assembler /\ p \in Packet
           /\ a.cur = p.frame /\ a.count = p.count
           /\ a.everKey = assembler.everKey /\ a.lastDone = assembler.lastDone
           /\ IsFiniteSet(a.parts)
           /\ \A q \in a.parts : q.frame = a.cur /\ q.count = a.count
           /\ \A q, r \in a.parts : q.index = r.index => q = r
           /\ a.slots \in {0, a.count}
           /\ a.slots = 0 => a.parts = {}
           /\ a.slots # 0 => a.received = Cardinality(a.parts) /\ a.received < a.count
<1>1. p \in Packet BY DEF TypeOK
<1>2. CASE assembler.cur = p.frame
  BY <1>1, <1>2 DEF Restarted, TypeOK, NetOK, SlotsOK
<1>3. CASE assembler.cur # p.frame
  <2>1. IsFiniteSet({}) /\ Cardinality({}) = 0 BY FS_EmptySet
  <2>2. Restarted(p) \in Assembler
    BY <1>1, <1>3 DEF Restarted, TypeOK, Assembler, Packet
  <2> QED BY <1>1, <1>3, <2>1, <2>2 DEF Restarted, Packet
<1> QED BY <1>2, <1>3

LEMMA StoredFields ==
    ASSUME NEW a \in Assembler, NEW p \in Packet, a.received + 1 <= MaxFragments
    PROVE  LET b      == Stored(a, p)
               others == {q \in a.parts : q.index # p.index}
           IN /\ b \in Assembler
              /\ b.cur = a.cur /\ b.count = a.count /\ b.slots = a.slots
              /\ b.everKey = a.everKey /\ b.lastDone = a.lastDone
              /\ b.parts = others \cup {p}
              /\ b.received = IF others = a.parts THEN a.received + 1 ELSE a.received
<1> DEFINE others == {q \in a.parts : q.index # p.index}
           got == IF others = a.parts THEN a.received + 1 ELSE a.received
           a1 == [a EXCEPT !.parts = others \cup {p}]
           a2 == [a1 EXCEPT !.received = IF others = a.parts THEN @ + 1 ELSE @]
           a3 == [a2 EXCEPT !.key = @ \/ p.key]
<1>1. a1 \in Assembler /\ a1.received = a.received BY DEF Assembler, Packet
<1>2. a2 = [a1 EXCEPT !.received = got] BY <1>1
<1>3. got \in 0..MaxFragments BY DEF Assembler
<1>4. a2 \in Assembler BY <1>1, <1>2, <1>3 DEF Assembler
<1>5. (a2.key \/ p.key) \in BOOLEAN OBVIOUS
<1>6. a3 \in Assembler BY <1>4, <1>5 DEF Assembler
<1>7. Stored(a, p) = a3 BY DEF Stored
<1>8. /\ a1.cur = a.cur /\ a1.count = a.count /\ a1.slots = a.slots
      /\ a1.everKey = a.everKey /\ a1.lastDone = a.lastDone /\ a1.parts = others \cup {p}
  BY DEF Assembler
<1>9. /\ a2.cur = a1.cur /\ a2.count = a1.count /\ a2.slots = a1.slots
      /\ a2.everKey = a1.everKey /\ a2.lastDone = a1.lastDone /\ a2.parts = a1.parts
      /\ a2.received = got
  BY <1>1, <1>2 DEF Assembler
<1>10. /\ a3.cur = a2.cur /\ a3.count = a2.count /\ a3.slots = a2.slots
       /\ a3.everKey = a2.everKey /\ a3.lastDone = a2.lastDone /\ a3.parts = a2.parts
       /\ a3.received = a2.received
  BY <1>4 DEF Assembler
<1> QED BY <1>6, <1>7, <1>8, <1>9, <1>10

LEMMA CompletedFields ==
    ASSUME NEW a \in Assembler, a.cur \in Frame
    PROVE  LET b == Completed(a) IN
           /\ b \in Assembler
           /\ b.slots = 0 /\ b.parts = {} /\ b.count = a.count
           /\ a.key \/ a.everKey => b.cur = None /\ b.everKey /\ b.lastDone = a.cur
           /\ ~(a.key \/ a.everKey) =>
                 b.cur = a.cur /\ b.everKey = a.everKey /\ b.lastDone = a.lastDone
<1>1. CASE a.key \/ a.everKey
  <2> DEFINE b == [cur |-> None, count |-> a.count, slots |-> 0, parts |-> {},
                   received |-> a.received, key |-> a.key, everKey |-> TRUE,
                   lastDone |-> a.cur]
  <2>1. Completed(a) = b BY <1>1 DEF Completed
  <2>2. /\ a.count \in 0..MaxFragments /\ a.received \in 0..MaxFragments
        /\ a.key \in BOOLEAN /\ 0 \in 0..MaxFragments
    BY DEF Assembler
  <2>3. b \in Assembler BY <2>2 DEF Assembler
  <2>4. /\ b.slots = 0 /\ b.parts = {} /\ b.count = a.count
        /\ b.cur = None /\ b.everKey = TRUE /\ b.lastDone = a.cur
    OBVIOUS
  <2> HIDE DEF b
  <2> QED BY <1>1, <2>1, <2>3, <2>4
<1>2. CASE ~(a.key \/ a.everKey)
  <2> DEFINE a1 == [a EXCEPT !.slots = 0]
             a2 == [a1 EXCEPT !.parts = {}]
  <2>1. a1 \in Assembler BY DEF Assembler
  <2>2. a2 \in Assembler BY <2>1 DEF Assembler
  <2>3. Completed(a) = a2 BY <1>2 DEF Completed
  <2>4. /\ a1.slots = 0 /\ a1.count = a.count /\ a1.cur = a.cur
        /\ a1.everKey = a.everKey /\ a1.lastDone = a.lastDone
    BY DEF Assembler
  <2>5. /\ a2.slots = a1.slots /\ a2.count = a1.count /\ a2.cur = a1.cur
        /\ a2.everKey = a1.everKey /\ a2.lastDone = a1.lastDone /\ a2.parts = {}
    BY <2>1 DEF Assembler
  <2> QED BY <1>2, <2>2, <2>3, <2>4, <2>5
<1> QED BY <1>1, <1>2

----------------------------------------------------------------------------
LEMMA AssemblingInit == Init => Assembling
<1> SUFFICES ASSUME Init PROVE Assembling OBVIOUS
<1> DEFINE b == [cur |-> None, count |-> 0, slots |-> 0, parts |-> {}, received |-> 0,
                 key |-> FALSE, everKey |-> FALSE, lastDone |-> None]
<1>1. assembler = b BY DEF Init
<1>2. b \in Assembler BY DEF Assembler
<1>3. queue \in Seq(Encoded) /\ Len(queue) <= QueueSize BY DEF Init
<1>6. /\ frameId \in Frame /\ last \in Frame \cup {None}
      /\ net \subseteq Packet /\ duplicates \in 0..MaxDuplicates
  BY DEF Init, Frame
<1>7. /\ keyRequested \in BOOLEAN /\ asked \in BOOLEAN
      /\ needsKeyframe \in BOOLEAN /\ suppress \in BOOLEAN /\ keySeen \in BOOLEAN
      /\ clean \in BOOLEAN /\ latest \in BOOLEAN /\ owed \in BOOLEAN
  BY DEF Init
<1>5. TypeOK BY <1>1, <1>2, <1>3, <1>6, <1>7 DEF Init, TypeOK
<1>4. IsFiniteSet({}) BY FS_EmptySet
<1> QED BY <1>1, <1>4, <1>5 DEF Init, Assembling, NetOK, SlotsOK, None

\* What a packet makes of the assembler, and what the receiver does about it.
HandsOn(p, f, dropped) ==
    /\ f \in Encoded /\ f.frame = p.frame
    /\ f.key \/ assembler.everKey
    /\ dropped \/ assembler.lastDone = None
               \/ f.frame \in {assembler.lastDone, assembler.lastDone + 1}
    /\ assembler'.everKey /\ assembler'.lastDone = f.frame
    /\ Enqueue(f, dropped)

HandsOnNothing(dropped) ==
    /\ assembler'.everKey = assembler.everKey
    /\ assembler'.lastDone = assembler.lastDone
    /\ owed' = (owed \/ dropped)
    /\ UNCHANGED <<queue, causes>>

LEMMA ReceiveEffect ==
    ASSUME Assembling, NEW p \in net, Receive(p)
    PROVE  /\ assembler' \in Assembler /\ NetOK' /\ SlotsOK'
           /\ \E dropped \in BOOLEAN :
                 /\ Signals(dropped)
                 /\ HandsOnNothing(dropped) \/ \E f \in Encoded : HandsOn(p, f, dropped)
<1> USE DEF Assembling
<1> DEFINE a == Restarted(p)
           b == Stored(a, p)
           others == {q \in a.parts : q.index # p.index}
           whole == p.index <= a.slots /\ b.received = b.count
           emitted == whole /\ (b.key \/ b.everKey)
           dropped == ~IsOld(p) /\ (GivesUp(p) \/ (emitted /\ Skips(b)))
           f == [frame |-> p.frame, key |-> b.key]
<1>1. /\ net' \subseteq net /\ UNCHANGED frameId
      /\ assembler' = IF IsOld(p) THEN assembler
                      ELSE IF p.index > a.slots THEN a
                      ELSE IF whole THEN Completed(b) ELSE b
      /\ Signals(dropped)
      /\ IF emitted /\ ~IsOld(p) THEN Enqueue(f, dropped)
         ELSE owed' = (owed \/ dropped) /\ UNCHANGED <<queue, causes>>
  BY DEF Receive, Taken, senderVars
<1>2. /\ a \in Assembler /\ p \in Packet
      /\ a.cur = p.frame /\ a.count = p.count
      /\ a.everKey = assembler.everKey /\ a.lastDone = assembler.lastDone
      /\ IsFiniteSet(a.parts)
      /\ \A q \in a.parts : q.frame = a.cur /\ q.count = a.count
      /\ \A q, r \in a.parts : q.index = r.index => q = r
      /\ a.slots \in {0, a.count}
      /\ a.slots = 0 => a.parts = {}
      /\ a.slots # 0 => a.received = Cardinality(a.parts) /\ a.received < a.count
  BY RestartedFields
<1>3. /\ p.frame \in Frame /\ p.count \in 1..MaxFragments /\ p.index \in 1..MaxFragments
      /\ p.frame < frameId
      /\ \A q \in net : q.frame = p.frame => q.count = p.count
  BY <1>2 DEF Packet, NetOK
<1>4. ASSUME p.index <= a.slots
      PROVE  /\ b \in Assembler
             /\ b.cur = p.frame /\ b.count = p.count /\ b.slots = p.count
             /\ b.everKey = assembler.everKey /\ b.lastDone = assembler.lastDone
             /\ b.parts = others \cup {p}
             /\ b.received = IF others = a.parts THEN a.received + 1 ELSE a.received
             /\ a.received = Cardinality(a.parts) /\ a.received < p.count
  <2>1. a.slots = p.count BY <1>2, <1>3, <1>4
  <2>2. a.received < p.count /\ a.received \in Nat BY <1>2, <1>3, <2>1 DEF Assembler
  <2>3. a.received + 1 <= MaxFragments BY <1>3, <2>2
  <2> HIDE DEF a, b, others
  <2> QED BY <1>2, <1>3, <2>1, <2>2, <2>3, StoredFields DEF a, b, others
<1>5. /\ dropped \in BOOLEAN
      /\ p.index > a.slots <=> ~(p.index <= a.slots)
      /\ whole => p.index <= a.slots
  BY <1>2, <1>3 DEF Assembler
\* The assembler of the next state, in the four ways the packet can go.
<1>6. CASE IsOld(p)
  <2>1. assembler' = assembler /\ dropped = FALSE BY <1>1, <1>6
  <2>2. HandsOnNothing(dropped) BY <1>1, <1>6, <2>1 DEF HandsOnNothing
  <2> QED BY <1>1, <1>5, <2>1, <2>2 DEF NetOK, SlotsOK, TypeOK
<1>7. CASE ~IsOld(p) /\ ~(p.index <= a.slots)
  <2>1. assembler' = a /\ ~emitted BY <1>1, <1>5, <1>7
  <2> HIDE DEF a, b, dropped, emitted, whole, others, f
  <2>2. HandsOnNothing(dropped) BY <1>1, <1>2, <2>1 DEF HandsOnNothing
  <2>3. assembler' \in Assembler /\ NetOK' BY <1>1, <1>2, <1>3, <2>1 DEF NetOK
  <2>4. SlotsOK' BY <1>2, <2>1 DEF SlotsOK
  <2> QED BY <1>1, <1>5, <2>2, <2>3, <2>4
<1>8. CASE ~IsOld(p) /\ p.index <= a.slots
  <2> HIDE DEF a, b, others
  <2>1. b.received <= b.count /\ b.received \in Nat BY <1>2, <1>4, <1>8 DEF Assembler
  <2>2. CASE ~whole
    <3>1. assembler' = b /\ ~emitted /\ b.received # b.count BY <1>1, <1>5, <1>8, <2>2
    <3>2. HandsOnNothing(dropped) BY <1>1, <1>4, <1>8, <3>1 DEF HandsOnNothing
    <3>3. assembler' \in Assembler /\ NetOK' BY <1>1, <1>3, <1>4, <1>8, <3>1 DEF NetOK
    <3>4. IsFiniteSet(others) /\ others \subseteq a.parts BY <1>2, FS_Subset DEF others
    <3>5. Cardinality(b.parts) = b.received /\ IsFiniteSet(b.parts)
      <4>1. p \notin others BY DEF others
      <4>2. Cardinality(others \cup {p}) = Cardinality(others) + 1
        BY <3>4, <4>1, FS_AddElement
      <4>3. IsFiniteSet(others \cup {p}) BY <3>4, FS_AddElement
      <4>4. CASE others = a.parts BY <1>4, <1>8, <4>2, <4>3, <4>4
      <4>5. CASE others # a.parts
        <5>1. PICK q \in a.parts : q.index = p.index BY <4>5 DEF others
        <5>2. others = a.parts \ {q} BY <1>2, <5>1 DEF others
        <5>3. Cardinality(others) = Cardinality(a.parts) - 1 BY <1>2, <5>1, <5>2, FS_RemoveElement
        <5>4. Cardinality(a.parts) \in Nat BY <1>2, FS_CardinalityType
        <5>5. Cardinality(others \cup {p}) = Cardinality(a.parts) BY <4>2, <5>3, <5>4
        <5> QED BY <1>4, <1>8, <4>3, <4>5, <5>5
      <4> QED BY <4>4, <4>5
    <3>6. \A q \in b.parts : q.frame = b.cur /\ q.count = b.count BY <1>2, <1>4, <1>8, <3>4
    <3>7. \A q, r \in b.parts : q.index = r.index => q = r
      BY <1>2, <1>4, <1>8, <3>4 DEF others
    <3>8. SlotsOK' BY <1>3, <1>4, <1>8, <2>1, <3>1, <3>5, <3>6, <3>7 DEF SlotsOK
    <3> QED BY <1>1, <1>5, <3>2, <3>3, <3>8
  <2>3. CASE whole
    <3>1. assembler' = Completed(b) BY <1>1, <1>5, <1>8, <2>3
    <3>2. LET c == Completed(b) IN
          /\ c \in Assembler
          /\ c.slots = 0 /\ c.parts = {} /\ c.count = b.count
          /\ b.key \/ b.everKey => c.cur = None /\ c.everKey /\ c.lastDone = b.cur
          /\ ~(b.key \/ b.everKey) =>
                c.cur = b.cur /\ c.everKey = b.everKey /\ c.lastDone = b.lastDone
      BY <1>3, <1>4, <1>8, CompletedFields
    <3>3. NetOK'
      <4>1. assembler'.cur \in {None, p.frame} /\ assembler'.count = p.count
        BY <1>4, <1>8, <3>1, <3>2
      <4>2. None < frameId /\ \A q \in net : q.frame # None BY DEF TypeOK, None, Frame, Packet
      <4> QED BY <1>1, <1>3, <4>1, <4>2 DEF NetOK
    <3>4. IsFiniteSet({}) BY FS_EmptySet
    <3>5. SlotsOK' BY <3>1, <3>2, <3>4 DEF SlotsOK
    <3>6. CASE b.key \/ b.everKey
      <4>1. f \in Encoded /\ f.frame = p.frame /\ f.key = b.key
        BY <1>3, <1>4, <1>8 DEF Encoded, Assembler
      <4>2. Enqueue(f, dropped) BY <1>1, <1>8, <2>3, <3>6
      <4>3. dropped \/ ~Skips(b) BY <1>8, <2>3, <3>6
      <4>4. dropped \/ assembler.lastDone = None
                    \/ f.frame \in {assembler.lastDone, assembler.lastDone + 1}
        BY <1>4, <1>8, <4>1, <4>3 DEF Skips
      <4> HIDE DEF f, dropped, whole, emitted
      <4>5. HandsOn(p, f, dropped)
        BY <1>4, <1>8, <3>1, <3>2, <3>6, <4>1, <4>2, <4>4 DEF HandsOn
      <4> QED BY <1>1, <1>5, <3>1, <3>2, <3>3, <3>5, <4>1, <4>5
    <3>7. CASE ~(b.key \/ b.everKey)
      <4>1. owed' = (owed \/ dropped) /\ UNCHANGED <<queue, causes>> BY <1>1, <3>7
      <4> HIDE DEF f, dropped, whole, emitted
      <4>2. HandsOnNothing(dropped)
        BY <1>4, <1>8, <3>1, <3>2, <3>7, <4>1 DEF HandsOnNothing
      <4> QED BY <1>1, <1>5, <3>1, <3>2, <3>3, <3>5, <4>2
    <3> QED BY <3>6, <3>7
  <2> QED BY <2>2, <2>3
<1> QED BY <1>6, <1>7, <1>8

\* Packets of a frame are sent once, with a number no packet had before.
LEMMA ProcessAssembling == Assembling /\ Process => Assembling'
<1> SUFFICES ASSUME Assembling, Process PROVE Assembling' OBVIOUS
<1> USE DEF Assembling
<1>1. /\ frameId < MaxFrames /\ frameId' = frameId + 1 /\ keyRequested' \in BOOLEAN
      /\ UNCHANGED <<asked, duplicates, assembler, queue, needsKeyframe, renderVars, owed,
                     causes>>
  BY DEF Process
<1>2. net' = net \/ \E n \in 1..MaxFragments : \E kept \in SUBSET Fragments(Forced, n) :
                        net' = net \cup kept
  BY DEF Process, SendEncoded
<1>3. frameId \in Frame /\ frameId' \in Frame BY <1>1 DEF TypeOK, Frame
<1>4. Forced \in BOOLEAN BY DEF Forced, TypeOK
<1>5. \A p \in net : p.frame # frameId BY <1>3 DEF NetOK, TypeOK, Packet, Frame
<1>6. PICK new \in SUBSET Packet :
         /\ net' = net \cup new
         /\ \E n \in 1..MaxFragments :
               \A p \in new : p.frame = frameId /\ p.count = n /\ p.index <= n
  <2>1. CASE net' = net
    <3>1. net' = net \cup {} BY <2>1
    <3>2. 1 \in 1..MaxFragments OBVIOUS
    <3> WITNESS {} \in SUBSET Packet
    <3> QED BY <3>1, <3>2
  <2>2. ASSUME NEW n \in 1..MaxFragments, NEW kept \in SUBSET Fragments(Forced, n),
               net' = net \cup kept
        PROVE  \E new \in SUBSET Packet :
                  /\ net' = net \cup new
                  /\ \E m \in 1..MaxFragments :
                        \A p \in new : p.frame = frameId /\ p.count = m /\ p.index <= m
    <3>1. kept \subseteq Packet BY <1>3, <1>4 DEF Fragments, Packet
    <3>2. \A p \in kept : p.frame = frameId /\ p.count = n /\ p.index <= n BY DEF Fragments
    <3> QED BY <2>2, <3>1, <3>2
  <2> QED BY <1>2, <2>1, <2>2
<1>7. TypeOK'
  <2>1. net' \subseteq Packet BY <1>6 DEF TypeOK
  <2> QED BY <1>1, <1>3, <2>1 DEF TypeOK, renderVars
<1>8. NetOK'
  <2>1. \A p \in net : p.frame < frameId' BY <1>1, <1>3 DEF NetOK, TypeOK, Packet, Frame
  <2>2. frameId < frameId' /\ assembler.cur < frameId' /\ assembler.cur # frameId
    BY <1>1, <1>3 DEF NetOK, TypeOK, Assembler, Frame, None
  <2> QED BY <1>1, <1>5, <1>6, <2>1, <2>2 DEF NetOK
<1>9. SlotsOK' BY <1>1 DEF SlotsOK
<1> QED BY <1>7, <1>8, <1>9

\* What a frame that was handed on makes of the queue.
LEMMA EnqueueType ==
    ASSUME TypeOK, NEW f \in Encoded, NEW dropped \in BOOLEAN, Enqueue(f, dropped)
    PROVE  queue' \in Seq(Encoded) /\ Len(queue') <= QueueSize /\ owed' \in BOOLEAN
           /\ causes' \subseteq {"full", "twice", "cleared", "unread"}
<1>1. CASE QueueHasRoom
  <2>1. queue' = Append(queue, f) /\ owed' = ((owed \/ dropped) /\ ~f.key)
        /\ causes' \in {causes, causes \cup {"twice"}}
    BY <1>1 DEF Enqueue
  <2>2. queue' \in Seq(Encoded) /\ Len(queue') = Len(queue) + 1 BY <2>1 DEF TypeOK
  <2>3. Len(queue') <= QueueSize BY <1>1, <2>2 DEF QueueHasRoom, TypeOK
  <2>4. owed' \in BOOLEAN BY <2>1
  <2>5. causes' \subseteq {"full", "twice", "cleared", "unread"} BY <2>1 DEF TypeOK
  <2> QED BY <2>2, <2>3, <2>4, <2>5
<1>2. CASE ~QueueHasRoom
  BY <1>2 DEF Enqueue, TypeOK
<1> QED BY <1>1, <1>2

LEMMA DecodeType ==
    ASSUME TypeOK, queue # <<>>, Decode(Head(queue))
    PROVE  /\ Head(queue) \in Encoded /\ Head(queue) = queue[1]
           /\ queue' \in Seq(Encoded) /\ Len(queue') <= QueueSize
           /\ last' \in Frame /\ clean' \in BOOLEAN
<1>1. Head(queue) \in Encoded /\ Head(queue) = queue[1] /\ Len(queue) \in Nat \ {0}
  BY DEF TypeOK
<1>2. queue' \in Seq(Encoded) /\ Len(queue') <= QueueSize BY <1>1 DEF Decode, TypeOK
<1>3. last' \in Frame BY <1>1 DEF Decode, Encoded
<1>4. clean' \in BOOLEAN BY <1>1 DEF Decode, Intact, Encoded, TypeOK
<1> QED BY <1>1, <1>2, <1>3, <1>4

LEMMA AssemblingInductive == Assembling /\ [Next]_vars => Assembling'
<1> SUFFICES ASSUME Assembling, [Next]_vars PROVE Assembling' OBVIOUS
<1> USE DEF Assembling
<1>1. CASE Process BY <1>1, ProcessAssembling
<1>2. CASE RequestArrives
  <2>1. TypeOK' BY <1>2 DEF RequestArrives, TypeOK, netVars, renderVars
  <2>2. NetOK' BY <1>2 DEF RequestArrives, NetOK, netVars
  <2>3. SlotsOK' BY <1>2 DEF RequestArrives, SlotsOK
  <2> QED BY <2>1, <2>2, <2>3
<1>3. ASSUME NEW p \in net, Receive(p) PROVE Assembling'
  <2>1. PICK dropped \in BOOLEAN :
           /\ Signals(dropped)
           /\ HandsOnNothing(dropped) \/ \E f \in Encoded : HandsOn(p, f, dropped)
    BY <1>3, ReceiveEffect
  <2>2. /\ net' \subseteq net /\ duplicates' \in 0..MaxDuplicates
        /\ UNCHANGED <<senderVars, renderVars>>
    BY <1>3 DEF Receive, Taken, TypeOK
  <2>3. needsKeyframe' \in BOOLEAN /\ asked' \in BOOLEAN BY <2>1 DEF Signals, TypeOK
  <2>4. queue' \in Seq(Encoded) /\ Len(queue') <= QueueSize /\ owed' \in BOOLEAN
        /\ causes' \subseteq {"full", "twice", "cleared", "unread"}
    <3>1. CASE HandsOnNothing(dropped) BY <3>1 DEF HandsOnNothing, TypeOK
    <3>2. ASSUME NEW f \in Encoded, HandsOn(p, f, dropped)
          PROVE  queue' \in Seq(Encoded) /\ Len(queue') <= QueueSize /\ owed' \in BOOLEAN
                 /\ causes' \subseteq {"full", "twice", "cleared", "unread"}
      BY <3>2, EnqueueType DEF HandsOn
    <3> QED BY <2>1, <3>1, <3>2
  <2>5. assembler' \in Assembler /\ NetOK' /\ SlotsOK' BY <1>3, ReceiveEffect
  <2> QED BY <2>2, <2>3, <2>4, <2>5 DEF TypeOK, senderVars, renderVars
<1>4. CASE TakeFrame
  <2>1. /\ queue # <<>> /\ Decode(Head(queue)) /\ at' \in {"recv", "drain"}
        /\ UNCHANGED <<senderVars, netVars, assembler, shown, owed, causes>>
    BY <1>4 DEF TakeFrame, TypeOK
  <2>2. /\ suppress' \in BOOLEAN /\ keySeen' \in BOOLEAN
        /\ latest' \in BOOLEAN /\ needsKeyframe' \in BOOLEAN /\ asked' \in BOOLEAN
    BY <1>4, <2>1, DecodeType DEF TakeFrame, Signals, TypeOK, Intact, Encoded
  <2>3. TypeOK' BY <2>1, <2>2, DecodeType DEF TypeOK, senderVars, netVars
  <2> QED BY <2>1, <2>3 DEF NetOK, SlotsOK, senderVars, netVars
<1>5. CASE DrainFrame
  <2>1. /\ queue # <<>> /\ Decode(Head(queue))
        /\ UNCHANGED <<senderVars, asked, netVars, assembler, at, shown, owed, causes>>
    BY <1>5 DEF DrainFrame
  <2>2. /\ suppress' \in BOOLEAN /\ keySeen' \in BOOLEAN
        /\ latest' \in BOOLEAN /\ needsKeyframe' \in BOOLEAN
    BY <1>5, <2>1, DecodeType DEF DrainFrame, TypeOK, Intact, Encoded
  <2>3. TypeOK' BY <2>1, <2>2, DecodeType DEF TypeOK, senderVars, netVars
  <2> QED BY <2>1, <2>3 DEF NetOK, SlotsOK, senderVars, netVars
<1>6. CASE Drained
  BY <1>6 DEF Drained, TypeOK, NetOK, SlotsOK, senderVars, netVars
<1>7. CASE Finish
  <2>1. /\ at' = "recv" /\ suppress' \in BOOLEAN /\ needsKeyframe' \in BOOLEAN
        /\ causes' \subseteq {"full", "twice", "cleared", "unread"}
        /\ shown' \in {"nothing", "intact", "corrupt"}
        /\ UNCHANGED <<senderVars, asked, netVars, assembler, queue, keySeen, clean, last,
                       latest, owed>>
    BY <1>7 DEF Finish, TypeOK
  <2>2. TypeOK' BY <2>1 DEF TypeOK, senderVars, netVars
  <2> QED BY <2>1, <2>2 DEF NetOK, SlotsOK, senderVars, netVars
<1>8. CASE UNCHANGED vars
  BY <1>8 DEF vars, senderVars, netVars, renderVars, TypeOK, NetOK, SlotsOK
<1> QED BY <1>1, <1>2, <1>3, <1>4, <1>5, <1>6, <1>7, <1>8 DEF Next

----------------------------------------------------------------------------
\* Taking a frame moves every other one a place forward, with what it has before
\* and after it.
LEMMA TailShift ==
    ASSUME TypeOK, queue # <<>>, queue' = Tail(queue), last' = queue[1].frame
    PROVE  /\ Len(queue) \in Nat \ {0} /\ Len(queue') = Len(queue) - 1
           /\ DOMAIN queue = 1..Len(queue) /\ DOMAIN queue' = 1..Len(queue')
           /\ \A i \in DOMAIN queue' : queue'[i] = queue[i + 1] /\ (Gap(i)' <=> Gap(i + 1))
           /\ \A i \in Nat : Mended(i + 1) => Mended(i)'
<1>1. /\ Len(queue) \in Nat \ {0} /\ Len(queue') = Len(queue) - 1
      /\ DOMAIN queue = 1..Len(queue) /\ DOMAIN queue' = 1..Len(queue')
      /\ \A i \in DOMAIN queue' : queue'[i] = queue[i + 1]
  BY DEF TypeOK
<1>2. ASSUME NEW i \in DOMAIN queue' PROVE Gap(i)' <=> Gap(i + 1)
  <2>1. i \in Nat \ {0} /\ queue'[i] = queue[i + 1] BY <1>1
  <2>2. Before(i)' = Before(i + 1)
    <3>1. CASE i = 1 BY <3>1 DEF Before
    <3>2. CASE i # 1
      <4>1. i - 1 \in DOMAIN queue' BY <1>1, <1>2, <3>2
      <4>2. queue'[i - 1] = queue[i] BY <1>1, <4>1
      <4> QED BY <2>1, <3>2, <4>2 DEF Before
    <3> QED BY <3>1, <3>2
  <2> QED BY <2>1, <2>2 DEF Gap
<1>3. ASSUME NEW i \in Nat, Mended(i + 1) PROVE Mended(i)'
  <2>1. PICK j \in DOMAIN queue : j > i + 1 /\ queue[j].key BY <1>3 DEF Mended
  <2>2. j - 1 \in DOMAIN queue' /\ j - 1 > i BY <1>1, <2>1
  <2>3. queue'[j - 1] = queue[j] BY <1>1, <2>1, <2>2
  <2> QED BY <2>1, <2>2, <2>3 DEF Mended
<1> QED BY <1>1, <1>2, <1>3

\* What taking a frame does to a queue that was in order.
LEMMA TakeOrder ==
    ASSUME TypeOK, HandedOn, Told, queue # <<>>, Decode(Head(queue))
    PROVE  /\ last' \in Frame /\ last' # None
           /\ assembler' = assembler => HandedOn'
           /\ owed' = owed => \A i \in DOMAIN queue' : Gap(i)' => owed' \/ Mended(i)'
           /\ ~clean' /\ at # "finish" => needsKeyframe \/ suppress \/ Mended(0)'
           /\ clean' = Intact(Head(queue))
<1>1. /\ Head(queue) = queue[1] /\ queue[1] \in Encoded
      /\ queue' = Tail(queue) /\ last' = queue[1].frame /\ clean' = Intact(queue[1])
  BY DecodeType DEF Decode
<1>2. last' \in Frame /\ last' # None BY <1>1 DEF Encoded, Frame, None
<1>3. /\ Len(queue) \in Nat \ {0} /\ Len(queue') = Len(queue) - 1
      /\ DOMAIN queue = 1..Len(queue) /\ DOMAIN queue' = 1..Len(queue')
      /\ \A i \in DOMAIN queue' : queue'[i] = queue[i + 1] /\ (Gap(i)' <=> Gap(i + 1))
      /\ \A i \in Nat : Mended(i + 1) => Mended(i)'
  BY <1>1, TailShift
<1>4. ASSUME assembler' = assembler PROVE HandedOn'
  <2>1. assembler.lastDone = queue[Len(queue)].frame BY DEF HandedOn
  <2>2. queue' = <<>> => Len(queue) = 1 BY <1>3
  <2>3. ASSUME queue' # <<>> PROVE queue'[Len(queue')] = queue[Len(queue)]
    <3>1. queue' \in Seq(Encoded) BY DecodeType
    <3>2. Len(queue') \in DOMAIN queue' BY <1>3, <2>3, <3>1
    <3> QED BY <1>3, <3>2
  <2> QED BY <1>1, <1>2, <1>4, <2>1, <2>2, <2>3 DEF HandedOn
<1>5. ASSUME owed' = owed, NEW i \in DOMAIN queue', Gap(i)' PROVE owed' \/ Mended(i)'
  <2>1. i \in Nat /\ i + 1 \in DOMAIN queue /\ Gap(i + 1) BY <1>3, <1>5
  <2> QED BY <1>3, <1>5, <2>1 DEF Told
<1>6. ASSUME ~clean', at # "finish" PROVE needsKeyframe \/ suppress \/ Mended(0)'
  <2>1. ~queue[1].key /\ (~clean \/ queue[1].frame # last + 1) BY <1>1, <1>6 DEF Intact
  <2>2. last # None BY <2>1 DEF HandedOn
  <2>3. Mended(0) => Mended(1)
    <3> SUFFICES ASSUME NEW j \in DOMAIN queue, j > 0, queue[j].key PROVE j > 1
      BY DEF Mended
    <3> QED BY <1>3, <2>1
  <2>4. Mended(1) => Mended(0)'
    <3>1. Mended(0 + 1) => Mended(0)' BY <1>3
    <3> QED BY <3>1
  <2>5. CASE ~clean BY <1>6, <2>2, <2>3, <2>4, <2>5 DEF Told
  <2>6. CASE queue[1].frame # last + 1
    <3>1. Gap(1) BY <2>1, <2>6 DEF Gap, Before
    <3>2. 1 \in DOMAIN queue BY <1>3
    <3> QED BY <2>4, <3>1, <3>2 DEF Told
  <2> QED BY <2>1, <2>5, <2>6
<1> QED BY <1>1, <1>2, <1>4, <1>5, <1>6

\* A packet may put a frame behind the others.
LEMMA ReceivePictures ==
    ASSUME Assembling, HandedOn, Told, Pictures, causes = {}, causes' = {},
           NEW p \in net, Receive(p)
    PROVE  HandedOn' /\ Told' /\ Pictures'
<1> USE DEF Assembling
<1>1. PICK dropped \in BOOLEAN :
         /\ Signals(dropped)
         /\ HandsOnNothing(dropped) \/ \E f \in Encoded : HandsOn(p, f, dropped)
  BY ReceiveEffect
<1>2. UNCHANGED <<at, suppress, keySeen, clean, last, latest, shown>>
  BY DEF Receive, renderVars
<1>3. (needsKeyframe => needsKeyframe') /\ (dropped => needsKeyframe')
  BY <1>1 DEF Signals
<1>4. Pictures' BY <1>2 DEF Pictures
<1>5. CASE HandsOnNothing(dropped)
  <2>1. UNCHANGED queue /\ owed' = (owed \/ dropped) /\ assembler'.everKey = assembler.everKey
        /\ assembler'.lastDone = assembler.lastDone
    BY <1>5 DEF HandsOnNothing
  <2>2. HandedOn' BY <1>2, <2>1 DEF HandedOn
  <2>3. Told' BY <1>2, <1>3, <2>1 DEF Told, Gap, Before, Mended
  <2> QED BY <1>4, <2>2, <2>3
<1>6. ASSUME NEW f \in Encoded, HandsOn(p, f, dropped) PROVE HandedOn' /\ Told'
  <2> DEFINE n == Len(queue)
  <2>1. /\ f.frame \in Frame /\ f.frame # None
        /\ f.key \/ assembler.everKey
        /\ dropped \/ assembler.lastDone = None
                   \/ f.frame \in {assembler.lastDone, assembler.lastDone + 1}
        /\ assembler'.everKey /\ assembler'.lastDone = f.frame
    BY <1>6 DEF HandsOn, Encoded, Frame, None
  <2>2. /\ queue' = Append(queue, f) /\ owed' = ((owed \/ dropped) /\ ~f.key)
        /\ f.frame # assembler.lastDone
    BY <1>6 DEF HandsOn, Enqueue
  <2>3. /\ n \in Nat /\ DOMAIN queue = 1..n /\ DOMAIN queue' = 1..(n + 1) /\ Len(queue') = n + 1
        /\ queue'[n + 1] = f /\ \A i \in 1..n : queue'[i] = queue[i]
        /\ queue' # <<>> /\ (queue = <<>> <=> n = 0)
    BY <2>2 DEF TypeOK
  <2>4. HandedOn'
    <3>1. queue'[Len(queue')].frame = assembler'.lastDone BY <2>1, <2>3
    <3>2. ASSUME last' = None PROVE queue'[1].key
      <4>1. CASE queue = <<>>
        <5>1. assembler.lastDone = None BY <1>2, <3>2, <4>1 DEF HandedOn
        <5> QED BY <2>1, <2>3, <4>1, <5>1 DEF HandedOn
      <4>2. CASE queue # <<>> BY <1>2, <2>3, <3>2, <4>2 DEF HandedOn
      <4> QED BY <4>1, <4>2
    <3>3. assembler'.everKey <=> assembler'.lastDone # None BY <2>1
    <3>4. queue' # <<>> BY <2>3
    <3> HIDE DEF n
    <3>5. queue' # <<>> /\ last' = None => queue'[1].key BY <3>2
    <3>6. queue' # <<>> => assembler'.lastDone = queue'[Len(queue')].frame BY <3>1
    <3>7. queue' = <<>> => assembler'.lastDone = last' BY <3>4
    <3> QED BY <3>3, <3>5, <3>6, <3>7 DEF HandedOn
  <2>5. owed' => needsKeyframe' BY <1>3, <2>2 DEF Told
  <2>6. ASSUME NEW i \in Nat, Mended(i) PROVE Mended(i)'
    <3>1. PICK j \in DOMAIN queue : j > i /\ queue[j].key BY <2>6 DEF Mended
    <3>2. j \in DOMAIN queue' /\ queue'[j] = queue[j] BY <2>3
    <3> QED BY <3>1, <3>2 DEF Mended
  <2>7. ASSUME NEW i \in DOMAIN queue', Gap(i)' PROVE owed' \/ Mended(i)'
    <3>1. CASE i \in 1..n
      <4>1. Before(i)' = Before(i)
        <5>1. CASE i = 1 BY <1>2, <5>1 DEF Before
        <5>2. CASE i # 1
          <6>1. i - 1 \in 1..n BY <2>3, <3>1, <5>2
          <6> QED BY <2>3, <5>2, <6>1 DEF Before
        <5> QED BY <5>1, <5>2
      <4>2. Gap(i) BY <2>3, <2>7, <3>1, <4>1 DEF Gap
      <4>3. CASE f.key
        <5>1. n + 1 \in DOMAIN queue' /\ n + 1 > i /\ queue'[n + 1].key BY <2>3, <3>1, <4>3
        <5> QED BY <5>1 DEF Mended
      <4>4. CASE ~f.key
        <5>1. i \in Nat /\ i \in DOMAIN queue BY <2>3, <3>1
        <5>2. owed \/ Mended(i) BY <4>2, <5>1 DEF Told
        <5> QED BY <2>2, <2>6, <4>4, <5>1, <5>2
      <4> QED BY <4>3, <4>4
    <3>2. CASE i = n + 1
      <4>1. Before(i)' = assembler.lastDone
        <5>1. CASE n = 0 BY <1>2, <2>3, <3>2, <5>1 DEF Before, HandedOn
        <5>2. CASE n # 0
          <6>1. i # 1 /\ i - 1 = n /\ n \in 1..n BY <2>3, <3>2, <5>2
          <6> QED BY <2>3, <5>2, <6>1 DEF Before, HandedOn
        <5> QED BY <5>1, <5>2
      <4>2. ~f.key /\ f.frame # assembler.lastDone + 1 BY <2>3, <2>7, <3>2, <4>1 DEF Gap
      <4>3. assembler.lastDone # None BY <2>1, <4>2 DEF HandedOn
      <4> QED BY <2>1, <2>2, <4>2, <4>3
    <3> QED BY <2>3, <3>1, <3>2
  <2>8. ~clean' /\ last' # None =>
            needsKeyframe' \/ suppress' \/ (at' # "finish" /\ Mended(0)')
    BY <1>2, <1>3, <2>6 DEF Told
  <2>9. Told' BY <2>5, <2>7, <2>8 DEF Told
  <2> QED BY <2>4, <2>9
<1> QED BY <1>1, <1>4, <1>5, <1>6

LEMMA SoundInductive == Assembling /\ Sound /\ [Next]_vars => Sound'
<1> SUFFICES ASSUME Assembling, Sound, [Next]_vars, causes' = {}
             PROVE  HandedOn' /\ Told' /\ Pictures'
  BY DEF Sound
<1> USE DEF Assembling
<1>1. causes \subseteq causes'
  <2>1. ASSUME NEW p \in net, Receive(p) PROVE causes \subseteq causes'
    BY <2>1, ReceiveEffect DEF HandsOnNothing, HandsOn, Enqueue
  <2> QED BY <2>1 DEF Next, Process, RequestArrives, TakeFrame, DrainFrame, Drained, Finish, vars
<1>2. causes = {} /\ HandedOn /\ Told /\ Pictures BY <1>1 DEF Sound
<1>3. CASE Process \/ RequestArrives \/ UNCHANGED vars
  <2>1. UNCHANGED <<assembler, queue, needsKeyframe, renderVars, owed>>
    BY <1>3 DEF Process, RequestArrives, vars
  <2> QED BY <1>2, <2>1 DEF HandedOn, Told, Pictures, Gap, Before, Mended, renderVars
<1>4. ASSUME NEW p \in net, Receive(p) PROVE HandedOn' /\ Told' /\ Pictures'
  BY <1>2, <1>4, ReceivePictures
<1>5. CASE TakeFrame
  <2>1. /\ queue # <<>> /\ Decode(Head(queue)) /\ at # "finish" /\ at' # "finish"
        /\ UNCHANGED <<assembler, owed, shown>>
    BY <1>5 DEF TakeFrame
  <2>2. /\ last' # None /\ HandedOn'
        /\ \A i \in DOMAIN queue' : Gap(i)' => owed' \/ Mended(i)'
        /\ ~clean' => needsKeyframe \/ suppress \/ Mended(0)'
        /\ clean' = Intact(Head(queue))
    BY <1>2, <2>1, TakeOrder
  <2>3. needsKeyframe => needsKeyframe' BY <1>5 DEF TakeFrame, Signals
  <2>4. ~clean' => needsKeyframe' \/ suppress' \/ Mended(0)'
    BY <1>5, <2>2, <2>3 DEF TakeFrame
  <2>5. Told' BY <1>2, <2>1, <2>2, <2>3, <2>4 DEF Told
  <2>6. Pictures' BY <1>2, <1>5, <2>1, <2>2 DEF Pictures, TakeFrame
  <2> QED BY <2>2, <2>5, <2>6
<1>6. CASE DrainFrame
  <2>1. /\ queue # <<>> /\ Decode(Head(queue)) /\ at = "drain" /\ at' = at
        /\ UNCHANGED <<assembler, owed, shown>>
    BY <1>6 DEF DrainFrame
  <2>2. /\ last' # None /\ HandedOn'
        /\ \A i \in DOMAIN queue' : Gap(i)' => owed' \/ Mended(i)'
        /\ ~clean' => needsKeyframe \/ suppress \/ Mended(0)'
        /\ clean' = Intact(Head(queue))
    BY <1>2, <2>1, TakeOrder
  <2>3. (needsKeyframe => needsKeyframe') /\ (suppress => suppress') BY <1>6 DEF DrainFrame
  <2>4. Told' BY <1>2, <2>1, <2>2, <2>3 DEF Told
  <2>5. Pictures' BY <1>2, <1>6, <2>1, <2>2 DEF Pictures, DrainFrame
  <2> QED BY <2>2, <2>4, <2>5
<1>7. CASE Drained
  <2>1. /\ queue = <<>> /\ at # "recv"
        /\ UNCHANGED <<assembler, queue, needsKeyframe, suppress, clean, last, latest, shown, owed>>
    BY <1>7 DEF Drained
  <2>2. DOMAIN queue = {} BY <2>1
  <2>3. ~Mended(0) BY <2>2 DEF Mended
  <2>4. HandedOn' /\ Pictures' BY <1>2, <2>1 DEF HandedOn, Pictures
  <2>5. Told' BY <1>2, <2>1, <2>2, <2>3 DEF Told
  <2> QED BY <2>4, <2>5
<1>8. CASE Finish
  <2> DEFINE resumes == suppress /\ keySeen
  <2>1. /\ at = "finish" /\ at' = "recv"
        /\ suppress' = (suppress /\ ~resumes)
        /\ needsKeyframe' = (needsKeyframe /\ ~resumes)
        /\ shown' = IF suppress' THEN shown ELSE IF latest THEN "intact" ELSE "corrupt"
        /\ UNCHANGED <<assembler, queue, clean, last, latest, owed>>
    BY <1>8 DEF Finish
  <2>2. resumes => ~owed /\ clean BY <1>8 DEF Finish
  <2>3. ~(needsKeyframe /\ ~suppress) BY <1>8 DEF Finish
  <2> HIDE DEF resumes
  <2>4. HandedOn' BY <1>2, <2>1 DEF HandedOn
  <2>5. Told' BY <1>2, <2>1, <2>2 DEF Told, Gap, Before, Mended
  <2>6. ~suppress' => latest
    <3>1. last # None BY <1>2, <2>1 DEF Pictures
    <3>2. ~suppress' => resumes \/ ~suppress BY <2>1
    <3>3. clean => latest BY <1>2, <2>1 DEF Pictures
    <3>4. ~suppress => clean BY <1>2, <2>1, <2>3, <3>1 DEF Told
    <3> QED BY <2>2, <3>2, <3>3, <3>4
  <2>7. Pictures' BY <1>2, <2>1, <2>6 DEF Pictures
  <2> QED BY <2>4, <2>5, <2>7
<1> QED BY <1>3, <1>4, <1>5, <1>6, <1>7, <1>8 DEF Next

LEMMA SoundInit == Init => Sound
<1> SUFFICES ASSUME Init PROVE Sound OBVIOUS
<1>1. /\ assembler.everKey = FALSE /\ assembler.lastDone = None
      /\ queue = <<>> /\ last = None /\ DOMAIN queue = {} /\ ~owed
      /\ at = "recv" /\ shown = "nothing"
  BY DEF Init
<1>2. HandedOn BY <1>1 DEF HandedOn
<1> QED BY <1>1, <1>2 DEF Sound, Told, Pictures

----------------------------------------------------------------------------
\* Every reachable state of sharer, network and viewer is well typed; in
\* particular the fragments counted are never more than the frame has.
THEOREM TypeCorrect == Spec => []TypeOK
<1>1. Assembling => TypeOK BY DEF Assembling
<1> QED BY <1>1, AssemblingInit, AssemblingInductive, PTL DEF Spec

\* No picture is made of the fragments of two frames and no slot is counted
\* twice, whatever the network does with the packets.
THEOREM AlwaysOneFrame == Spec => []OneFrameAtATime
<1>1. Assembling => OneFrameAtATime BY DEF Assembling, SlotsOK, OneFrameAtATime
<1> QED BY <1>1, AssemblingInit, AssemblingInductive, PTL DEF Spec

\* The receiver raises the flag for every frame that does not follow the one it
\* handed on before.
THEOREM SkipsAreSignalled == Spec => SkipIsSignalled
<1>1. Assembling /\ [Next]_vars =>
         (assembler'.lastDone \notin {assembler.lastDone, assembler.lastDone + 1}
            /\ assembler.lastDone # None => needsKeyframe')
  <2> SUFFICES ASSUME Assembling, [Next]_vars, assembler.lastDone # None,
                      assembler'.lastDone \notin {assembler.lastDone, assembler.lastDone + 1}
               PROVE  needsKeyframe'
    OBVIOUS
  <2>1. assembler' # assembler OBVIOUS
  <2>2. PICK p \in net : Receive(p)
    BY <2>1 DEF Next, vars, Process, RequestArrives, TakeFrame, DrainFrame, Drained, Finish
  <2>3. PICK dropped \in BOOLEAN :
           /\ Signals(dropped)
           /\ HandsOnNothing(dropped) \/ \E f \in Encoded : HandsOn(p, f, dropped)
    BY <2>2, ReceiveEffect
  <2>4. dropped BY <2>3 DEF HandsOnNothing, HandsOn
  <2> QED BY <2>3, <2>4 DEF Signals
<1> QED BY <1>1, AssemblingInit, AssemblingInductive, PTL DEF Spec, SkipIsSignalled

\* A corrupt picture has one of the four causes: as long as none of them has
\* occurred the viewer sees intact pictures or the last good one.
THEOREM CorruptionAlwaysHasCause == Spec => []CorruptionHasCause
<1>1. Sound => CorruptionHasCause BY DEF Sound, Pictures, CorruptionHasCause
<1>2. Init => Assembling /\ Sound BY AssemblingInit, SoundInit
<1>3. Assembling /\ Sound /\ [Next]_vars => (Assembling /\ Sound)'
  BY AssemblingInductive, SoundInductive
<1> QED BY <1>1, <1>2, <1>3, PTL DEF Spec
=============================================================================
