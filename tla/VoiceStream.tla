---------------------------- MODULE VoiceStream ----------------------------
(***************************************************************************)
(* One speaker's voice on its way to one listener: the packets of the      *)
(* capture tasks and the end-of-transmission packets of do_stop_transmit,  *)
(* an unreliable network, and the receiver's jitter buffer (jitter.rs as   *)
(* driven by udp_receiver_task of network.rs).                             *)
(*                                                                         *)
(* A packet is known by the capture that made it and its sequence number;  *)
(* the receiver sees the number only.  Numbers restart at 0 with every     *)
(* capture, and an end of transmission carries none that matters.          *)
(***************************************************************************)
EXTENDS PushToTalk, Sequences

CONSTANTS
    SeqSpace,       \* 2^32 in the code: sequence numbers are u32
    LateWindow,     \* 1000 in the code: how far back a packet counts as late
    Delay,          \* target_delay of the jitter buffer (2)
    MaxFrames,      \* bound: frames sent in a behaviour
    MaxDuplicates   \* bound: packets the network delivers twice

Number == 0..(SeqSpace - 1)
None   == SeqSpace

ASSUME StreamAssumption ==
    /\ SeqSpace \in Nat \ {0}
    /\ LateWindow \in Nat
    /\ Delay \in Nat \ {0}
    /\ MaxFrames \in Nat /\ MaxFrames + LateWindow < SeqSpace
    /\ MaxDuplicates \in Nat

VARIABLES
    nextNumber,     \* sequence of each capture task
    frames,         \* how many frames were sent, by all of them
    net,            \* packets under way, in no order
    duplicates,     \* how many packets were delivered twice
    buffer,         \* JitterBuffer.buffer: at most one packet of a number
    next,           \* JitterBuffer.next_seq
    buffering,      \* JitterBuffer.buffering
    arrived,        \* history: what was pushed since the last reset
    playout,        \* history: what was played since the last reset
    lost            \* history: the numbers reported Lost since the last reset

receiverVars == <<buffer, next, buffering, arrived, playout, lost>>
streamVars == <<nextNumber, frames, net, duplicates, receiverVars>>
vars == <<pttVars, streamVars>>

Voice(c, n) == [kind |-> "voice", burst |-> c, seq |-> n]
End(c)      == [kind |-> "end", burst |-> c, seq |-> 0]
VoicePackets == {Voice(c, n) : c \in Request, n \in Number}
Packets      == VoicePackets \cup {End(c) : c \in Request}

Init ==
    /\ PttInit
    /\ nextNumber = [c \in Request |-> 0] /\ frames = 0
    /\ net = {}
    /\ duplicates = 0
    /\ buffer = {} /\ next = None /\ buffering = TRUE
    /\ arrived = {} /\ playout = <<>> /\ lost = {}

----------------------------------------------------------------------------
(* The sender.  The queue to udp_sender_task and the socket keep the order, *)
(* the network does not, so a packet handed over is under way.             *)

\* A frame that the voice detector or the mute switch suppresses, or that
\* cannot be encoded, takes no number.  One that cannot be encrypted does, which
\* the receiver cannot tell from a lost one.
SendFrame(c) ==
    /\ CaptureSends(c)
    /\ \/ UNCHANGED <<nextNumber, frames, net>>
       \/ /\ frames < MaxFrames /\ frames' = frames + 1
          /\ nextNumber' = [nextNumber EXCEPT ![c] = @ + 1]
          /\ net' = net \cup {Voice(c, nextNumber[c])}
    /\ UNCHANGED <<duplicates, receiverVars>>

SendEnd(i) ==
    /\ StopEnds(i)
    /\ net' = net \cup {End(current)}
    /\ UNCHANGED <<nextNumber, frames, duplicates, receiverVars>>

----------------------------------------------------------------------------
(* The jitter buffer.                                                      *)

\* How far b is ahead of a, as wrapping_sub computes it.
Ahead(b, a) == (b + SeqSpace - a) % SeqSpace

\* Variants for mutation testing: late packets kept, the expected one dropped.
NeverLate(n) == FALSE
LateAtNext(n) ==
    ~buffering /\ next # None /\ Ahead(next, n) \in 0..(LateWindow - 1)

IsLate(n) ==
    ~buffering /\ next # None /\ Ahead(next, n) \in 1..(LateWindow - 1)

Smallest(set) == CHOOSE p \in set : \A q \in set : p.seq <= q.seq

Push(p) ==
    LET inserted == {q \in buffer : q.seq # p.seq} \cup {p} IN
    IF IsLate(p.seq) THEN buffer
    ELSE IF Cardinality(inserted) > 4 * Delay THEN inserted \ {Smallest(inserted)}
    ELSE inserted

Filling(set) == buffering /\ Cardinality(set) < Delay
Passed(first, end) == {n \in Number : Ahead(n, first) <= Ahead(end, first)}

\* The packets of a set from the first number on, which may be the highest.
InOrder(set, first) ==
    {s \in [1..Cardinality(set) -> set] :
        \A i, j \in DOMAIN s : i < j => Ahead(s[i].seq, first) < Ahead(s[j].seq, first)}

\* drain_jitter_buffer calls pop until it returns None: every number from the
\* next one on is played or reported lost until nothing is buffered.
Drain(set) ==
    IF set = {} \/ Filling(set)
    THEN /\ buffer' = set
         /\ UNCHANGED <<next, buffering, playout, lost>>
    ELSE LET first == IF buffering THEN Smallest(set).seq ELSE next IN
         \E ordered \in InOrder(set, first) :
            LET end == ordered[Len(ordered)].seq IN
            /\ buffer' = {}
            /\ next' = (end + 1) % SeqSpace
            /\ buffering' = FALSE
            /\ playout' = playout \o ordered
            /\ lost' = lost \cup (Passed(first, end) \ {p.seq : p \in set})

\* A packet leaves the network, or stays to be delivered once more.  One that
\* is lost is never taken.
Taken(p) ==
    /\ p \in net
    /\ \/ net' = net \ {p} /\ UNCHANGED duplicates
       \/ /\ duplicates < MaxDuplicates
          /\ duplicates' = duplicates + 1
          /\ UNCHANGED net

\* Packets of a transmission are not so late that the window misses them.
InTime(p) == \A q \in arrived : q.burst = p.burst => q.seq + 1 < p.seq + LateWindow

\* The first byte tells voice from the end of a transmission.
IsVoice(p) == p.kind = "voice"

ReceiveVoice(p) ==
    /\ IsVoice(p)
    /\ InTime(p)
    /\ Taken(p)
    /\ arrived' = arrived \cup {p}
    /\ Drain(Push(p))
    /\ UNCHANGED <<pttVars, nextNumber, frames>>

\* Every arrival has drained what it could (NothingWasted), so the drain before
\* the reset finds nothing to play.
ReceiveEnd(p) ==
    /\ p.kind = "end"
    /\ Taken(p)
    /\ buffer' = {} /\ next' = None /\ buffering' = TRUE
    /\ arrived' = {} /\ playout' = <<>> /\ lost' = {}
    /\ UNCHANGED <<pttVars, nextNumber, frames>>

----------------------------------------------------------------------------
Sender ==
    \/ \E k \in Keys : /\ KeyPress(k) \/ KeyRelease(k)
                       /\ UNCHANGED streamVars
    \/ \E kind \in Kinds : /\ WindowRequest(kind)
                           /\ UNCHANGED streamVars

\* What the runtime polls: the task of a request.
Handle(i) ==
    \/ /\ CheckMode(i) \/ StartTransmit(i) \/ StopTransmit(i)
       /\ UNCHANGED streamVars
    \/ SendEnd(i)

Capture(c) ==
    \/ /\ CaptureOpens(c) \/ CaptureFrame(c) \/ CaptureEnds(c)
       /\ UNCHANGED streamVars
    \/ SendFrame(c)

Receiver == \E p \in net : ReceiveVoice(p) \/ ReceiveEnd(p)

Next == \/ Sender
        \/ \E i \in Request : Handle(i) \/ Capture(i)
        \/ Receiver

Spec == Init /\ [][Next]_vars

\* The runtime polls every spawned task that the lock lets go on, and a stop
\* waits for the capture task two seconds at most; the capture device may hang.
FairSpec == Spec /\ \A i \in Request : WF_vars(Handle(i))

----------------------------------------------------------------------------
(* Properties.                                                             *)

\* The end of a transmission is the last packet of it that leaves the client,
\* unless the stop gave up waiting for the capture task.
EndIsLast ==
    [][\A c \in Request \ abandoned' :
         nextNumber'[c] # nextNumber[c] => request[c].at = "done" /\ current = c]_vars

\* The jitter buffer has seen packets of one transmission only since it was
\* reset: no end of transmission was lost, or overtaken by packets.
OneTransmission == \A p, q \in arrived : p.burst = q.burst

\* "Some(JitterFrame::Lost) if the packet is missing but we have later
\* packets": a number is concealed only if a later packet is there to be heard.
LostMeansLater == \A n \in lost : \E p \in arrived : p.seq > n

\* "delivers them in order": of one transmission, packets are heard in the
\* order they were recorded, none of them twice, and a number is concealed only
\* where a later packet is heard.
PlaysInOrder ==
    OneTransmission =>
        /\ \A i, j \in DOMAIN playout : i < j => playout[i].seq < playout[j].seq
        /\ LostMeansLater

\* Every packet that arrived is heard: what the buffer still holds is fewer
\* packets than it takes to start, with nothing played before them, so an end of
\* transmission cuts off no more than that; and of one transmission the others
\* were played unless a later one had been when they came.
NothingWasted ==
    /\ buffer # {} => buffering /\ Cardinality(buffer) < Delay /\ playout = <<>>
    /\ OneTransmission =>
         \A p \in arrived : \/ p \in buffer
                            \/ \E i \in DOMAIN playout : playout[i].seq >= p.seq
=============================================================================
