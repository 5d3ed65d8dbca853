---------------------------- MODULE VideoStream ----------------------------
(***************************************************************************)
(* A screen share from the encoder of the sharer to the picture of one     *)
(* viewer: FrameProcessor of screenshare/mod.rs, an unreliable network,    *)
(* FrameAssembler of video.rs as driven by udp_receiver_task, the queue to *)
(* video_decode_render_task and that task itself, both of network.rs.      *)
(*                                                                         *)
(* The receiver runs on the asynchronous runtime and the decoder on a      *)
(* blocking thread.  They share the queue and the flag needs_keyframe, by  *)
(* which the receiver tells the decoder that a frame is missing and the    *)
(* decoder tells that a keyframe has made up for it.                       *)
(***************************************************************************)
EXTENDS Integers, FiniteSets, Sequences

CONSTANTS
    MaxFrames,      \* bound: frames the sharer processes
    Interval,       \* keyframe_interval of the encoder
    MaxFragments,   \* bound: fragments of a frame (255 in the code)
    LateWindow,     \* 1000 in the code: how far back a frame counts as old
    QueueSize,      \* capacity of the queue to the decoder (64)
    MaxInFlight,    \* bound: packets under way
    MaxDuplicates   \* bound: packets the network delivers twice

Frame == 0..MaxFrames
None  == -1

ASSUME VideoAssumption ==
    /\ MaxFrames \in Nat /\ MaxDuplicates \in Nat /\ MaxInFlight \in Nat
    /\ Interval \in Nat \ {0} /\ MaxFragments \in Nat \ {0}
    /\ LateWindow \in Nat /\ QueueSize \in Nat \ {0}

VARIABLES
    \* --- the sharer ---
    frameId,            \* frame_id of FrameProcessor
    keyRequested,       \* its flag keyframe_requested
    asked,              \* a RequestKeyframe is on its way to the sharer
    \* --- the network ---
    net, duplicates,
    \* --- udp_receiver_task ---
    assembler,          \* video_assembler
    \* --- shared with the decode and render task ---
    queue, needsKeyframe,
    \* --- the decode and render task ---
    at,                 \* where in its loop it is
    suppress, keySeen,  \* suppress_render, keyframe_seen
    clean,              \* the references in the decoder are complete
    last,               \* the frame decoded last
    latest,             \* whether latest_decoded is an intact picture
    shown,              \* what the viewer sees
    \* --- history ---
    owed,               \* a loss was signalled and no keyframe was queued since
    causes              \* the ways in which a loss went unnoticed

senderVars == <<frameId, keyRequested>>
netVars    == <<net, duplicates>>
renderVars == <<at, suppress, keySeen, clean, last, latest, shown>>
vars == <<senderVars, asked, netVars, assembler, queue, needsKeyframe, renderVars,
          owed, causes>>

Packet  == [frame: Frame, key: BOOLEAN, count: 1..MaxFragments, index: 1..MaxFragments]
Encoded == [frame: Frame, key: BOOLEAN]

\* `parts' is the Vec of fragments, `slots' its length; received_count is not
\* reset when the Vec is cleared.
Assembler == [cur: Frame \cup {None}, count: 0..MaxFragments, slots: 0..MaxFragments,
              parts: SUBSET Packet, received: 0..MaxFragments, key: BOOLEAN,
              everKey: BOOLEAN, lastDone: Frame \cup {None}]

TypeOK ==
    /\ frameId \in Frame /\ keyRequested \in BOOLEAN /\ asked \in BOOLEAN
    /\ net \subseteq Packet /\ duplicates \in 0..MaxDuplicates
    /\ assembler \in Assembler
    /\ queue \in Seq(Encoded) /\ Len(queue) <= QueueSize
    /\ needsKeyframe \in BOOLEAN /\ suppress \in BOOLEAN /\ keySeen \in BOOLEAN
    /\ clean \in BOOLEAN /\ latest \in BOOLEAN /\ owed \in BOOLEAN
    /\ at \in {"recv", "drain", "finish"}
    /\ last \in Frame \cup {None}
    /\ shown \in {"nothing", "intact", "corrupt"}
    /\ causes \subseteq {"full", "twice", "cleared", "unread"}

Init ==
    /\ frameId = 0 /\ keyRequested = FALSE /\ asked = FALSE
    /\ net = {} /\ duplicates = 0
    /\ assembler = [cur |-> None, count |-> 0, slots |-> 0, parts |-> {}, received |-> 0,
                    key |-> FALSE, everKey |-> FALSE, lastDone |-> None]
    /\ queue = <<>> /\ needsKeyframe = FALSE
    /\ at = "recv" /\ suppress = FALSE /\ keySeen = FALSE
    /\ clean = FALSE /\ last = None /\ latest = FALSE /\ shown = "nothing"
    /\ owed = FALSE /\ causes = {}

----------------------------------------------------------------------------
(* The sharer.                                                             *)

\* The encoder makes a keyframe when asked to, and at its interval.
Forced == keyRequested \/ frameId % Interval = 0

Fragments(key, n) == {[frame |-> frameId, key |-> key, count |-> n, index |-> i] : i \in 1..n}

\* The packets of a frame are sent; the network loses some of them.
SendEncoded(key) ==
    \E n \in 1..MaxFragments : \E kept \in SUBSET Fragments(key, n) :
        /\ net' = net \cup kept
        /\ Cardinality(net') <= MaxInFlight

\* One captured frame.  The request for a keyframe is taken before the frame
\* is encoded.  A frame that fails to encode, or that the encoder keeps back,
\* uses up its number; a delta frame that does not fit into the queue to the
\* socket is skipped as a whole and asks for a keyframe.
Process ==
    /\ frameId < MaxFrames
    /\ frameId' = frameId + 1
    /\ \/ UNCHANGED net /\ keyRequested' = FALSE            \* nothing encoded
       \/ UNCHANGED net /\ ~Forced /\ keyRequested' = TRUE   \* the queue is low
       \/ SendEncoded(Forced) /\ keyRequested' = FALSE
    /\ UNCHANGED <<asked, duplicates, assembler, queue, needsKeyframe, renderVars, owed, causes>>

\* The server has relayed RequestKeyframe as KeyframeRequested.
RequestArrives ==
    /\ asked
    /\ asked' = FALSE
    /\ keyRequested' = TRUE
    /\ UNCHANGED <<frameId, netVars, assembler, queue, needsKeyframe, renderVars, owed, causes>>

----------------------------------------------------------------------------
(* FrameAssembler.                                                         *)

\* A fragment of a frame at most 1000 numbers behind the one being assembled.
IsOld(p) == assembler.cur # None /\ assembler.cur - p.frame \in 1..(LateWindow - 1)

\* The frame being assembled is given up for another one, half complete.
GivesUp(p) == /\ assembler.cur \notin {None, p.frame}
              /\ assembler.received \in 1..(assembler.count - 1)

Restarted(p) ==
    IF assembler.cur = p.frame THEN assembler
    ELSE [cur |-> p.frame, count |-> p.count, slots |-> p.count, parts |-> {}, received |-> 0,
          key |-> p.key, everKey |-> assembler.everKey, lastDone |-> assembler.lastDone]

\* Variants for mutation testing: a duplicate counted, a skipped frame unseen.
StoredTwice(a, p) ==
    [a EXCEPT !.parts = {q \in a.parts : q.index # p.index} \cup {p},
              !.received = @ + 1, !.key = @ \/ p.key]
SkipsUnseen(a) == FALSE

Stored(a, p) ==
    LET others == {q \in a.parts : q.index # p.index} IN
    [a EXCEPT !.parts = others \cup {p},
              !.received = IF others = a.parts THEN @ + 1 ELSE @,
              !.key = @ \/ p.key]

\* A complete frame is handed on once a keyframe has been seen; the assembler
\* then forgets that it had this frame.
Completed(a) ==
    IF a.key \/ a.everKey
    THEN [cur |-> None, count |-> a.count, slots |-> 0, parts |-> {}, received |-> a.received,
          key |-> a.key, everKey |-> TRUE, lastDone |-> a.cur]
    ELSE [a EXCEPT !.slots = 0, !.parts = {}]

\* A frame that does not follow the last complete one (wrapping_sub).
Skips(a) == a.lastDone # None /\ a.cur \notin {a.lastDone, a.lastDone + 1}

----------------------------------------------------------------------------
(* udp_receiver_task.                                                      *)

\* A packet leaves the network, or stays to be delivered once more.
Taken(p) ==
    /\ p \in net
    /\ \/ net' = net \ {p} /\ UNCHANGED duplicates
       \/ duplicates < MaxDuplicates /\ duplicates' = duplicates + 1 /\ UNCHANGED net

\* A variant for mutation testing: only the sharer is told of a loss.
SignalsSharerOnly(dropped) ==
    /\ asked' \in IF dropped THEN {asked, TRUE} ELSE {asked}
    /\ UNCHANGED needsKeyframe

\* What the receiver does about a loss: the flag, and at most once a second a
\* request to the sharer.
Signals(dropped) ==
    IF dropped
    THEN /\ needsKeyframe' = TRUE
         /\ asked' \in {asked, TRUE}
    ELSE UNCHANGED <<needsKeyframe, asked>>

\* A frame goes to the decoder unless the queue is full.
QueueHasRoom == Len(queue) < QueueSize
Enqueue(f, dropped) ==
    IF QueueHasRoom
    THEN /\ queue' = Append(queue, f)
         /\ owed' = ((owed \/ dropped) /\ ~f.key)
         /\ causes' = IF f.frame = assembler.lastDone THEN causes \cup {"twice"} ELSE causes
    ELSE /\ queue' = queue
         /\ owed' = (owed \/ dropped)
         /\ causes' = causes \cup {"full"}

Receive(p) ==
    /\ Taken(p)
    /\ LET a       == Restarted(p)
           stored  == Stored(a, p)
           whole   == p.index <= a.slots /\ stored.received = stored.count
           emitted == whole /\ (stored.key \/ stored.everKey)
           dropped == ~IsOld(p) /\ (GivesUp(p) \/ (emitted /\ Skips(stored)))
       IN /\ assembler' = IF IsOld(p) THEN assembler
                          ELSE IF p.index > a.slots THEN a
                          ELSE IF whole THEN Completed(stored) ELSE stored
          /\ Signals(dropped)
          /\ IF emitted /\ ~IsOld(p)
             THEN Enqueue([frame |-> p.frame, key |-> stored.key], dropped)
             ELSE owed' = (owed \/ dropped) /\ UNCHANGED <<queue, causes>>
    /\ UNCHANGED <<senderVars, renderVars>>

----------------------------------------------------------------------------
(* video_decode_render_task.                                               *)

\* A keyframe needs no reference, another frame the one before it.  A frame
\* that lacks its references fails to decode or comes out corrupt.
Intact(f) == f.key \/ (clean /\ f.frame = last + 1)

Decode(f) ==
    /\ queue' = Tail(queue)
    /\ last' = f.frame
    /\ clean' = Intact(f)

\* The first frame of a batch, before which the flag is read.
TakeFrame ==
    /\ at = "recv" /\ queue # <<>>
    /\ LET f == Head(queue) IN
       /\ Decode(f)
       /\ \/ /\ at' = "drain"
             /\ latest' = Intact(f)
             /\ suppress' = (suppress \/ needsKeyframe)
             /\ keySeen' = f.key
             /\ UNCHANGED <<needsKeyframe, asked>>
          \/ /\ ~Intact(f)                       \* decode error
             /\ suppress' = TRUE
             /\ Signals(TRUE)
             /\ UNCHANGED <<at, latest, keySeen>>
    /\ UNCHANGED <<senderVars, netVars, assembler, shown, owed, causes>>

\* The rest of the queue, of which only the last picture counts.
DrainFrame ==
    /\ at = "drain" /\ queue # <<>>
    /\ LET f == Head(queue) IN
       /\ Decode(f)
       /\ keySeen' = (keySeen \/ f.key)
       /\ \/ /\ latest' = Intact(f)
             /\ UNCHANGED <<suppress, needsKeyframe>>
          \/ /\ ~Intact(f)                       \* decode error
             /\ suppress' = TRUE /\ needsKeyframe' = TRUE
             /\ UNCHANGED latest
    /\ UNCHANGED <<senderVars, asked, netVars, assembler, at, shown, owed, causes>>

Drained ==
    /\ at = "drain" /\ queue = <<>>
    /\ at' = "finish"
    /\ UNCHANGED <<senderVars, asked, netVars, assembler, queue, needsKeyframe, suppress,
                   keySeen, clean, last, latest, shown, owed, causes>>

Finish ==
    /\ at = "finish"
    /\ at' = "recv"
    /\ LET resumes == suppress /\ keySeen IN
       /\ suppress' = (suppress /\ ~resumes)
       /\ needsKeyframe' = (needsKeyframe /\ ~resumes)
       /\ causes' = causes \cup (IF resumes /\ (owed \/ ~clean) THEN {"cleared"} ELSE {})
                           \cup (IF needsKeyframe /\ ~suppress THEN {"unread"} ELSE {})
    /\ shown' = IF suppress' THEN shown ELSE IF latest THEN "intact" ELSE "corrupt"
    /\ UNCHANGED <<senderVars, asked, netVars, assembler, queue, keySeen, clean, last,
                   latest, owed>>

----------------------------------------------------------------------------
Next == \/ Process \/ RequestArrives
        \/ \E p \in net : Receive(p)
        \/ TakeFrame \/ DrainFrame \/ Drained \/ Finish

Spec == Init /\ [][Next]_vars

----------------------------------------------------------------------------
(* Properties.                                                             *)

\* What is assembled is of one frame only, and every slot is filled once: no
\* picture is made of fragments of two frames, however packets are reordered.
OneFrameAtATime ==
    /\ \A p \in assembler.parts : p.frame = assembler.cur /\ p.count = assembler.count
    /\ assembler.parts # {} =>
          /\ assembler.received = Cardinality(assembler.parts)
          /\ assembler.received < assembler.count

\* A frame that does not follow the one handed on before is never handed on
\* without the flag being raised, unless it is that same frame once more.
SkipIsSignalled ==
    [][assembler'.lastDone \notin {assembler.lastDone, assembler.lastDone + 1}
         /\ assembler.lastDone # None => needsKeyframe']_vars

\* "The viewer sees the last good frame (frozen) instead of gray corruption."
NoCorruptPicture == shown # "corrupt"

\* A corrupt picture is shown only after a frame was dropped at the full
\* queue, a frame was handed on twice, the flag was raised after the batch had
\* read it, or it was cleared for a keyframe older than the loss.
CorruptionHasCause == shown = "corrupt" => causes # {}
=============================================================================
