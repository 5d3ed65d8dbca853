------------------------ MODULE VoiceStream_proofs ------------------------
(***************************************************************************)
(* Theorems about the starting and stopping of transmissions and about     *)
(* what is heard of them, for any number of requests and frames, any       *)
(* binding, delay and late window, and whatever the network does.          *)
(***************************************************************************)
EXTENDS VoiceStream, FiniteSetTheorems, WellFoundedInduction, TLAPS

USE RequestAssumption

----------------------------------------------------------------------------
(* A step of the stream, as far as PushToTalk is concerned.                *)

ListenerStep == \E k \in Keys : KeyPress(k) \/ KeyRelease(k)
SpawnStep    == \E kind \in Kinds : WindowRequest(kind)
TaskStep(i)  == CheckMode(i) \/ StartTransmit(i) \/ StopTransmit(i) \/ StopEnds(i)
CaptureStep(c) == CaptureOpens(c) \/ CaptureFrame(c) \/ CaptureSends(c) \/ CaptureEnds(c)

PttStep == ListenerStep \/ SpawnStep \/ \E i \in Request : TaskStep(i) \/ CaptureStep(i)

LEMMA StreamSteps == [Next]_vars => PttStep \/ UNCHANGED pttVars
<1> SUFFICES ASSUME [Next]_vars PROVE PttStep \/ UNCHANGED pttVars OBVIOUS
<1>1. CASE Sender BY <1>1 DEF Sender, PttStep, ListenerStep, SpawnStep
<1>2. ASSUME NEW i \in Request, Handle(i) PROVE PttStep
  BY <1>2 DEF Handle, SendEnd, PttStep, TaskStep
<1>3. ASSUME NEW i \in Request, Capture(i) PROVE PttStep
  BY <1>3 DEF Capture, SendFrame, PttStep, CaptureStep
<1>4. CASE Receiver BY <1>4 DEF Receiver, ReceiveVoice, ReceiveEnd
<1>5. CASE UNCHANGED vars BY <1>5 DEF vars
<1> QED BY <1>1, <1>2, <1>3, <1>4, <1>5 DEF Next

\* What a listener's or the window's new request does to the requests: the
\* first unused place is taken, or nothing happens.
NewRequest ==
    \/ request' = request
    \/ \E i \in Request, kind \in Kinds, stage \in {"mode", "lock"} :
         /\ request[i].at = "unused" /\ (stage = "mode" => kind = "start")
         /\ \A j \in 1..(i - 1) : request[j].at # "unused"
         /\ request' = [request EXCEPT ![i] = [kind |-> kind, at |-> stage]]

LEMMA Spawns ==
    ASSUME ListenerStep \/ SpawnStep
    PROVE  /\ NewRequest
           /\ UNCHANGED <<transmitting, current, capture, abandoned, overtaken>>
BY DEF ListenerStep, SpawnStep, KeyPress, KeyRelease, WindowRequest, Spawn, NewRequest, Kinds

LEMMA OthersKept ==
    ASSUME PttTypeOK, NewRequest, NEW j \in Request
    PROVE  \/ request'[j] = request[j]
           \/ /\ request[j].at = "unused" /\ request'[j].at \in {"mode", "lock"}
              /\ request'[j].at = "mode" => request'[j].kind = "start"
              /\ \A k \in 1..(j - 1) : request[k].at # "unused"
<1>1. CASE request' = request BY <1>1
<1>2. ASSUME NEW i \in Request, NEW kind \in Kinds, NEW stage \in {"mode", "lock"},
             request[i].at = "unused", stage = "mode" => kind = "start",
             \A k \in 1..(i - 1) : request[k].at # "unused",
             request' = [request EXCEPT ![i] = [kind |-> kind, at |-> stage]]
      PROVE  \/ request'[j] = request[j]
             \/ /\ request[j].at = "unused" /\ request'[j].at \in {"mode", "lock"}
                /\ request'[j].at = "mode" => request'[j].kind = "start"
                /\ \A k \in 1..(j - 1) : request[k].at # "unused"
  <2>1. CASE j = i
    <3>1. request'[j] = [kind |-> kind, at |-> stage] BY <1>2, <2>1 DEF PttTypeOK
    <3> QED BY <1>2, <2>1, <3>1
  <2>2. CASE j # i BY <1>2, <2>2 DEF PttTypeOK
  <2> QED BY <2>1, <2>2
<1> QED BY <1>1, <1>2 DEF NewRequest

----------------------------------------------------------------------------
LEMMA InitPttType == PttInit => PttTypeOK
<1> SUFFICES ASSUME PttInit PROVE PttTypeOK OBVIOUS
<1> QED BY DEF PttInit, PttTypeOK, Kinds, Stages, States

LEMMA PttTypeInductive == PttTypeOK /\ [Next]_vars => PttTypeOK'
<1> SUFFICES ASSUME PttTypeOK, [Next]_vars PROVE PttTypeOK' OBVIOUS
<1> USE DEF PttTypeOK, Kinds, Stages, States
<1>1. CASE ListenerStep
  <2>1. PICK k \in Keys : KeyPress(k) \/ KeyRelease(k) BY <1>1 DEF ListenerStep
  <2>2. held' \subseteq Keys /\ active' \in BOOLEAN
    BY <2>1 DEF KeyPress, KeyRelease
  <2>3. request' \in [Request -> [kind: Kinds, at: Stages]]
    BY <1>1, Spawns DEF NewRequest
  <2> QED BY <1>1, <2>2, <2>3, Spawns
<1>2. CASE SpawnStep BY <1>2 DEF SpawnStep, WindowRequest, Spawn, listenerVars
<1>3. ASSUME NEW i \in Request, TaskStep(i) PROVE PttTypeOK'
  <2>1. ASSUME NEW stage \in Stages, Moves(i, stage)
        PROVE  request' \in [Request -> [kind: Kinds, at: Stages]]
    BY <2>1 DEF Moves
  <2>2. CASE CheckMode(i)
    <3>1. PICK stage \in {"lock", "done"} : Moves(i, stage) BY <2>2 DEF CheckMode
    <3>2. request' \in [Request -> [kind: Kinds, at: Stages]] BY <2>1, <3>1
    <3> QED BY <2>2, <3>2 DEF CheckMode, listenerVars
  <2>3. CASE StartTransmit(i)
    <3>1. request' \in [Request -> [kind: Kinds, at: Stages]]
      BY <2>1, <2>3 DEF StartTransmit
    <3> QED BY <2>3, <3>1 DEF StartTransmit, listenerVars
  <2>4. CASE StopTransmit(i)
    <3>1. request' \in [Request -> [kind: Kinds, at: Stages]]
      BY <2>1, <2>4 DEF StopTransmit
    <3> QED BY <2>4, <3>1 DEF StopTransmit, AfterStop, listenerVars
  <2>5. CASE StopEnds(i)
    <3>1. request' \in [Request -> [kind: Kinds, at: Stages]]
      BY <2>1, <2>5 DEF StopEnds
    <3> QED BY <2>5, <3>1 DEF StopEnds, listenerVars
  <2> QED BY <1>3, <2>2, <2>3, <2>4, <2>5 DEF TaskStep
<1>4. ASSUME NEW i \in Request, CaptureStep(i) PROVE PttTypeOK'
  BY <1>4 DEF CaptureStep, CaptureOpens, CaptureFrame, CaptureSends, CaptureEnds,
              CaptureGoes, listenerVars
<1>5. CASE UNCHANGED pttVars BY <1>5 DEF pttVars, listenerVars
<1> QED BY <1>1, <1>2, <1>3, <1>4, <1>5, StreamSteps DEF PttStep

\* The state of keys, requests and capture tasks is well typed.
THEOREM RequestsTyped == Spec => []PttTypeOK
<1>1. Init => PttTypeOK BY InitPttType DEF Init
<1> QED BY <1>1, PttTypeInductive, PTL DEF Spec

----------------------------------------------------------------------------
(* One capture task at a time.                                             *)

Alive == {"opening", "looping", "encoding"}

\* A client that does not transmit, and waits for no capture task, remembers
\* none; and every capture task that may still record is the remembered one or
\* one a stop gave up waiting for.  This is the inductive invariant.
CaptureInv ==
    /\ ~Unlocked => ~transmitting
    /\ ~transmitting /\ Unlocked => current = 0
    /\ \A c \in Request : capture[c] \in Alive => c = current \/ c \in abandoned
    /\ \A c \in Request : capture[c] # "none" =>
         request[c].at = "done" /\ request[c].kind = "start"
    /\ current # 0 => capture[current] # "none"

LEMMA InitCapture == Init => CaptureInv
<1> SUFFICES ASSUME Init PROVE CaptureInv OBVIOUS
<1> QED BY DEF Init, PttInit, CaptureInv, Alive

LEMMA CaptureInductive == PttTypeOK /\ CaptureInv /\ [Next]_vars => CaptureInv'
<1> SUFFICES ASSUME PttTypeOK, CaptureInv, [Next]_vars PROVE CaptureInv' OBVIOUS
<1>0. request \in [Request -> [kind: Kinds, at: Stages]] /\ capture \in [Request -> States]
      /\ current \in {0} \cup Request
  BY DEF PttTypeOK
<1>00. 0 \notin Request BY DEF Request
<1>1. CASE ListenerStep \/ SpawnStep
  <2>1. NewRequest /\ UNCHANGED <<transmitting, current, capture, abandoned>>
    BY <1>1, Spawns
  <2>2. \A i \in Request : \/ request'[i] = request[i]
                           \/ request[i].at = "unused" /\ request'[i].at \in {"mode", "lock"}
    BY <2>1, OthersKept
  <2>3. Unlocked' <=> Unlocked BY <1>0, <2>2 DEF Unlocked
  <2> QED BY <2>1, <2>2, <2>3 DEF CaptureInv
<1>2. ASSUME NEW i \in Request, CheckMode(i) PROVE CaptureInv'
  BY <1>0, <1>2 DEF CheckMode, Moves, CaptureInv, Unlocked
<1>3. ASSUME NEW i \in Request, StartTransmit(i) PROVE CaptureInv'
  <2>1. CASE UNCHANGED <<transmitting, current, capture>>
    BY <1>0, <1>3, <2>1 DEF StartTransmit, Moves, CaptureInv, Unlocked
  <2>2. CASE /\ MayStart /\ transmitting' = TRUE /\ current' = i
             /\ capture' = [capture EXCEPT ![i] = "opening"]
    <3>1. current = 0 BY <1>3, <2>2 DEF StartTransmit, MayStart, CaptureInv
    <3>2. \A c \in Request : capture[c] \in Alive => c \in abandoned
      BY <1>00, <3>1 DEF CaptureInv
    <3>3. request' = [request EXCEPT ![i].at = "done"] /\ abandoned' = abandoned
          /\ request[i].kind = "start"
      BY <1>3 DEF StartTransmit, Moves
    <3>4. Unlocked' BY <1>0, <1>3, <3>3 DEF StartTransmit, Unlocked
    <3> QED BY <1>0, <2>2, <3>2, <3>3, <3>4 DEF CaptureInv
  <2> QED BY <1>3, <2>1, <2>2 DEF StartTransmit
<1>4. ASSUME NEW i \in Request, StopTransmit(i) PROVE CaptureInv'
  <2>1. /\ request[i] = [kind |-> "stop", at |-> "lock"] /\ Unlocked
        /\ request' = [request EXCEPT ![i].at = IF transmitting THEN "ending" ELSE "done"]
        /\ UNCHANGED <<current, capture, abandoned>> /\ transmitting' = FALSE
    BY <1>4 DEF StopTransmit, Moves, AfterStop
  <2>2. transmitting => ~Unlocked' BY <1>0, <2>1 DEF Unlocked
  <2>3. \A c \in Request : capture[c] # "none" => request'[c] = request[c]
    BY <1>0, <2>1 DEF CaptureInv
  <2> QED BY <2>1, <2>2, <2>3 DEF CaptureInv
<1>5. ASSUME NEW i \in Request, StopEnds(i) PROVE CaptureInv'
  <2>1. /\ request' = [request EXCEPT ![i].at = "done"] /\ request[i].at = "ending"
        /\ current' = 0 /\ capture' = capture /\ transmitting' = transmitting
        /\ abandoned' = IF current # 0 /\ capture[current] # "ended"
                        THEN abandoned \cup {current} ELSE abandoned
    BY <1>5 DEF StopEnds, Moves
  <2>2. \A c \in Request : capture[c] \in Alive => c \in abandoned'
    BY <1>00, <2>1 DEF CaptureInv, Alive
  <2>3. \A c \in Request : capture[c] # "none" => request'[c] = request[c]
    BY <1>0, <2>1 DEF CaptureInv
  <2>4. ~transmitting' BY <2>1 DEF CaptureInv, Unlocked
  <2> QED BY <2>1, <2>2, <2>3, <2>4 DEF CaptureInv
<1>6. ASSUME NEW c \in Request, CaptureStep(c) PROVE CaptureInv'
  <2>1. /\ capture[c] \in Alive
        /\ \E to \in {"looping", "encoding", "ended"} : capture' = [capture EXCEPT ![c] = to]
        /\ UNCHANGED <<request, transmitting, current, abandoned>>
    BY <1>6 DEF CaptureStep, CaptureOpens, CaptureFrame, CaptureSends, CaptureEnds,
                CaptureGoes, Alive
  <2>2. Unlocked' = Unlocked BY <2>1 DEF Unlocked
  <2> QED BY <1>0, <2>1, <2>2 DEF CaptureInv, Alive
<1>7. CASE UNCHANGED pttVars BY <1>7 DEF pttVars, CaptureInv, Unlocked
<1> QED BY <1>1, <1>2, <1>3, <1>4, <1>5, <1>6, <1>7, StreamSteps DEF PttStep, TaskStep

\* A client records for two transmissions at once only if a stop gave up
\* waiting for one of them.
THEOREM OneCaptureAtATime == Spec => []OneCapture
<1>1. CaptureInv => OneCapture BY DEF CaptureInv, OneCapture, Running, Alive
<1>2. Init => PttTypeOK /\ CaptureInv BY InitPttType, InitCapture DEF Init
<1>3. PttTypeOK /\ CaptureInv /\ [Next]_vars => (PttTypeOK /\ CaptureInv)'
  BY PttTypeInductive, CaptureInductive
<1> QED BY <1>1, <1>2, <1>3, PTL DEF Spec

\* The end of a transmission is the last packet of it that leaves the client,
\* unless the stop gave up waiting for its capture task.
THEOREM EndAlwaysLast == Spec => EndIsLast
<1>1. ASSUME PttTypeOK, CaptureInv, [Next]_vars, NEW c \in Request \ abandoned',
             nextNumber'[c] # nextNumber[c]
      PROVE  request[c].at = "done" /\ current = c
  <2>1. PICK d \in Request : SendFrame(d) /\ nextNumber' # nextNumber
    BY <1>1 DEF Next, Sender, Handle, Capture, SendEnd, Receiver, ReceiveVoice, ReceiveEnd,
                vars, streamVars
  <2>2. nextNumber' = [nextNumber EXCEPT ![d] = @ + 1] BY <2>1 DEF SendFrame
  <2>3. c = d BY <1>1, <2>2
  <2>4. capture[c] = "encoding" /\ abandoned' = abandoned
    BY <2>1, <2>3 DEF SendFrame, CaptureSends, CaptureGoes
  <2> QED BY <1>1, <2>4 DEF CaptureInv, Alive
<1>2. Init => PttTypeOK /\ CaptureInv BY InitPttType, InitCapture DEF Init
<1>3. PttTypeOK /\ CaptureInv /\ [Next]_vars => (PttTypeOK /\ CaptureInv)'
  BY PttTypeInductive, CaptureInductive
<1>4. PttTypeOK /\ CaptureInv /\ [Next]_vars =>
        [\A c \in Request \ abandoned' :
           nextNumber'[c] # nextNumber[c] => request[c].at = "done" /\ current = c]_vars
  BY <1>1
<1> QED BY <1>2, <1>3, <1>4, PTL DEF Spec, EndIsLast

----------------------------------------------------------------------------
(* Silence after the last release.                                         *)

\* Requests are numbered in the order they were made.  A stop that was handled
\* while an older request had not been is on record, and so is, while the
\* client transmits, a stop handled before the older start that made it so.
Handled(i) == request[i].at \in {"ending", "done"}

OrderInv ==
    /\ \A i \in Request : request[i].at = "mode" => request[i].kind = "start"
    /\ \A i \in Request : request[i].at # "unused" =>
         \A j \in 1..(i - 1) : request[j].at # "unused"
    /\ \A i, j \in Request :
         /\ j < i /\ request[i].kind = "stop" /\ Handled(i)
         /\ request[j].at \in {"mode", "lock"}
         => overtaken
    /\ transmitting =>
         /\ current # 0
         /\ \A i \in Request : current < i /\ request[i].kind = "stop" /\ Handled(i) => overtaken

LEMMA InitOrder == Init => OrderInv
<1> SUFFICES ASSUME Init PROVE OrderInv OBVIOUS
<1> QED BY DEF Init, PttInit, OrderInv, Handled

LEMMA OrderInductive ==
    PttTypeOK /\ CaptureInv /\ OrderInv /\ [Next]_vars => OrderInv'
<1> SUFFICES ASSUME PttTypeOK, CaptureInv, OrderInv, [Next]_vars PROVE OrderInv' OBVIOUS
<1>0. request \in [Request -> [kind: Kinds, at: Stages]] /\ current \in {0} \cup Request
  BY DEF PttTypeOK
<1>00. Request \subseteq Nat /\ \A i \in Request : \A j \in 1..(i - 1) : j \in Request
  BY DEF Request
<1>1. CASE ListenerStep \/ SpawnStep
  <2>1. NewRequest /\ UNCHANGED <<transmitting, current, overtaken>> BY <1>1, Spawns
  <2>2. \A i \in Request : \/ request'[i] = request[i]
                           \/ /\ request[i].at = "unused" /\ request'[i].at \in {"mode", "lock"}
                              /\ request'[i].at = "mode" => request'[i].kind = "start"
                              /\ \A k \in 1..(i - 1) : request[k].at # "unused"
    BY <2>1, OthersKept
  <2>3. \A i \in Request : request[i].at # "unused" => request'[i].at # "unused" BY <2>2
  <2>4. \A i \in Request : Handled(i)' => Handled(i) /\ request'[i] = request[i]
    BY <2>2 DEF Handled
  <2>5. ASSUME NEW i \in Request, request'[i].at # "unused", NEW j \in 1..(i - 1)
        PROVE  request'[j].at # "unused"
    BY <1>00, <2>2, <2>3, <2>5 DEF OrderInv
  <2>6. ASSUME NEW i \in Request, NEW j \in Request, j < i, request'[i].kind = "stop",
               Handled(i)', request'[j].at \in {"mode", "lock"}
        PROVE  overtaken
    <3>1. Handled(i) /\ request'[i] = request[i] BY <2>4, <2>6
    <3>2. j \in 1..(i - 1) BY <1>00, <2>6 DEF Request
    <3>3. request[j].at # "unused" BY <3>1, <3>2 DEF OrderInv, Handled
    <3> QED BY <2>2, <2>6, <3>1, <3>3 DEF OrderInv
  <2>7. \A i \in Request : request'[i].at = "mode" => request'[i].kind = "start"
    BY <2>2 DEF OrderInv
  <2>8. transmitting' =>
          /\ current' # 0
          /\ \A i \in Request : /\ current' < i /\ request'[i].kind = "stop" /\ Handled(i)'
                              => overtaken'
    BY <2>1, <2>4 DEF OrderInv
  <2> QED BY <2>1, <2>5, <2>6, <2>7, <2>8 DEF OrderInv
<1>2. ASSUME NEW i \in Request, NEW old \in {"mode", "lock", "ending"},
             NEW new \in {"lock", "ending", "done"},
             request[i].at = old, request' = [request EXCEPT ![i].at = new]
      PROVE  /\ \A k \in Request : request'[k].kind = request[k].kind
             /\ request'[i].at = new
             /\ \A k \in Request \ {i} : request'[k] = request[k]
             /\ \A k \in Request : request'[k].at # "unused" <=> request[k].at # "unused"
  BY <1>0, <1>2
<1>3. ASSUME NEW i \in Request, CheckMode(i) PROVE OrderInv'
  <2>1. PICK stage \in {"lock", "done"} : Moves(i, stage) BY <1>3 DEF CheckMode
  <2>2. request[i].at = "mode" /\ UNCHANGED <<transmitting, current, overtaken>>
        /\ request' = [request EXCEPT ![i].at = stage]
    BY <1>3, <2>1 DEF CheckMode, Moves
  <2>3. request[i].kind = "start" BY <2>2 DEF OrderInv
  <2> QED BY <1>00, <1>2, <2>2, <2>3 DEF OrderInv, Handled
<1>4. ASSUME NEW i \in Request, StartTransmit(i) PROVE OrderInv'
  <2>1. /\ request[i].at = "lock" /\ request[i].kind = "start"
        /\ request' = [request EXCEPT ![i].at = "done"] /\ overtaken' = overtaken
    BY <1>4 DEF StartTransmit, Moves
  <2>2. CASE UNCHANGED <<transmitting, current>>
    BY <1>00, <1>2, <2>1, <2>2 DEF OrderInv, Handled
  <2>3. CASE transmitting' = TRUE /\ current' = i
    <3>1. i # 0 BY DEF Request
    <3> QED BY <1>00, <1>2, <2>1, <2>3, <3>1 DEF OrderInv, Handled
  <2> QED BY <1>4, <2>2, <2>3 DEF StartTransmit
<1>5. ASSUME NEW i \in Request, StopTransmit(i) PROVE OrderInv'
  <2>1. /\ request[i].at = "lock" /\ transmitting' = FALSE
        /\ overtaken' = (overtaken \/ \E j \in 1..(i - 1) : request[j].at \in {"mode", "lock"})
    BY <1>5 DEF StopTransmit, AfterStop
  <2>2. PICK stage \in {"ending", "done"} : request' = [request EXCEPT ![i].at = stage]
    BY <1>5 DEF StopTransmit, Moves
  <2>3. \A j \in Request : j < i => j \in 1..(i - 1) BY <1>00 DEF Request
  <2>4. /\ \A k \in Request : request'[k].kind = request[k].kind
        /\ request'[i].at = stage
        /\ \A k \in Request \ {i} : request'[k] = request[k]
        /\ \A k \in Request : request'[k].at # "unused" <=> request[k].at # "unused"
    BY <1>2, <2>1, <2>2
  <2>5. /\ \A k \in Request : request'[k].at = "mode" => request'[k].kind = "start"
        /\ \A k \in Request : request'[k].at # "unused" =>
             \A j \in 1..(k - 1) : request'[j].at # "unused"
    BY <1>00, <2>4 DEF OrderInv
  <2>6. ASSUME NEW k \in Request, NEW j \in Request, j < k, request'[k].kind = "stop",
               Handled(k)', request'[j].at \in {"mode", "lock"}
        PROVE  overtaken'
    <3>1. request'[j] = request[j] BY <2>4, <2>6
    <3>2. CASE k = i BY <2>1, <2>3, <2>6, <3>1, <3>2
    <3>3. CASE k # i BY <2>1, <2>4, <2>6, <3>1, <3>3 DEF OrderInv, Handled
    <3> QED BY <3>2, <3>3
  <2> QED BY <2>1, <2>5, <2>6 DEF OrderInv
<1>6. ASSUME NEW i \in Request, StopEnds(i) PROVE OrderInv'
  <2>1. /\ request[i].at = "ending" /\ request' = [request EXCEPT ![i].at = "done"]
        /\ UNCHANGED <<transmitting, overtaken>>
    BY <1>6 DEF StopEnds, Moves
  <2>2. ~transmitting BY <2>1 DEF CaptureInv, Unlocked
  <2> QED BY <1>00, <1>2, <2>1, <2>2 DEF OrderInv, Handled
<1>7. ASSUME NEW c \in Request, CaptureStep(c) PROVE OrderInv'
  <2>1. UNCHANGED <<request, transmitting, current, overtaken>>
    BY <1>7 DEF CaptureStep, CaptureOpens, CaptureFrame, CaptureSends, CaptureEnds, CaptureGoes
  <2> QED BY <2>1 DEF OrderInv, Handled
<1>8. CASE UNCHANGED pttVars BY <1>8 DEF pttVars, OrderInv, Handled
<1> QED BY <1>1, <1>3, <1>4, <1>5, <1>6, <1>7, <1>8, StreamSteps DEF PttStep, TaskStep

\* When the last thing asked for was a stop and all requests are answered,
\* nothing is transmitted, unless a stop overtook an older request.
THEOREM ReleasedAlwaysSilent == Spec => []ReleasedIsSilent
<1>1. PttTypeOK /\ CaptureInv /\ OrderInv => ReleasedIsSilent
  <2> SUFFICES ASSUME PttTypeOK, CaptureInv, OrderInv, NEW i \in Request, LastRequest(i),
                      request[i].kind = "stop",
                      \A j \in Request : request[j].at \in {"unused", "done"}, transmitting
               PROVE  overtaken
    BY DEF ReleasedIsSilent
  <2>1. current \in Request BY DEF PttTypeOK, OrderInv
  <2>2. request[current].at = "done" /\ request[current].kind = "start"
    BY <2>1 DEF CaptureInv, Request
  <2>3. current < i BY <2>1, <2>2 DEF LastRequest, Request
  <2> QED BY <2>3 DEF OrderInv, Handled, LastRequest
<1>2. Init => PttTypeOK /\ CaptureInv /\ OrderInv
  BY InitPttType, InitCapture, InitOrder DEF Init
<1>3. PttTypeOK /\ CaptureInv /\ OrderInv /\ [Next]_vars
        => (PttTypeOK /\ CaptureInv /\ OrderInv)'
  BY PttTypeInductive, CaptureInductive, OrderInductive
<1> QED BY <1>1, <1>2, <1>3, PTL DEF Spec

----------------------------------------------------------------------------
(* What is heard.  Arithmetic first.                                       *)

LEMMA HasSmallest ==
    ASSUME NEW T, T \subseteq Nat, T # {}
    PROVE  \E x \in T : \A y \in T : x <= y
<1>1. PICK x \in T : \A y \in T : <<y, x>> \notin OpToRel(<, Nat)
  BY NatLessThanWellFounded, WFMin
<1>2. \A y \in T : ~(y < x) BY <1>1 DEF OpToRel
<1> QED BY <1>2

LEMMA Modulo ==
    ASSUME NEW x \in Nat, NEW n \in Nat \ {0}
    PROVE  /\ x < n => x % n = x
           /\ n <= x /\ x < n + n => x % n = x - n
<1>1. x < n => x % n = x BY SMTT(20)
<1>2. n <= x /\ x < n + n => x % n = x - n BY SMTT(20)
<1> QED BY <1>1, <1>2

LEMMA AheadIs ==
    ASSUME NEW a \in Number, NEW b \in Number
    PROVE  /\ a <= b => Ahead(b, a) = b - a
           /\ b < a => Ahead(b, a) = b + SeqSpace - a
           /\ Ahead(b, a) \in Int
<1> USE StreamAssumption DEF Number
<1>1. CASE a <= b
  <2> DEFINE x == b + SeqSpace - a
  <2>1. x \in Nat BY <1>1
  <2>2. SeqSpace <= x BY <1>1
  <2>3. x < SeqSpace + SeqSpace BY <1>1
  <2>4. Ahead(b, a) = x - SeqSpace BY <2>1, <2>2, <2>3, Modulo DEF Ahead
  <2> QED BY <1>1, <2>4
<1>2. CASE b < a
  <2>1. b + SeqSpace - a \in Nat /\ b + SeqSpace - a < SeqSpace BY <1>2
  <2>2. Ahead(b, a) = b + SeqSpace - a BY <2>1, Modulo DEF Ahead
  <2> QED BY <1>2, <2>2
<1> QED BY <1>1, <1>2

\* The frames that can be sent.
Frames == {Voice(c, n) : c \in Request, n \in 0..(MaxFrames - 1)}

LEMMA FrameIs ==
    ASSUME NEW p \in Frames
    PROVE  /\ p.seq \in 0..(MaxFrames - 1) /\ p.seq \in Number /\ p.seq \in Nat
           /\ \A q \in Frames : q.seq = p.seq /\ q.burst = p.burst => q = p
<1>1. PICK c \in Request, n \in 0..(MaxFrames - 1) : p = Voice(c, n) BY DEF Frames
<1>2. p.seq = n /\ p.burst = c BY <1>1 DEF Voice
<1>3. n \in Number /\ n \in Nat BY StreamAssumption DEF Number
<1>4. ASSUME NEW q \in Frames, q.seq = p.seq, q.burst = p.burst PROVE q = p
  <2>1. PICK d \in Request, m \in 0..(MaxFrames - 1) : q = Voice(d, m) BY DEF Frames
  <2> QED BY <1>1, <1>2, <1>4, <2>1 DEF Voice
<1> QED BY <1>2, <1>3, <1>4

\* A set that is put in order is there from one end to the other.
LEMMA Enumerated ==
    ASSUME NEW set, set \subseteq Frames, IsFiniteSet(set), set # {},
           NEW first \in Number, NEW s \in InOrder(set, first)
    PROVE  /\ s \in Seq(set) /\ Len(s) \in Nat \ {0}
           /\ \A p \in set : \E i \in 1..Len(s) : s[i] = p
           /\ \A i \in 1..Len(s) : s[i] \in set
           /\ \A i, j \in 1..Len(s) : i < j => Ahead(s[i].seq, first) < Ahead(s[j].seq, first)
<1> DEFINE n == Cardinality(set)
<1>1. n \in Nat /\ n # 0 BY FS_CardinalityType, FS_EmptySet
<1>2. s \in [1..n -> set] BY DEF InOrder
<1>3. s \in Seq(set) /\ Len(s) = n /\ DOMAIN s = 1..n BY <1>1, <1>2
<1>4. \A i, j \in 1..n : i < j => Ahead(s[i].seq, first) < Ahead(s[j].seq, first)
  BY <1>3 DEF InOrder
<1>5. \A i \in 1..n : Ahead(s[i].seq, first) \in Int BY <1>2, FrameIs, AheadIs
<1>6. s \in Injection(1..n, set)
  <2> SUFFICES ASSUME NEW i \in 1..n, NEW j \in 1..n, s[i] = s[j] PROVE i = j
    BY <1>2 DEF Injection, IsInjective
  <2>1. ~(i < j) BY <1>4, <1>5
  <2>2. ~(j < i) BY <1>4, <1>5
  <2> QED BY <1>1, <2>1, <2>2
<1>7. IsFiniteSet(1..n) /\ Cardinality(1..n) = n BY <1>1, FS_Interval
<1>8. s \in Surjection(1..n, set) BY <1>6, <1>7, FS_Injection
<1>9. \A p \in set : \E i \in 1..n : s[i] = p BY <1>8 DEF Surjection
<1> QED BY <1>1, <1>2, <1>3, <1>4, <1>9

\* Played from a number that is not behind any of them, packets are heard in
\* ascending order, and no number beyond the last is passed.
LEMMA Played ==
    ASSUME NEW set, set \subseteq Frames, IsFiniteSet(set), set # {},
           NEW first \in Number, \A p \in set : first <= p.seq,
           NEW s \in InOrder(set, first)
    PROVE  /\ \A i, j \in 1..Len(s) : i < j => s[i].seq < s[j].seq
           /\ \A p \in set : p.seq <= s[Len(s)].seq
           /\ \A n \in Passed(first, s[Len(s)].seq) : n <= s[Len(s)].seq /\ n \in Nat
<1>1. /\ Len(s) \in Nat \ {0} /\ \A i \in 1..Len(s) : s[i] \in set
      /\ \A p \in set : \E i \in 1..Len(s) : s[i] = p
      /\ \A i, j \in 1..Len(s) : i < j => Ahead(s[i].seq, first) < Ahead(s[j].seq, first)
  BY Enumerated
<1>2. \A p \in set : p.seq \in Number /\ Ahead(p.seq, first) = p.seq - first
  BY FrameIs, AheadIs
<1>3. \A i \in 1..Len(s) : /\ s[i] \in set /\ s[i].seq \in Number
                           /\ Ahead(s[i].seq, first) = s[i].seq - first
  BY <1>1, <1>2
<1>4. ASSUME NEW i \in 1..Len(s), NEW j \in 1..Len(s), i < j PROVE s[i].seq < s[j].seq
  <2>1. s[i].seq - first < s[j].seq - first BY <1>1, <1>3, <1>4
  <2>2. s[i].seq \in Int /\ s[j].seq \in Int /\ first \in Int
    BY <1>3, StreamAssumption DEF Number
  <2> QED BY <2>1, <2>2
<1>5. Len(s) \in 1..Len(s) BY <1>1
<1>6. ASSUME NEW p \in set PROVE p.seq <= s[Len(s)].seq
  <2>1. PICK i \in 1..Len(s) : s[i] = p BY <1>1
  <2>2. CASE i = Len(s) BY <1>3, <2>1, <2>2, StreamAssumption DEF Number
  <2>3. CASE i # Len(s)
    <3>1. i < Len(s) BY <1>1, <2>3
    <3>2. s[i].seq < s[Len(s)].seq BY <1>4, <1>5, <3>1
    <3> QED BY <1>3, <1>5, <2>1, <3>2, StreamAssumption DEF Number
  <2> QED BY <2>2, <2>3
<1> DEFINE end == s[Len(s)].seq
<1>7. end \in Number /\ first <= end /\ Ahead(end, first) = end - first BY <1>1, <1>3, <1>5
<1> HIDE DEF end
<1>8. ASSUME NEW n \in Passed(first, end) PROVE n <= end /\ n \in Nat
  <2>1. n \in Number /\ Ahead(n, first) <= end - first BY <1>7 DEF Passed
  <2>2. CASE first <= n
    <3>1. n - first <= end - first BY <2>1, <2>2, AheadIs
    <3> QED BY <1>7, <2>1, <3>1, StreamAssumption DEF Number
  <2>3. CASE n < first
    <3>1. n + SeqSpace - first <= end - first BY <2>1, <2>3, AheadIs
    <3> QED BY <1>7, <2>1, <3>1, StreamAssumption DEF Number
  <2> QED BY <1>7, <2>1, <2>2, <2>3, StreamAssumption DEF Number
<1> QED BY <1>4, <1>6, <1>8 DEF end

----------------------------------------------------------------------------
(* What the listener hears.                                                *)

Sent ==
    /\ frames \in 0..MaxFrames
    /\ nextNumber \in [Request -> 0..MaxFrames]
    /\ \A c \in Request : nextNumber[c] <= frames
    /\ \A p \in net : IsVoice(p) => p \in Frames

\* Between two packets the buffer holds fewer packets than it takes to start,
\* and none once playing has begun.
Buffered ==
    /\ arrived \subseteq Frames /\ buffer \subseteq arrived
    /\ IsFiniteSet(buffer) /\ Cardinality(buffer) < Delay
    /\ buffering \in BOOLEAN
    /\ buffer # {} => buffering
    /\ buffering => playout = <<>> /\ lost = {}
    /\ ~buffering => next \in Number
    /\ playout \in Seq(Frames)
    /\ \A i \in 1..Len(playout) : playout[i] \in arrived

Ascending(s) == \A i, j \in 1..Len(s) : i < j => s[i].seq < s[j].seq

\* Of one transmission, everything is kept until playing begins, and from then
\* on the next number is the one after the last played, which is beyond all that
\* arrived and all that was concealed.
Passing ==
    /\ buffering => buffer = arrived
    /\ ~buffering =>
         /\ playout # <<>> /\ Ascending(playout)
         /\ next = playout[Len(playout)].seq + 1
         /\ \A p \in arrived : p.seq < next
         /\ \A n \in lost : n \in Nat /\ n + 1 < next

\* The inductive invariant.
HeardInv == Sent /\ Buffered /\ (OneTransmission => Passing)

LEMMA InitHeard == Init => HeardInv
<1> SUFFICES ASSUME Init PROVE HeardInv OBVIOUS
<1>1. Sent BY StreamAssumption DEF Init, Sent
<1>2. IsFiniteSet(buffer) /\ Cardinality(buffer) < Delay
  BY FS_EmptySet, StreamAssumption DEF Init
<1>3. Buffered BY <1>2 DEF Init, Buffered
<1>4. Passing BY DEF Init, Passing
<1> QED BY <1>1, <1>3, <1>4 DEF HeardInv

LEMMA SentKept == Sent /\ [Next]_vars => Sent'
<1> SUFFICES ASSUME Sent, [Next]_vars PROVE Sent' OBVIOUS
<1>1. ASSUME NEW c \in Request, SendFrame(c) PROVE Sent'
  <2>1. CASE UNCHANGED <<nextNumber, frames, net>> BY <2>1 DEF Sent
  <2>2. CASE /\ frames < MaxFrames /\ frames' = frames + 1
             /\ nextNumber' = [nextNumber EXCEPT ![c] = @ + 1]
             /\ net' = net \cup {Voice(c, nextNumber[c])}
    <3>1. nextNumber[c] \in 0..(MaxFrames - 1) /\ nextNumber[c] + 1 <= frames'
      BY <2>2, StreamAssumption DEF Sent
    <3>2. Voice(c, nextNumber[c]) \in Frames BY <3>1 DEF Frames
    <3>3. \A p \in net' : IsVoice(p) => p \in Frames BY <2>2, <3>2 DEF Sent
    <3>4. frames' \in 0..MaxFrames BY <2>2, StreamAssumption DEF Sent
    <3>5. nextNumber' \in [Request -> 0..MaxFrames]
      BY <2>2, <3>1, StreamAssumption DEF Sent
    <3>6. ASSUME NEW d \in Request PROVE nextNumber'[d] <= frames'
      <4>1. CASE d = c BY <2>2, <3>1, <4>1 DEF Sent
      <4>2. CASE d # c
        <5>1. nextNumber'[d] = nextNumber[d] BY <2>2, <4>2 DEF Sent
        <5> QED BY <2>2, <5>1, StreamAssumption DEF Sent
      <4> QED BY <4>1, <4>2
    <3> QED BY <3>3, <3>4, <3>5, <3>6 DEF Sent
  <2> QED BY <1>1, <2>1, <2>2 DEF SendFrame
<1>2. ASSUME NEW i \in Request, SendEnd(i) PROVE Sent'
  <2>1. ~IsVoice(End(current)) BY DEF IsVoice, End
  <2> QED BY <1>2, <2>1 DEF SendEnd, Sent
<1>3. CASE Receiver
  <2>1. net' \subseteq net /\ UNCHANGED <<nextNumber, frames>>
    BY <1>3 DEF Receiver, ReceiveVoice, ReceiveEnd, Taken
  <2> QED BY <2>1 DEF Sent
<1>4. CASE UNCHANGED streamVars BY <1>4 DEF streamVars, Sent
<1> QED BY <1>1, <1>2, <1>3, <1>4 DEF Next, Sender, Handle, Capture, vars

\* A new packet of the one transmission is late, or it is not behind what has
\* been played.
LEMMA LateOrNext ==
    ASSUME Buffered, Passing, ~buffering, NEW p \in Frames,
           arrived' = arrived \cup {p}, OneTransmission', InTime(p)
    PROVE  IsLate(p.seq) <=> p.seq < next
<1> DEFINE last == playout[Len(playout)]
<1>1. Len(playout) \in 1..Len(playout) BY DEF Buffered, Passing
<1>2. last \in arrived /\ next = last.seq + 1 BY <1>1 DEF Buffered, Passing
<1>3. last.burst = p.burst BY <1>2 DEF OneTransmission
<1>4. last.seq + 1 < p.seq + LateWindow BY <1>2, <1>3 DEF InTime
<1>5. /\ p.seq \in 0..(MaxFrames - 1) /\ p.seq \in Number
      /\ next \in 0..MaxFrames /\ next \in Number /\ next # None
  <2>1. last.seq \in 0..(MaxFrames - 1) BY <1>2, FrameIs DEF Buffered
  <2>2. p.seq \in 0..(MaxFrames - 1) /\ p.seq \in Number BY FrameIs
  <2> HIDE DEF last
  <2>3. next \in 0..MaxFrames BY <1>2, <2>1, StreamAssumption
  <2>4. next \in Number /\ next # None BY <2>3, StreamAssumption DEF Number, None
  <2> QED BY <2>2, <2>3, <2>4
<1> HIDE DEF last
<1>6. CASE p.seq < next
  <2>1. Ahead(next, p.seq) = next - p.seq BY <1>5, <1>6, AheadIs, StreamAssumption DEF Number
  <2>2. next - p.seq \in 1..(LateWindow - 1)
    BY <1>2, <1>4, <1>5, <1>6, StreamAssumption
  <2> QED BY <1>5, <1>6, <2>1, <2>2 DEF IsLate
<1>7. CASE next <= p.seq
  <2>1. CASE p.seq = next
    <3>1. Ahead(next, p.seq) = 0 BY <1>5, <2>1, AheadIs, StreamAssumption DEF Number
    <3> QED BY <1>5, <2>1, <3>1, StreamAssumption DEF IsLate
  <2>2. CASE next < p.seq
    <3>1. Ahead(next, p.seq) = next + SeqSpace - p.seq BY <1>5, <2>2, AheadIs
    <3>2. next + SeqSpace - p.seq > LateWindow BY <1>5, StreamAssumption
    <3>3. Ahead(next, p.seq) \notin 1..(LateWindow - 1) BY <3>1, <3>2, <1>5, StreamAssumption
    <3> QED BY <1>5, <2>2, <3>3, StreamAssumption DEF IsLate
  <2> QED BY <1>5, <1>7, <2>1, <2>2, StreamAssumption
<1> QED BY <1>5, <1>6, <1>7, StreamAssumption

\* What a push leaves to drain: nothing, the packet alone, or, while playing
\* has not begun, the packet in place of one of its number.
LEMMA Pushed ==
    ASSUME Buffered, NEW p \in Frames
    PROVE  /\ IsFiniteSet(Push(p)) /\ Push(p) \subseteq arrived \cup {p}
           /\ ~buffering => Push(p) = IF IsLate(p.seq) THEN {} ELSE {p}
           /\ buffering => Push(p) = {q \in buffer : q.seq # p.seq} \cup {p}
<1> DEFINE others == {q \in buffer : q.seq # p.seq}
<1> DEFINE inserted == others \cup {p}
<1>1. IsFiniteSet(others) /\ Cardinality(others) <= Cardinality(buffer)
      /\ p \notin others /\ Cardinality(others) \in Nat
  BY FS_Subset, FS_CardinalityType DEF Buffered
<1>2. IsFiniteSet(inserted) /\ Cardinality(inserted) = Cardinality(others) + 1
  BY <1>1, FS_AddElement
<1>3. Cardinality(inserted) <= Delay
  <2>1. Cardinality(buffer) \in Nat BY FS_CardinalityType DEF Buffered
  <2> QED BY <1>1, <1>2, <2>1, StreamAssumption DEF Buffered
<1>4. ~(Cardinality(inserted) > 4 * Delay)
  <2>1. Cardinality(inserted) \in Nat BY <1>1, <1>2
  <2> QED BY <1>3, <2>1, StreamAssumption
<1>5. Push(p) = IF IsLate(p.seq) THEN buffer ELSE inserted BY <1>4 DEF Push
<1>6. buffering => ~IsLate(p.seq) BY DEF IsLate
<1>7. ~buffering => buffer = {} BY DEF Buffered
<1>8. IsFiniteSet(Push(p)) BY <1>2, <1>5 DEF Buffered
<1>9. Push(p) \subseteq arrived \cup {p} BY <1>5 DEF Buffered
<1>10. CASE buffering BY <1>5, <1>6, <1>8, <1>9, <1>10
<1>11. CASE ~buffering BY <1>5, <1>7, <1>8, <1>9, <1>11
<1> QED BY <1>10, <1>11 DEF Buffered


\* What a drain plays.
Drains(set, first) ==
    \E ordered \in InOrder(set, first) :
       LET end == ordered[Len(ordered)].seq IN
       /\ buffer' = {}
       /\ next' = (end + 1) % SeqSpace
       /\ buffering' = FALSE
       /\ playout' = playout \o ordered
       /\ lost' = lost \cup (Passed(first, end) \ {p.seq : p \in set})

LEMMA First ==
    ASSUME NEW set, set \subseteq Frames, set # {}
    PROVE  Smallest(set) \in set /\ \A q \in set : Smallest(set).seq <= q.seq
<1> DEFINE T == {q.seq : q \in set}
<1>1. T \subseteq Nat /\ T # {} BY FrameIs
<1> HIDE DEF T
<1>2. PICK x \in T : \A y \in T : x <= y BY <1>1, HasSmallest
<1>3. PICK p \in set : x = p.seq BY <1>2 DEF T
<1>4. \A q \in set : p.seq <= q.seq BY <1>2, <1>3 DEF T
<1> QED BY <1>3, <1>4 DEF Smallest

LEMMA DrainKeepsBuffered ==
    ASSUME Buffered, NEW set, IsFiniteSet(set), set # {}, NEW first \in Number,
           set \subseteq arrived', arrived \subseteq arrived', arrived' \subseteq Frames,
           Drains(set, first)
    PROVE  Buffered'
<1>1. PICK ordered \in InOrder(set, first) :
        LET end == ordered[Len(ordered)].seq IN
        /\ buffer' = {} /\ next' = (end + 1) % SeqSpace
        /\ buffering' = FALSE /\ playout' = playout \o ordered
  BY DEF Drains
<1>2. /\ ordered \in Seq(set) /\ Len(ordered) \in Nat \ {0}
      /\ \A i \in 1..Len(ordered) : ordered[i] \in set
  BY Enumerated
<1>3. next' \in Number
  <2>1. Len(ordered) \in 1..Len(ordered) BY <1>2
  <2>2. ordered[Len(ordered)].seq \in Nat BY <1>2, <2>1, FrameIs
  <2> DEFINE e == ordered[Len(ordered)].seq
  <2>3. e \in Nat BY <2>2
  <2>4. next' = (e + 1) % SeqSpace BY <1>1
  <2> HIDE DEF e
  <2> QED BY <2>3, <2>4, StreamAssumption DEF Number
<1>4. playout \in Seq(Frames) /\ ordered \in Seq(Frames) BY <1>2 DEF Buffered
<1>5. playout' \in Seq(Frames) BY <1>1, <1>4
<1>6. ASSUME NEW i \in 1..Len(playout') PROVE playout'[i] \in arrived'
  <2>1. Len(playout') = Len(playout) + Len(ordered) /\ Len(playout) \in Nat BY <1>1, <1>4
  <2>2. CASE i \in 1..Len(playout)
    <3>1. playout'[i] = playout[i] BY <1>1, <1>4, <2>2
    <3> QED BY <2>2, <3>1 DEF Buffered
  <2>3. CASE i > Len(playout)
    <3>1. i - Len(playout) \in 1..Len(ordered) BY <1>2, <2>1, <2>3
    <3>2. playout'[i] = ordered[i - Len(playout)] BY <1>1, <1>4, <2>1, <2>3
    <3> QED BY <1>2, <3>1, <3>2
  <2> QED BY <2>1, <2>2, <2>3
<1>7. IsFiniteSet({}) /\ Cardinality({}) = 0 BY FS_EmptySet
<1>8. IsFiniteSet(buffer') /\ Cardinality(buffer') < Delay BY <1>1, <1>7, StreamAssumption
<1> QED BY <1>1, <1>3, <1>5, <1>6, <1>8 DEF Buffered

LEMMA DrainKeepsPassing ==
    ASSUME Buffered, NEW set, IsFiniteSet(set), set # {}, NEW first \in Number,
           set \subseteq Frames, arrived' \subseteq Frames,
           \A p \in set : first <= p.seq, Drains(set, first),
           Ascending(playout), \A i \in 1..Len(playout) : playout[i].seq < first,
           \A p \in arrived' : p.seq < first \/ p \in set,
           \A n \in lost : n \in Nat /\ n + 1 < first
    PROVE  Passing'
<1>1. PICK ordered \in InOrder(set, first) :
        LET end == ordered[Len(ordered)].seq IN
        /\ next' = (end + 1) % SeqSpace /\ buffering' = FALSE
        /\ playout' = playout \o ordered
        /\ lost' = lost \cup (Passed(first, end) \ {p.seq : p \in set})
  BY DEF Drains
<1> DEFINE l == Len(ordered)
<1> DEFINE end == ordered[l].seq
<1>2. /\ ordered \in Seq(set) /\ l \in Nat \ {0}
      /\ \A i \in 1..l : ordered[i] \in set
  BY Enumerated
<1>3. /\ \A i, j \in 1..l : i < j => ordered[i].seq < ordered[j].seq
      /\ \A p \in set : p.seq <= end
      /\ \A n \in Passed(first, end) : n <= end /\ n \in Nat
  BY Played
<1>4. ordered[l] \in set BY <1>2
<1>5. end \in 0..(MaxFrames - 1) /\ end \in Nat BY <1>4, FrameIs
<1>6. next' = end + 1
  <2> HIDE DEF end
  <2>1. end + 1 \in Nat /\ end + 1 < SeqSpace BY <1>5, StreamAssumption
  <2>2. (end + 1) % SeqSpace = end + 1 BY <2>1, Modulo, StreamAssumption
  <2> QED BY <1>1, <2>2 DEF end
<1>7. playout \in Seq(Frames) /\ ordered \in Seq(Frames) BY <1>2 DEF Buffered
<1>8. playout' = playout \o ordered /\ Len(playout') = Len(playout) + l /\ Len(playout) \in Nat
  BY <1>1, <1>7
<1>9. \A i \in 1..Len(playout) : playout'[i] = playout[i] BY <1>7, <1>8
<1>10. \A i \in 1..Len(playout') :
         i > Len(playout) => i - Len(playout) \in 1..l /\ playout'[i] = ordered[i - Len(playout)]
  BY <1>2, <1>7, <1>8
<1>11. playout'[Len(playout')] = ordered[l] /\ playout' # <<>>
  <2>1. Len(playout') \in 1..Len(playout') /\ Len(playout') > Len(playout)
        /\ Len(playout') - Len(playout) = l
    BY <1>2, <1>8
  <2>2. playout'[Len(playout')] = ordered[l] BY <1>10, <2>1
  <2>3. playout' # <<>> BY <2>1
  <2> QED BY <2>2, <2>3
<1>12. first <= end /\ first \in Nat
  <2>1. first \in Nat BY StreamAssumption DEF Number
  <2> QED BY <1>4, <2>1
<1>13. ASSUME NEW i \in 1..Len(playout'), NEW j \in 1..Len(playout'), i < j
       PROVE  playout'[i].seq < playout'[j].seq
  <2>1. CASE j \in 1..Len(playout)
    <3>1. i \in 1..Len(playout) BY <1>13, <2>1
    <3> QED BY <1>9, <1>13, <2>1, <3>1 DEF Ascending
  <2>2. CASE i > Len(playout)
    <3>1. j > Len(playout) BY <1>8, <1>13, <2>2
    <3>2. i - Len(playout) < j - Len(playout) BY <1>8, <1>13
    <3> QED BY <1>3, <1>10, <2>2, <3>1, <3>2
  <2>3. CASE i \in 1..Len(playout) /\ j > Len(playout)
    <3>1. playout'[i].seq < first BY <1>9, <2>3
    <3>2. playout'[j] \in set BY <1>2, <1>10, <2>3
    <3>3. first <= playout'[j].seq /\ playout'[j].seq \in Nat BY <3>2, FrameIs
    <3>4. playout'[i].seq \in Nat
      <4>1. playout[i] \in Frames BY <1>7, <2>3
      <4> QED BY <1>9, <2>3, <4>1, FrameIs
    <3> QED BY <1>12, <3>1, <3>3, <3>4
  <2>4. \A k \in 1..Len(playout') : k \in 1..Len(playout) \/ k > Len(playout) BY <1>8
  <2> QED BY <2>1, <2>2, <2>3, <2>4
<1>14. ASSUME NEW p \in arrived' PROVE p.seq < next'
  <2>1. p.seq \in Nat BY FrameIs
  <2>2. p.seq < first \/ p.seq <= end BY <1>3
  <2> HIDE DEF end
  <2> QED BY <1>5, <1>6, <1>12, <2>1, <2>2
<1>15. ASSUME NEW n \in lost' PROVE n \in Nat /\ n + 1 < next'
  <2>1. CASE n \in lost
    <3>1. n \in Nat /\ n + 1 < first BY <2>1
    <3> HIDE DEF end
    <3> QED BY <1>5, <1>6, <1>12, <3>1
  <2>2. CASE n \in Passed(first, end) \ {p.seq : p \in set}
    <3>1. n <= end /\ n \in Nat BY <1>3, <2>2
    <3>2. n # end BY <1>4, <2>2
    <3> HIDE DEF end
    <3> QED BY <1>5, <1>6, <3>1, <3>2
  <2> QED BY <1>1, <2>1, <2>2
<1> QED BY <1>1, <1>6, <1>11, <1>13, <1>14, <1>15 DEF Passing, Ascending

LEMMA VoiceKeepsHeard ==
    ASSUME HeardInv, NEW p \in net, ReceiveVoice(p)
    PROVE  Buffered' /\ (OneTransmission' => Passing')
<1> DEFINE set == Push(p)
<1>1. /\ IsVoice(p) /\ InTime(p) /\ arrived' = arrived \cup {p} /\ Drain(set)
      /\ p \in Frames /\ Buffered
  BY DEF ReceiveVoice, HeardInv, Sent
<1>2. arrived \subseteq arrived' /\ arrived' \subseteq Frames BY <1>1 DEF Buffered
<1>3. /\ IsFiniteSet(set) /\ set \subseteq arrived' /\ set \subseteq Frames
      /\ ~buffering => set = IF IsLate(p.seq) THEN {} ELSE {p}
      /\ buffering => set = {q \in buffer : q.seq # p.seq} \cup {p}
  BY <1>1, <1>2, Pushed
<1>4. OneTransmission' => OneTransmission BY <1>2 DEF OneTransmission
<1>5. ASSUME OneTransmission', buffering PROVE set = arrived'
  <2>1. buffer = arrived BY <1>4, <1>5 DEF HeardInv, Passing
  <2>2. \A q \in arrived : q.burst = p.burst BY <1>1, <1>5 DEF OneTransmission
  <2>3. \A q \in arrived : q.seq = p.seq => q = p BY <1>1, <1>2, <2>2, FrameIs
  <2> QED BY <1>1, <1>3, <1>5, <2>1, <2>3
<1> HIDE DEF set
<1>6. p.seq \in Number /\ p.seq \in Nat BY <1>1, FrameIs
\* Nothing is played.
<1>7. CASE set = {} \/ Filling(set)
  <2>1. buffer' = set /\ UNCHANGED <<next, buffering, playout, lost>>
    BY <1>1, <1>7 DEF Drain
  <2>2. Cardinality(set) < Delay /\ (set # {} => buffering)
    <3>1. CASE set = {} BY <3>1, FS_EmptySet, StreamAssumption
    <3>2. CASE Filling(set) BY <3>2 DEF Filling
    <3> QED BY <1>7, <3>1, <3>2
  <2>3. Buffered' BY <1>1, <1>2, <1>3, <2>1, <2>2 DEF Buffered
  <2>4. ASSUME OneTransmission' PROVE Passing'
    <3>1. Passing BY <1>4, <2>4 DEF HeardInv
    <3>2. CASE buffering BY <1>5, <2>1, <2>4, <3>2 DEF Passing
    <3>3. CASE ~buffering
      <4>1. IsLate(p.seq) BY <1>3, <2>2, <3>3
      <4>2. p.seq < next BY <1>1, <2>4, <3>1, <3>3, <4>1, LateOrNext
      <4> QED BY <1>1, <2>1, <3>1, <3>3, <4>2 DEF Passing, Ascending
    <3> QED BY <3>2, <3>3 DEF Buffered
  <2> QED BY <2>3, <2>4
\* Playing begins.
<1>8. CASE set # {} /\ ~Filling(set) /\ buffering
  <2> DEFINE first == Smallest(set).seq
  <2>1. Smallest(set) \in set /\ \A q \in set : first <= q.seq BY <1>3, <1>8, First
  <2>2. first \in Number /\ Drains(set, first)
    BY <1>1, <1>3, <1>8, <2>1, FrameIs DEF Drain, Drains
  <2> HIDE DEF first
  <2>3. Buffered' BY <1>1, <1>2, <1>3, <1>8, <2>2, DrainKeepsBuffered
  <2>4. playout = <<>> /\ lost = {} BY <1>1, <1>8 DEF Buffered
  <2>5. Ascending(playout) /\ \A i \in 1..Len(playout) : playout[i].seq < first
    BY <2>4 DEF Ascending
  <2>6. ASSUME OneTransmission' PROVE Passing'
    <3>1. \A q \in arrived' : q.seq < first \/ q \in set BY <1>5, <1>8, <2>6
    <3>2. \A n \in lost : n \in Nat /\ n + 1 < first BY <2>4
    <3> QED BY <1>1, <1>2, <1>3, <1>8, <2>1, <2>2, <2>5, <3>1, <3>2, DrainKeepsPassing
  <2> QED BY <2>3, <2>6
\* Playing goes on.
<1>9. CASE set # {} /\ ~Filling(set) /\ ~buffering
  <2>1. next \in Number /\ Drains(set, next)
    BY <1>1, <1>9 DEF Drain, Drains, Buffered
  <2>2. Buffered' BY <1>1, <1>2, <1>3, <1>9, <2>1, DrainKeepsBuffered
  <2>3. set = {p} /\ ~IsLate(p.seq) BY <1>3, <1>9
  <2>4. ASSUME OneTransmission' PROVE Passing'
    <3>1. Passing BY <1>4, <2>4 DEF HeardInv
    <3>2. ~(p.seq < next) BY <1>1, <1>9, <2>3, <2>4, <3>1, LateOrNext
    <3>3. next \in Nat BY <2>1, StreamAssumption DEF Number
    <3>4. \A q \in set : next <= q.seq BY <1>6, <2>3, <3>2, <3>3
    <3>5. /\ Ascending(playout) /\ \A q \in arrived : q.seq < next
          /\ \A n \in lost : n \in Nat /\ n + 1 < next
      BY <1>9, <3>1 DEF Passing
    <3>6. \A i \in 1..Len(playout) : playout[i].seq < next BY <1>1, <3>5 DEF Buffered
    <3>7. \A q \in arrived' : q.seq < next \/ q \in set BY <1>1, <2>3, <3>5
    <3> QED BY <1>1, <1>2, <1>3, <1>9, <2>1, <3>4, <3>5, <3>6, <3>7, DrainKeepsPassing
  <2> QED BY <2>2, <2>4
<1> QED BY <1>1, <1>7, <1>8, <1>9 DEF Buffered

LEMMA HeardInductive == HeardInv /\ [Next]_vars => HeardInv'
<1> SUFFICES ASSUME HeardInv, [Next]_vars PROVE HeardInv' OBVIOUS
<1>1. Sent' BY SentKept DEF HeardInv
<1>2. CASE UNCHANGED receiverVars
  BY <1>1, <1>2 DEF HeardInv, Buffered, Passing, OneTransmission, Ascending, receiverVars
<1>3. ASSUME NEW p \in net, ReceiveVoice(p) PROVE HeardInv'
  BY <1>1, <1>3, VoiceKeepsHeard DEF HeardInv
<1>4. ASSUME NEW p \in net, ReceiveEnd(p) PROVE HeardInv'
  <2>1. /\ buffer' = {} /\ buffering' = TRUE /\ arrived' = {} /\ playout' = <<>> /\ lost' = {}
    BY <1>4 DEF ReceiveEnd
  <2>2. IsFiniteSet(buffer') /\ Cardinality(buffer') < Delay
    BY <2>1, FS_EmptySet, StreamAssumption
  <2>3. Buffered' BY <2>1, <2>2 DEF Buffered
  <2>4. Passing' BY <2>1 DEF Passing
  <2> QED BY <1>1, <2>3, <2>4 DEF HeardInv
<1>5. CASE Sender \/ (\E i \in Request : Handle(i) \/ Capture(i)) \/ UNCHANGED vars
  <2>1. UNCHANGED receiverVars
    BY <1>5 DEF Sender, Handle, SendEnd, Capture, SendFrame, vars, streamVars
  <2> QED BY <1>2, <2>1
<1> QED BY <1>3, <1>4, <1>5 DEF Next, Receiver

LEMMA HeardAlways == Spec => []HeardInv
BY InitHeard, HeardInductive, PTL DEF Spec

\* Of one transmission, packets are heard in the order they were recorded, none
\* twice, and a number is concealed only where a later packet is heard.
THEOREM AlwaysPlaysInOrder == Spec => []PlaysInOrder
<1>1. HeardInv => PlaysInOrder
  <2> SUFFICES ASSUME HeardInv, OneTransmission
               PROVE  /\ \A i, j \in DOMAIN playout : i < j => playout[i].seq < playout[j].seq
                      /\ LostMeansLater
    BY DEF PlaysInOrder
  <2>1. Passing /\ Buffered BY DEF HeardInv
  <2>2. CASE buffering BY <2>1, <2>2 DEF Buffered, LostMeansLater
  <2>3. CASE ~buffering
    <3> DEFINE last == playout[Len(playout)]
    <3>1. DOMAIN playout = 1..Len(playout) /\ Len(playout) \in 1..Len(playout)
      BY <2>1, <2>3 DEF Buffered, Passing
    <3>2. last \in arrived /\ next = last.seq + 1 BY <2>1, <2>3, <3>1 DEF Buffered, Passing
    <3>3. last.seq \in Nat BY <2>1, <3>2, FrameIs DEF Buffered
    <3> HIDE DEF last
    <3>4. \A n \in lost : last.seq > n BY <2>1, <2>3, <3>2, <3>3 DEF Passing
    <3>5. LostMeansLater BY <3>2, <3>4 DEF LostMeansLater
    <3> QED BY <2>1, <2>3, <3>1, <3>5 DEF Passing, Ascending
  <2> QED BY <2>1, <2>2, <2>3 DEF Buffered
<1> QED BY <1>1, HeardAlways, PTL

\* Every packet that arrived is heard, but for fewer than it takes to start and
\* those that a later one had overtaken.
THEOREM NothingEverWasted == Spec => []NothingWasted
<1>1. HeardInv => NothingWasted
  <2> SUFFICES ASSUME HeardInv PROVE NothingWasted OBVIOUS
  <2>1. Buffered BY DEF HeardInv
  <2>2. buffer # {} => buffering /\ Cardinality(buffer) < Delay /\ playout = <<>>
    BY <2>1 DEF Buffered
  <2>3. ASSUME OneTransmission, NEW p \in arrived
        PROVE  p \in buffer \/ \E i \in DOMAIN playout : playout[i].seq >= p.seq
    <3>1. Passing BY <2>3 DEF HeardInv
    <3>2. CASE ~buffering
      <4> DEFINE last == playout[Len(playout)]
      <4>1. DOMAIN playout = 1..Len(playout) /\ Len(playout) \in 1..Len(playout)
        BY <2>1, <3>1, <3>2 DEF Buffered, Passing
      <4>2. last \in arrived /\ next = last.seq + 1 /\ p.seq < next
        BY <2>1, <3>1, <3>2, <4>1 DEF Buffered, Passing
      <4>3. last.seq \in Nat /\ p.seq \in Nat BY <2>1, <4>2, FrameIs DEF Buffered
      <4>4. last.seq >= p.seq
        <5> HIDE DEF last
        <5> QED BY <4>2, <4>3
      <4> QED BY <4>1, <4>4
    <3> QED BY <2>1, <3>1, <3>2 DEF Buffered, Passing
  <2> QED BY <2>2, <2>3 DEF NothingWasted
<1> QED BY <1>1, HeardAlways, PTL

=============================================================================
