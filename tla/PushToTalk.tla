----------------------------- MODULE PushToTalk -----------------------------
(***************************************************************************)
(* Starting and stopping a transmission on the client: the keyboard        *)
(* listener of global_keys.rs, do_start_transmit and do_stop_transmit of   *)
(* commands.rs, and the life of the capture task of network.rs.            *)
(*                                                                         *)
(* The listener runs on a thread of its own.  For every press or release   *)
(* that changes the state of the binding it spawns an asynchronous task;   *)
(* the window's own handlers and the on-screen button do the same.  The    *)
(* tasks are polled in any order, and all of them want the lock of         *)
(* state.connection: a stop keeps it while it waits for the capture task.  *)
(* The capture task, on a blocking thread, shares only `transmitting'.     *)
(***************************************************************************)
EXTENDS Naturals, FiniteSets

CONSTANTS
    Keys,           \* the keys of the keyboards
    Binding,        \* the keys of the binding: one of each set must be held
    MaxRequests     \* bound: start and stop requests in a behaviour

Request == 1..MaxRequests

ASSUME BindingAssumption == Binding \subseteq SUBSET Keys /\ Binding # {}
ASSUME RequestAssumption == MaxRequests \in Nat

VARIABLES
    held,           \* held_keys of the listener
    active,         \* ptt_active of the listener
    request,        \* the spawned tasks, in the order they were asked for
    transmitting,   \* connection.transmitting
    current,        \* connection.capture_task: its request, or 0 for None
    capture,        \* the capture tasks, by the request that spawned them
    abandoned,      \* history: the captures a stop gave up waiting for
    overtaken       \* history: a stop was handled before an older request

listenerVars == <<held, active>>
pttVars == <<listenerVars, request, transmitting, current, capture, abandoned, overtaken>>

Kinds  == {"start", "stop"}
Stages == {"unused", "mode", "lock", "ending", "done"}
States == {"none", "opening", "looping", "encoding", "ended"}

PttTypeOK ==
    /\ held \subseteq Keys
    /\ active \in BOOLEAN
    /\ request \in [Request -> [kind: Kinds, at: Stages]]
    /\ transmitting \in BOOLEAN
    /\ current \in {0} \cup Request
    /\ capture \in [Request -> States]
    /\ abandoned \subseteq Request
    /\ overtaken \in BOOLEAN

PttInit ==
    /\ held = {}
    /\ active = FALSE
    /\ request = [i \in Request |-> [kind |-> "start", at |-> "unused"]]
    /\ transmitting = FALSE
    /\ current = 0
    /\ capture = [i \in Request |-> "none"]
    /\ abandoned = {}
    /\ overtaken = FALSE

----------------------------------------------------------------------------
(* The listener and the other sources of requests.                         *)

Matches(keys) == \A group \in Binding : keys \cap group # {}

\* The next request takes the first unused place.
Spawn(kind, stage) ==
    \E i \in Request :
        /\ request[i].at = "unused"
        /\ \A j \in 1..(i - 1) : request[j].at # "unused"
        /\ request' = [request EXCEPT ![i] = [kind |-> kind, at |-> stage]]

KeyPress(k) ==
    /\ k \notin held
    /\ held' = held \cup {k}
    /\ IF Matches(held') /\ ~active
       THEN active' = TRUE /\ Spawn("start", "mode")
       ELSE UNCHANGED <<active, request>>
    /\ UNCHANGED <<transmitting, current, capture, abandoned, overtaken>>

\* In hold mode and in trigger mode alike the binding counts as released when
\* it does not match any more.
KeyRelease(k) ==
    /\ k \in held
    /\ held' = held \ {k}
    /\ IF ~Matches(held') /\ active
       THEN active' = FALSE /\ Spawn("stop", "lock")
       ELSE UNCHANGED <<active, request>>
    /\ UNCHANGED <<transmitting, current, capture, abandoned, overtaken>>

\* The commands start_transmit and stop_transmit, invoked by the window.
WindowRequest(kind) ==
    /\ Spawn(kind, "lock")
    /\ UNCHANGED <<listenerVars, transmitting, current, capture, abandoned, overtaken>>

----------------------------------------------------------------------------
(* The spawned tasks.                                                      *)

\* A variant for mutation testing waits for the capture task without the lock.
WaitsUnlocked == TRUE
Unlocked == \A i \in Request : request[i].at # "ending"
Moves(i, stage) == request' = [request EXCEPT ![i].at = stage]

\* The task of a key press goes on only if the voice mode, which the user may
\* have changed at any time, is push to talk.
CheckMode(i) ==
    /\ request[i].at = "mode"
    /\ Unlocked
    /\ \E stage \in {"lock", "done"} : Moves(i, stage)
    /\ UNCHANGED <<listenerVars, transmitting, current, capture, abandoned, overtaken>>

\* Variants for mutation testing: a start that does not look at the flag, a stop
\* that does not clear it.
AlwaysStarts == TRUE
FlagKept     == transmitting

MayStart  == ~transmitting
AfterStop == FALSE

\* do_start_transmit returns early when it is transmitting already, and in
\* the lobby or muted, which are up to the user as well.
StartTransmit(i) ==
    /\ request[i] = [kind |-> "start", at |-> "lock"]
    /\ Unlocked
    /\ Moves(i, "done")
    /\ \/ UNCHANGED <<transmitting, current, capture>>
       \/ /\ MayStart
          /\ transmitting' = TRUE
          /\ current' = i
          /\ capture' = [capture EXCEPT ![i] = "opening"]
    /\ UNCHANGED <<listenerVars, abandoned, overtaken>>

StopTransmit(i) ==
    /\ request[i] = [kind |-> "stop", at |-> "lock"]
    /\ Unlocked
    /\ transmitting' = AfterStop
    /\ Moves(i, IF transmitting THEN "ending" ELSE "done")
    /\ overtaken' = (overtaken \/ \E j \in 1..(i - 1) : request[j].at \in {"mode", "lock"})
    /\ UNCHANGED <<listenerVars, current, capture, abandoned>>

\* Two seconds may have passed; for mutation testing, a wait without a limit.
NeverTimesOut == FALSE
TimedOut == TRUE
WaitOver == TimedOut \/ current = 0 \/ capture[current] = "ended"

\* The wait for the capture task is over, because it ended or because two
\* seconds have passed; the end of transmission is sent next.
StopEnds(i) ==
    /\ request[i].at = "ending" /\ WaitOver
    /\ Moves(i, "done")
    /\ current' = 0
    /\ abandoned' = IF current # 0 /\ capture[current] # "ended"
                    THEN abandoned \cup {current} ELSE abandoned
    /\ UNCHANGED <<listenerVars, transmitting, capture, overtaken>>

----------------------------------------------------------------------------
(* The capture task, from the opening of the device to the end of its loop. *)

CaptureGoes(c, from, to) ==
    /\ capture[c] = from
    /\ capture' = [capture EXCEPT ![c] = to]
    /\ UNCHANGED <<listenerVars, request, transmitting, current, abandoned, overtaken>>

CaptureOpens(c)  == \E to \in {"looping", "ended"} : CaptureGoes(c, "opening", to)
CaptureFrame(c)  == transmitting /\ CaptureGoes(c, "looping", "encoding")
CaptureSends(c)  == CaptureGoes(c, "encoding", "looping")
CaptureEnds(c)   == ~transmitting /\ CaptureGoes(c, "looping", "ended")

----------------------------------------------------------------------------
(* Properties.                                                             *)

Running(c) == capture[c] \in {"looping", "encoding"}
LastRequest(i) == /\ request[i].at # "unused"
                  /\ \A j \in Request : j > i => request[j].at = "unused"

\* Whatever keys and buttons do, a client records for two transmissions at
\* once only if a stop gave up waiting for one of them.
OneCapture ==
    \A c, d \in Request :
        Running(c) /\ Running(d) /\ c # d => {c, d} \cap abandoned # {}

\* When the last thing asked for was a stop and all requests are answered,
\* nothing is transmitted any more, unless a stop overtook the start it was
\* meant for.
ReleasedIsSilent ==
    \A i \in Request :
        /\ LastRequest(i)
        /\ request[i].kind = "stop"
        /\ \A j \in Request : request[j].at \in {"unused", "done"}
        /\ ~overtaken
        => ~transmitting

\* Every request is answered, also when the capture task never ends.
EveryRequestAnswered ==
    \A i \in Request : request[i].at # "unused" ~> request[i].at = "done"
=============================================================================
