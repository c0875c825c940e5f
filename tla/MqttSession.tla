---------------------------- MODULE MqttSession ----------------------------
(* The MQTT session of one process (mqtt.rs): the client half, a bounded    *)
(* channel of requests, and the task that polls rumqttc's event loop.  What *)
(* the broker does with a request is left to the modules that use this one. *)
EXTENDS Integers, Sequences

CONSTANT MaxRequests  \* capacity of the request channel (100 in the code)

VARIABLES
    task,     \* the event task: "none", "polling", "backoff" (2 s), "ended"
    state,    \* ConnState
    flag,     \* shutdown_flag
    link,     \* the connection: "down", "up", or "broken" and not noticed yet
    requests  \* the request channel

sessionVars == <<task, state, flag, link, requests>>

SessionTypeOK ==
    /\ task \in {"none", "polling", "backoff", "ended"}
    /\ state \in {"Connecting", "Connected", "PermanentFailure"}
    /\ flag \in BOOLEAN
    /\ link \in {"down", "up", "broken"}
    /\ Len(requests) <= MaxRequests

SessionInit ==
    /\ task = "none"
    /\ state = "Connecting"
    /\ flag = FALSE
    /\ link = "down"
    /\ requests = <<>>

-----------------------------------------------------------------------------
(* The client half.                                                         *)

Spawn ==
    /\ task' = "polling"
    /\ state' = "Connecting"
    /\ flag' = FALSE
    /\ link' = "down"
    /\ requests' = <<>>

(* Whatever ended it: the requests go with the task, an open connection is  *)
(* closed without a DISCONNECT.                                             *)
Vanish ==
    /\ task' = "none"
    /\ state' = "Connecting"
    /\ flag' = FALSE
    /\ link' = "down"
    /\ requests' = <<>>

(* A request waits for room, or is refused once the event loop has ended:   *)
(* the callers log the refusal, if that, and go on.                         *)
Request(msg) ==
    \/ /\ task # "ended"
       /\ Len(requests) < MaxRequests
       /\ requests' = Append(requests, msg)
    \/ /\ task = "ended"
       /\ UNCHANGED requests

(* graceful_shutdown, before it asks for the disconnect. *)
RaiseFlag == flag' = TRUE

-----------------------------------------------------------------------------
(* The event task.                                                          *)

ConnAck ==
    /\ task = "polling"
    /\ link = "down"
    /\ link' = "up"
    /\ state' = "Connected"
    /\ UNCHANGED <<task, flag, requests>>

(* The oldest request goes out; what is written to a broken connection is   *)
(* lost.                                                                    *)
Send ==
    /\ task = "polling"
    /\ link # "down"
    /\ requests # <<>>
    /\ requests' = Tail(requests)

(* `poll` returns an error: connecting failed, or the connection is found   *)
(* to be broken.  After a shutdown any error ends the task; so does a       *)
(* permanent one, which is announced; others are retried, and the state     *)
(* stays what it was.  What was requested and not sent when a connection is *)
(* lost may be lost with it: the library takes it for pending, and begins a *)
(* clean session without.                                                   *)
PollFails(permanent) ==
    /\ task = "polling"
    /\ link # "up"
    /\ permanent => link = "down"
    /\ link' = "down"
    /\ IF flag \/ permanent
       THEN task' = "ended" /\ requests' = <<>>
       ELSE /\ task' = "backoff"
            /\ requests' \in IF link = "broken" THEN {requests, <<>>} ELSE {requests}
    /\ state' = IF permanent /\ ~flag THEN "PermanentFailure" ELSE state
    /\ UNCHANGED flag

Wake ==
    /\ task = "backoff"
    /\ task' = "polling"
    /\ UNCHANGED <<state, flag, link, requests>>

(* The network or the broker drops the connection.                          *)
Break ==
    /\ link = "up"
    /\ link' = "broken"
    /\ UNCHANGED <<task, state, flag, requests>>
=============================================================================
