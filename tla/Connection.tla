----------------------------- MODULE Connection -----------------------------
(* A process of the program and the broker: its event task (MqttSession)    *)
(* connects, sends what was requested, and puts what the broker sends back  *)
(* into the channel of incoming publishes (mqtt.rs).                        *)
EXTENDS MqttSession, Broker

VARIABLES
    inbox,  \* MqttRuntime::incoming
    cuts    \* how often the network was cut, up to MaxCuts

CONSTANT MaxCuts

connectionVars == <<sessionVars, net, sessions, retained, inbox, cuts>>

(* The requests that are not publishes.                                     *)
SubscribeTo(kind) == [topic |-> "subscribe", slug |-> Nobody, body |-> kind]
Disconnect        == [topic |-> "disconnect", slug |-> Nobody, body |-> Nobody]

ConnectionInit ==
    /\ SessionInit
    /\ net = "up"
    /\ sessions = [c \in Clients |-> Closed]
    /\ inbox = <<>>
    /\ cuts = 0

(* spawn, and the end of a process or of a runtime.                         *)
Open      == Spawn /\ inbox' = <<>>
Abandoned == Vanish /\ inbox' = <<>>

-----------------------------------------------------------------------------
(* run_eventloop.                                                           *)

Connect(c) ==
    /\ ConnAck
    /\ Accept(c)
    /\ UNCHANGED <<net, inbox, cuts>>

ConnectionFails ==
    /\ link = "down" => net # "up"
    /\ PollFails(link = "down" /\ net = "refusing")
    /\ UNCHANGED <<net, sessions, retained, inbox, cuts>>

Retries ==
    /\ Wake
    /\ UNCHANGED <<net, sessions, retained, inbox, cuts>>

(* The broker takes the oldest request; what it sends back is received at   *)
(* once.                                                                    *)
Transmit(c) ==
    /\ link = "up"
    /\ Send
    /\ LET msg == Head(requests) IN
       CASE msg.topic = "subscribe" ->
              /\ Subscribe(c, msg.body)
              /\ \E replay \in Replay(msg.body) : inbox' = inbox \o replay
              /\ UNCHANGED link
         [] msg.topic = "disconnect" ->
              /\ Close(c)
              /\ link' = "broken"
              /\ UNCHANGED inbox
         [] OTHER ->
              /\ retained' = Retain(retained, msg)
              /\ inbox' = inbox \o Delivered(c, msg)
              /\ UNCHANGED <<sessions, link>>
    /\ UNCHANGED <<task, state, flag, net, cuts>>

TransmitInVain ==
    /\ link = "broken"
    /\ Send
    /\ UNCHANGED <<task, state, flag, link, net, sessions, retained, inbox, cuts>>

EventTask(c) ==
    Connect(c) \/ ConnectionFails \/ Retries \/ Transmit(c) \/ TransmitInVain

-----------------------------------------------------------------------------
(* The environment.                                                         *)

(* Someone else publishes. *)
OthersPublish(c, msg) ==
    /\ retained' = Retain(retained, msg)
    /\ inbox' = IF link = "up" THEN inbox \o Delivered(c, msg) ELSE inbox
    /\ UNCHANGED <<sessionVars, net, sessions, cuts>>

(* The connection breaks: the network, a restart of the broker, or one with *)
(* other credentials.                                                       *)
Cut ==
    /\ cuts < MaxCuts
    /\ cuts' = cuts + 1
    /\ net = "up"
    /\ net' \in {"down", "refusing"}
    /\ IF link = "up" THEN Break ELSE UNCHANGED sessionVars
    /\ UNCHANGED <<sessions, retained, inbox>>

Mend ==
    /\ net # "up"
    /\ net' = "up"
    /\ UNCHANGED <<sessionVars, sessions, retained, inbox, cuts>>
=============================================================================
